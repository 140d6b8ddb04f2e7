----------------------------- MODULE MCLibrary -------------------------------
(* A small instance of Library: an article with keywords of two categories *)
(* that tie, one without keywords, one without a date and one too short.   *)
EXTENDS Library, TLC

CONSTANTS a1, a2, a3, a4, faiz, oran, kvkk, macro, finance, regulatory, news, market

MCRules == macro :> {faiz} @@ finance :> {oran} @@ regulatory :> {kvkk}
MCSchema == macro :> news @@ finance :> market @@ regulatory :> news

MCText ==
  a1 :> [short |-> FALSE, tokens |-> 7, published |-> 0,
         found |-> {faiz, oran}, hits |-> faiz :> 1 @@ oran :> 1]
  @@ a2 :> [short |-> FALSE, tokens |-> 4, published |-> 1, found |-> {}, hits |-> <<>>]
  @@ a3 :> [short |-> FALSE, tokens |-> 2, published |-> None, found |-> {faiz}, hits |-> faiz :> 4]
  @@ a4 :> [short |-> TRUE, tokens |-> 1, published |-> 0, found |-> {}, hits |-> <<>>]

MCConfig == {[mode |-> "filtered", default |-> regulatory], [mode |-> "all", default |-> None]}

(* One kind wants a topic, the other a category of source.                 *)
MCQuery ==
  [weekly |-> [schema |-> news, source |-> None, topics |-> {faiz}],
   media |-> [schema |-> news, source |-> "media", topics |-> {}]]

MCPeriod == {<<0, 0>>, <<0, 1>>}

(* The chunks of the first article are alternately nearer and farther.     *)
MCSimilar(q, a, n) == IF a = a1 THEN 3 - (n % 2) ELSE IF a = a2 THEN 2 ELSE n

(* Windows with the given overlap, and with one that must be corrected.    *)
MCCutting == {<<3, 1>>, <<2, 2>>}
=============================================================================
