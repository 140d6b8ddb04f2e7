--------------------------- MODULE LibraryProofs -----------------------------
(***************************************************************************)
(* Theorems about Library, whatever texts, rules, configs, windows, edits  *)
(* and failures there are: the chunks of an article tile it, an item is    *)
(* filed for a reason, a digest takes the best of its period, and the      *)
(* chunks that were found for a question fit into its context.             *)
(***************************************************************************)
EXTENDS Library, FiniteSetTheorems, TLAPS

ChunkerTypeOK ==
  /\ cutter \in {"idle", "cutting"}
  /\ length \in Nat /\ window \in Nat /\ overlap \in Nat /\ start \in Nat
  /\ chunks \in Seq(Chunk)

(* The corrected overlap leaves progress, and between two rounds the next  *)
(* window begins where the last chunk says, short of the end of the text.  *)
BetweenRounds ==
  cutter = "cutting" =>
    /\ overlap < window /\ window < length /\ start < length
    /\ chunks = <<>> => start = 0
    /\ chunks # <<>> =>
         /\ chunks[Len(chunks)].to = chunks[Len(chunks)].from + window
         /\ chunks[Len(chunks)].to < length
         /\ start = chunks[Len(chunks)].to - overlap

ChunkerIInv == ChunkerTypeOK /\ BetweenRounds /\ Tiles

(* What the processor works on is an article.                              *)
WorksOnArticle == step # "idle" => art \in Article

LEMMA ForgetTiles == ChunkerIInv /\ Forget => ChunkerIInv'
BY DEF ChunkerIInv, ChunkerTypeOK, BetweenRounds, Tiles, Forget

(* The overlap a text is cut with leaves progress.                         *)
LEMMA CorrectedLeavesProgress ==
  ASSUME NEW m \in Nat, NEW o \in Nat
  PROVE  Corrected(m, o) \in Nat /\ (m > 0 => Corrected(m, o) < m)
BY DEF Corrected

LEMMA SplitTiles ==
  ASSUME NEW n \in Nat, NEW m \in Nat, NEW o \in Nat, ChunkerIInv, Split(n, m, o)
  PROVE  ChunkerIInv'
<1> USE DEF Split
<1>1. overlap' \in Nat /\ (m > 0 => overlap' < m)
  BY CorrectedLeavesProgress
<1>2. CASE 0 < n /\ n <= m
  <2> DEFINE c == [from |-> 0, to |-> n]
  <2>1. c \in Chunk /\ chunks' = <<c>> /\ cutter' = "idle"
    BY <1>2 DEF Chunk
  <2>2. Len(<<c>>) = 1 /\ <<c>>[1] = c /\ <<c>> \in Seq(Chunk)
    BY <2>1
  <2>3. ChunkerTypeOK' /\ BetweenRounds'
    BY <1>1, <2>1, <2>2 DEF ChunkerTypeOK, BetweenRounds
  <2>4. Tiles'
    BY <1>2, <2>1, <2>2 DEF Tiles
  <2> QED
    BY <2>3, <2>4 DEF ChunkerIInv
<1>3. CASE ~(0 < n /\ n <= m)
  <2>1. chunks' = <<>> /\ Len(<<>>) = 0 /\ <<>> \in Seq(Chunk)
    BY <1>3
  <2>2. ChunkerTypeOK' /\ BetweenRounds'
    BY <1>1, <2>1 DEF ChunkerTypeOK, BetweenRounds
  <2>3. cutter' = "idle" => ~(n > 0 /\ m > 0)
    BY <1>3
  <2>4. Tiles'
    BY <2>1, <2>3 DEF Tiles
  <2> QED
    BY <2>2, <2>4 DEF ChunkerIInv
<1> QED
  BY <1>2, <1>3

LEMMA CutTiles == ChunkerIInv /\ Cut => ChunkerIInv'
<1> SUFFICES ASSUME ChunkerIInv, Cut PROVE ChunkerIInv'
  OBVIOUS
<1> DEFINE n == Len(chunks)
           c == [from |-> start, to |-> End]
<1>1. /\ overlap < window /\ window < length /\ start < length
      /\ length \in Nat /\ window \in Nat /\ overlap \in Nat /\ start \in Nat
      /\ chunks \in Seq(Chunk) /\ n \in Nat
  BY DEF Cut, ChunkerIInv, ChunkerTypeOK, BetweenRounds
<1>2. /\ End \in Nat /\ start < End /\ End <= length /\ End - start <= window
      /\ End < length => End = start + window
      /\ start + window \in Nat
  BY <1>1 DEF End
<1>3. c \in Chunk /\ c.from = start /\ c.to = End
  BY <1>1, <1>2 DEF Chunk
<1>4. /\ chunks' = Append(chunks, c) /\ chunks' \in Seq(Chunk)
      /\ Len(chunks') = n + 1 /\ chunks'[n + 1] = c
      /\ \A i \in 1..n : chunks'[i] = chunks[i] /\ chunks[i] \in Chunk
  BY <1>1, <1>3 DEF Cut
<1>5. length' = length /\ window' = window /\ overlap' = overlap
  BY DEF Cut
<1>6. /\ n = 0 => start = 0
      /\ n > 0 => /\ chunks[n].to = chunks[n].from + window
                  /\ chunks[n].to < length
                  /\ start = chunks[n].to - overlap
  BY <1>1 DEF Cut, ChunkerIInv, BetweenRounds
<1>7. ChunkerTypeOK'
  <2>1. CASE End >= length
    BY <2>1, <1>1, <1>4, <1>5 DEF Cut, ChunkerTypeOK
  <2>2. CASE ~(End >= length)
    <3>1. start' = End - overlap /\ cutter' = "cutting"
      BY <2>2 DEF Cut
    <3>2. start' \in Nat
      BY <3>1, <2>2, <1>1, <1>2
    <3> QED
      BY <3>1, <3>2, <1>1, <1>4, <1>5 DEF ChunkerTypeOK
  <2> QED
    BY <2>1, <2>2
<1>8. BetweenRounds'
  <2> SUFFICES ASSUME cutter' = "cutting" PROVE BetweenRounds'
    BY DEF BetweenRounds
  <2>1. End < length /\ start' = End - overlap
    BY <1>1, <1>2 DEF Cut
  <2> HIDE DEF c, n
  <2>2. chunks' # <<>> /\ chunks'[Len(chunks')].to = End /\ chunks'[Len(chunks')].from = start
    BY <1>3, <1>4 DEF n
  <2> QED
    BY <2>1, <2>2, <1>1, <1>2, <1>5 DEF BetweenRounds
<1>9. Tiles'
  <2>0. Tiles
    BY DEF ChunkerIInv
  <2>1. chunks'[1].from = 0
    <3>1. CASE n = 0
      BY <3>1, <1>3, <1>4, <1>6
    <3>2. CASE n > 0
      BY <3>2, <1>4, <2>0, <1>1 DEF Tiles
    <3> QED
      BY <3>1, <3>2, <1>1
  <2>2. \A i \in 1..(n + 1) : chunks'[i].from < chunks'[i].to /\ chunks'[i].to - chunks'[i].from <= window
    <3> SUFFICES ASSUME NEW i \in 1..(n + 1)
                 PROVE  chunks'[i].from < chunks'[i].to /\ chunks'[i].to - chunks'[i].from <= window
      OBVIOUS
    <3>1. CASE i = n + 1
      BY <3>1, <1>2, <1>3, <1>4
    <3>2. CASE i \in 1..n
      BY <3>2, <1>4, <2>0 DEF Tiles
    <3> QED
      BY <3>1, <3>2, <1>1
  <2>3. ASSUME NEW i \in 1..n
        PROVE  /\ chunks'[i].to = chunks'[i].from + window
               /\ chunks'[i + 1].from = chunks'[i].to - overlap
               /\ chunks'[i + 1].to > chunks'[i].to
    <3>1. CASE i = n
      <4>1. chunks'[i] = chunks[n] /\ chunks'[i + 1] = c /\ chunks[n] \in Chunk /\ n > 0
        BY <3>1, <1>4, <1>1
      <4>2. chunks[n].to \in Nat
        BY <4>1 DEF Chunk
      <4>3. End > chunks[n].to
        BY <4>1, <4>2, <1>1, <1>2, <1>6 DEF End
      <4> QED
        BY <4>1, <4>3, <1>3, <1>6
    <3>2. CASE i \in 1..(n - 1)
      <4>1. chunks'[i] = chunks[i] /\ chunks'[i + 1] = chunks[i + 1]
        BY <3>2, <1>4, <1>1
      <4> QED
        BY <4>1, <3>2, <2>0 DEF Tiles
    <3> QED
      BY <3>1, <3>2, <1>1
  <2>4. cutter' = "idle" => chunks'[n + 1].to = length
    <3>1. cutter' = "idle" => End >= length
      BY DEF Cut
    <3> QED
      BY <3>1, <1>1, <1>2, <1>3, <1>4
  <2> HIDE DEF c
  <2>5. n + 1 > 0 /\ (n + 1) - 1 = n /\ Len(chunks') = n + 1
    BY <1>1, <1>4
  <2> HIDE DEF n
  <2> QED
    BY <2>1, <2>2, <2>3, <2>4, <2>5, <1>5 DEF Tiles
<1> QED
  BY <1>7, <1>8, <1>9 DEF ChunkerIInv

(* Every action leaves the chunker alone, empties it, or is one of its.    *)
LEMMA NextTiles ==
  ASSUME ChunkerIInv, WorksOnArticle, [Next]_vars
  PROVE  ChunkerIInv' /\ WorksOnArticle'
<1>1. ASSUME UNCHANGED chunker PROVE ChunkerIInv'
  BY <1>1 DEF chunker, ChunkerIInv, ChunkerTypeOK, BetweenRounds, Tiles
<1>2. CASE UNCHANGED vars
  BY <1>1, <1>2 DEF vars, library, process, WorksOnArticle
<1>3. ASSUME UNCHANGED <<step, art, chunker>> PROVE ChunkerIInv' /\ WorksOnArticle'
  BY <1>1, <1>3 DEF WorksOnArticle
<1>4. CASE Tick \/ EditSource
  BY <1>3, <1>4 DEF Tick, EditSource, process
<1>5. ASSUME NEW a \in Article, Begin(a) PROVE ChunkerIInv' /\ WorksOnArticle'
  BY <1>1, <1>5 DEF Begin, WorksOnArticle
<1>6. ASSUME NEW outcome, Ends(outcome) PROVE ChunkerIInv' /\ WorksOnArticle'
  BY <1>6, ForgetTiles DEF Ends, WorksOnArticle
<1>7. CASE Fail
  BY <1>6, <1>7 DEF Fail
<1>8. ASSUME NEW s, To(s), step # "idle" PROVE WorksOnArticle'
  BY <1>8 DEF To, WorksOnArticle
<1>9. CASE Process
  <2>1. CASE Normalize
    BY <2>1, <1>1, <1>6, <1>8 DEF Normalize, Drop
  <2>2. CASE Gate
    BY <2>2, <1>1, <1>6, <1>8 DEF Gate, Drop
  <2>3. CASE Enrich \/ Score
    BY <2>3, <1>1, <1>8 DEF Enrich, Score
  <2>4. CASE StartChunks
    <3>1. PICK w \in Cutting : Split(Text[art].tokens, w[1], w[2])
      BY <2>4 DEF StartChunks
    <3>2. Text[art].tokens \in Nat /\ w[1] \in Nat /\ w[2] \in Nat
      BY <2>4, TextAssumption, CuttingAssumption DEF StartChunks, WorksOnArticle
    <3>3. WorksOnArticle'
      BY <2>4, <1>8 DEF StartChunks
    <3> QED
      BY <3>1, <3>2, <3>3, SplitTiles
  <2>5. CASE CutChunk
    BY <2>5, CutTiles DEF CutChunk, library, process, WorksOnArticle
  <2>6. CASE Store
    BY <2>6, <1>6 DEF Store, Drop
  <2> QED
    BY <1>9, <2>1, <2>2, <2>3, <2>4, <2>5, <2>6 DEF Process
<1>10. ASSUME NEW k \in Kind, NEW p \in Period, Generate(k, p)
       PROVE  ChunkerIInv' /\ WorksOnArticle'
  BY <1>3, <1>10 DEF Generate, process
<1>11. ASSUME NEW q \in Question, NEW t \in Thresholds, Ask(q, t)
       PROVE  ChunkerIInv' /\ WorksOnArticle'
  BY <1>3, <1>11 DEF Ask, process
<1> QED
  BY <1>2, <1>4, <1>5, <1>7, <1>9, <1>10, <1>11 DEF Next

(* The chunks of an article tile it (split_text_into_chunks): none exceeds *)
(* the window, neighbours share exactly the overlap, nothing is left out.  *)
THEOREM ChunksTile == Spec => []Tiles
<1>1. LibraryInit => ChunkerIInv /\ WorksOnArticle
  BY DEF LibraryInit, ChunkerInit, ChunkerIInv, ChunkerTypeOK, BetweenRounds, Tiles, WorksOnArticle
<1>2. ChunkerIInv /\ WorksOnArticle /\ [Next]_vars => (ChunkerIInv /\ WorksOnArticle)'
  BY NextTiles
<1>3. ChunkerIInv => Tiles
  BY DEF ChunkerIInv
<1> QED
  BY <1>1, <1>2, <1>3, PTL DEF Spec

-----------------------------------------------------------------------------

(* The reasons for a category, given keywords and the configs there were.  *)
Reason(category, topics, configs) ==
  /\ topics # {} \/ \E c \in configs : c.mode = "all"
  /\ \/ Winners(topics) = {category} /\ topics # {}
     \/ \E c \in configs : category = Default(c)

Admitted == Found # {} \/ \E c \in used : c.mode = "all"

(* From the gate on the article is admitted, from the enricher on it has a *)
(* category for a reason; the current config is one of those there were.   *)
FilingIInv ==
  /\ extras = [category |-> extras.category, topics |-> extras.topics, score |-> extras.score]
  /\ step # "idle" => config \in used
  /\ step \in {"enrich", "score", "chunk", "chunks"} => Admitted
  /\ step \in {"score", "chunk", "chunks"} =>
       extras.topics = Found /\ Reason(extras.category, Found, used)
  /\ items = [a \in Article |-> items[a]]
  /\ FiledForAReason

(* A category that alone has the most keywords is the only winner.         *)
LEMMA OneWinner ==
  ASSUME NEW found, Cardinality(Winners(found)) = 1
  PROVE  Winners(found) = {CHOOSE c \in Winners(found) : TRUE}
<1> DEFINE W == Winners(found)
<1>1. IsFiniteSet(W)
  <2>1. W \subseteq Category
    BY DEF Winners
  <2> HIDE DEF W
  <2> QED
    BY <2>1, RulesAssumption, FS_Subset
<1>2. PICK x : W = {x}
  <2> HIDE DEF W
  <2>1. Cardinality(W) = 1
    BY DEF W
  <2> QED
    BY <1>1, <2>1, FS_Singleton
<1> QED
  BY <1>2

(* The enricher's choice has a reason in the config it reads.              *)
LEMMA ResolveHasReason ==
  ASSUME Admitted, config \in used
  PROVE  Reason(Resolve, Found, used)
<1>1. CASE Mode = "filtered" /\ Found # {} /\ Cardinality(Winners(Found)) = 1
  BY <1>1, OneWinner DEF Resolve, Reason, Admitted
<1>2. CASE ~(Mode = "filtered" /\ Found # {} /\ Cardinality(Winners(Found)) = 1)
  BY <1>2 DEF Resolve, Reason, Admitted
<1> QED
  BY <1>1, <1>2

LEMMA NextFiling == FilingIInv /\ [Next]_vars => FilingIInv'
<1> SUFFICES ASSUME FilingIInv, [Next]_vars PROVE FilingIInv'
  OBVIOUS
<1> USE DEF FilingIInv
<1>1. ASSUME UNCHANGED <<config, step, art, extras, used, items>> PROVE FilingIInv'
  BY <1>1 DEF Admitted, Found, Reason, FiledForAReason
<1>2. CASE UNCHANGED vars
  BY <1>1, <1>2 DEF vars, library, source, process
<1>3. CASE Tick
  BY <1>1, <1>3 DEF Tick, source, process
<1>4. CASE EditSource
  <2>1. UNCHANGED <<step, art, extras, items>>
    BY <1>4 DEF EditSource
  <2>2. step # "idle" => used \subseteq used' /\ config' \in used'
    BY <1>4 DEF EditSource
  <2> QED
    BY <2>1, <2>2 DEF Admitted, Found, Reason, FiledForAReason
<1>5. ASSUME NEW a \in Article, Begin(a) PROVE FilingIInv'
  BY <1>5 DEF Begin, source, NoExtras, FiledForAReason
<1>6. ASSUME NEW outcome, Ends(outcome), UNCHANGED items PROVE FilingIInv'
  BY <1>6 DEF Ends, NoExtras, FiledForAReason
<1>7. CASE Fail
  BY <1>6, <1>7 DEF Fail
<1>8. CASE Normalize
  <2>1. CASE Drop
    BY <1>6, <2>1 DEF Drop
  <2>2. CASE ~Drop
    BY <1>8, <2>2 DEF Normalize, To, source, FiledForAReason
  <2> QED
    BY <2>1, <2>2
<1>9. CASE Gate
  <2>1. CASE Mode = "all" \/ Found # {}
    <3>1. Admitted
      BY <2>1, <1>9 DEF Gate, Mode, Admitted
    <3> QED
      BY <3>1, <2>1, <1>9 DEF Gate, To, source, Admitted, Found, FiledForAReason
  <2>2. CASE ~(Mode = "all" \/ Found # {})
    BY <2>2, <1>6, <1>9 DEF Gate, Drop
  <2> QED
    BY <2>1, <2>2
<1>10. CASE Enrich
  <2>1. Reason(Resolve, Found, used)
    BY <1>10, ResolveHasReason DEF Enrich
  <2>2. /\ extras'.category = Resolve /\ extras'.topics = Found
        /\ extras' = [category |-> extras'.category, topics |-> extras'.topics,
                      score |-> extras'.score]
    BY <1>10 DEF Enrich
  <2>3. step' = "score" /\ UNCHANGED <<config, art, used, items>> /\ Admitted
    BY <1>10 DEF Enrich, To, source
  <2>4. Found' = Found /\ used' = used /\ Admitted'
    BY <2>3 DEF Admitted, Found
  <2>5. FiledForAReason'
    BY <2>3 DEF FiledForAReason
  <2>6. Reason(extras'.category, Found', used')
    BY <2>1, <2>2, <2>4
  <2>7. items' = [a \in Article |-> items'[a]] /\ config' \in used'
    BY <2>3, <1>10 DEF Enrich
  <2> QED
    BY <2>2, <2>3, <2>4, <2>5, <2>6, <2>7
<1>11. CASE Score
  <2>1. /\ extras'.category = extras.category /\ extras'.topics = extras.topics
        /\ extras' = [category |-> extras'.category, topics |-> extras'.topics,
                      score |-> extras'.score]
    BY <1>11 DEF Score
  <2>2. step' = "chunk" /\ UNCHANGED <<config, art, used, items>> /\ step = "score"
    BY <1>11 DEF Score, To, source
  <2> QED
    BY <2>1, <2>2 DEF Admitted, Found, Reason, FiledForAReason
<1>12. CASE StartChunks
  BY <1>12 DEF StartChunks, To, source, Admitted, Found, Reason, FiledForAReason
<1>13. CASE CutChunk
  BY <1>1, <1>13 DEF CutChunk, library, source, process
<1>14. CASE Store
  <2>1. CASE chunks = <<>>
    BY <2>1, <1>6, <1>14 DEF Store, Drop
  <2>2. CASE chunks # <<>>
    <3>1. PICK item :
            /\ item.topics = Found /\ item.category = extras.category /\ item.configs = used
            /\ items' = [items EXCEPT ![art] = item]
      BY <2>2, <1>14 DEF Store
    <3>2. Reason(item.category, item.topics, item.configs)
      BY <3>1, <1>14 DEF Store
    <3>3. \A a \in Article : items'[a] = items[a] \/ items'[a] = item
      BY <3>1
    <3>4. FiledForAReason'
      BY <3>2, <3>3 DEF FiledForAReason, Reason
    <3>5. step' = "idle" /\ extras' = NoExtras
      BY <2>2, <1>14 DEF Store, Ends
    <3>6. items' = [a \in Article |-> items'[a]]
      BY <3>1
    <3> QED
      BY <3>4, <3>5, <3>6 DEF NoExtras
  <2> QED
    BY <2>1, <2>2
<1>15. ASSUME NEW k \in Kind, NEW p \in Period, Generate(k, p) PROVE FilingIInv'
  BY <1>1, <1>15 DEF Generate, source, process
<1>16. ASSUME NEW q \in Question, NEW t \in Thresholds, Ask(q, t) PROVE FilingIInv'
  BY <1>1, <1>16 DEF Ask, source, process
<1> QED
  BY <1>2, <1>3, <1>4, <1>5, <1>7, <1>8, <1>9, <1>10, <1>11, <1>12, <1>13, <1>14, <1>15, <1>16
  DEF Next, Process

(* Gate and enricher read the source's config twice; an item nevertheless  *)
(* is admitted and filed for a reason the source gave (gate_processor,     *)
(* enricher), whatever is edited in between.                               *)
THEOREM FiledWithReason == Spec => []FiledForAReason
<1>1. LibraryInit => FilingIInv
  BY DEF LibraryInit, FilingIInv, NoExtras, FiledForAReason
<1>2. FilingIInv => FiledForAReason
  BY DEF FilingIInv
<1> QED
  BY <1>1, <1>2, NextFiling, PTL DEF Spec

-----------------------------------------------------------------------------
(* The readers.                                                            *)

(* As many tokens as a context has room for, if all of its chunks are so.  *)
Fits(n) == n \in Nat /\ Top * n <= ContextTokens

Readable(item) ==
  /\ item.score \in Nat /\ item.processed \in 0..MaxClock
  /\ item.chunks \in Seq(Chunk)
  /\ \A i \in 1..Len(item.chunks) : Fits(item.chunks[i].to - item.chunks[i].from)

ItemsReadable == \A a \in Article : items[a] # None => Readable(items[a])

ReadersIInv ==
  /\ clock \in 0..MaxClock /\ began \in 0..MaxClock /\ extras.score \in Nat
  /\ step = "chunks" => Fits(window)
  /\ items = [a \in Article |-> items[a]]
  /\ ItemsReadable
  /\ NothingIsCut

LibraryIInv == ChunkerIInv /\ WorksOnArticle /\ FilingIInv /\ ReadersIInv

(* The occurrences of finitely many things can be counted.                 *)
LEMMA TallyIsNat ==
  ASSUME NEW S, IsFiniteSet(S), NEW n, \A x \in S : n[x] \in Nat
  PROVE  Tally(S, n) \in Nat
<1> DEFINE Of(x) == {x} \X (1..n[x])
           All == {Of(x) : x \in S}
           f == [x \in S |-> Of(x)]
<1>1. f \in Surjection(S, All)
  BY DEF Surjection
<1>2. IsFiniteSet(All)
  <2> HIDE DEF f, All
  <2> QED
    BY <1>1, FS_Surjection
<1>3. ASSUME NEW x \in S PROVE IsFiniteSet(Of(x))
  <2>1. IsFiniteSet(1..n[x])
    BY FS_Interval
  <2>2. IsFiniteSet({x})
    BY FS_Singleton
  <2> QED
    BY <2>1, <2>2, FS_Product
<1>4. IsFiniteSet(UNION All)
  <2>1. \A T \in All : IsFiniteSet(T)
    BY <1>3
  <2> HIDE DEF All
  <2> QED
    BY <1>2, <2>1, FS_UNION
<1> QED
  BY <1>4, FS_CardinalityType DEF Tally

(* At most m things with at most q occurrences each: at most m * q.        *)
LEMMA TallyBound ==
  ASSUME NEW S, IsFiniteSet(S), NEW m \in Nat, Cardinality(S) <= m, NEW q \in Nat,
         NEW n, \A x \in S : n[x] \in Nat /\ n[x] <= q
  PROVE  Tally(S, n) \in Nat /\ Tally(S, n) <= m * q
<1> DEFINE All == UNION {{x} \X (1..n[x]) : x \in S}
           Grid == (1..m) \X (1..q)
<1>1. PICK g : g \in Bijection(1..Cardinality(S), S)
  BY FS_CardinalityType DEF ExistsBijection
<1>2. Cardinality(S) \in Nat
  BY FS_CardinalityType
<1>3. \A x \in S : \E i \in 1..m : g[i] = x
  BY <1>1, <1>2 DEF Bijection, Surjection
<1> DEFINE Place(x) == CHOOSE i \in 1..m : g[i] = x
           h == [e \in All |-> <<Place(e[1]), e[2]>>]
<1>4. \A x \in S : Place(x) \in 1..m /\ g[Place(x)] = x
  BY <1>3
<1> HIDE DEF Place
<1>5. ASSUME NEW e \in All
      PROVE  e[1] \in S /\ e[2] \in 1..q /\ e = <<e[1], e[2]>> /\ h[e] = <<Place(e[1]), e[2]>>
  OBVIOUS
<1>6. h \in [All -> Grid]
  BY <1>4, <1>5
<1>7. ASSUME NEW d \in All, NEW e \in All, h[d] = h[e] PROVE d = e
  <2>1. Place(d[1]) = Place(e[1]) /\ d[2] = e[2]
    BY <1>5, <1>7
  <2>2. d[1] = e[1]
    BY <1>4, <1>5, <2>1
  <2> QED
    BY <1>5, <2>1, <2>2
<1>8. h \in Injection(All, Grid)
  <2> HIDE DEF h, All, Grid
  <2> QED
    BY <1>6, <1>7 DEF Injection, IsInjective
<1>9. IsFiniteSet(Grid) /\ Cardinality(Grid) = m * q
  <2>1. /\ IsFiniteSet(1..m) /\ Cardinality(1..m) = m
        /\ IsFiniteSet(1..q) /\ Cardinality(1..q) = q
    BY FS_Interval
  <2>2. IsFiniteSet(Grid) /\ Cardinality(Grid) = Cardinality(1..m) * Cardinality(1..q)
    BY <2>1, FS_Product
  <2> HIDE DEF Grid
  <2> QED
    BY <2>1, <2>2
<1>10. IsFiniteSet(All) /\ Cardinality(All) <= Cardinality(Grid)
  <2> HIDE DEF h, All, Grid
  <2> QED
    BY <1>8, <1>9, FS_Injection
<1>11. Cardinality(All) \in Nat
  <2> HIDE DEF h, All, Grid
  <2> QED
    BY <1>10, FS_CardinalityType
<1> QED
  BY <1>9, <1>10, <1>11 DEF Tally

(* What fits in a context Top times is within its share of the tokens.     *)
LEMMA Share ==
  /\ ContextTokens \div Top \in Nat /\ Top * (ContextTokens \div Top) <= ContextTokens
  /\ \A n : Fits(n) => n <= ContextTokens \div Top
<1> DEFINE q == ContextTokens \div Top
<1>1. /\ Top \in Nat /\ Top > 0 /\ ContextTokens \in Nat
  BY LimitAssumption
<1>2. q \in Nat /\ Top * q <= ContextTokens /\ ContextTokens < Top * q + Top
  BY <1>1
<1>3. ASSUME NEW n \in Nat, Top * n <= ContextTokens PROVE n <= q
  <2> HIDE DEF q
  <2>1. SUFFICES ASSUME n > q PROVE FALSE
    BY <1>2
  <2>2. PICK k \in Nat : n = (q + 1) + k
    <3>1. n - (q + 1) \in Nat /\ n = (q + 1) + (n - (q + 1))
      BY <1>2, <2>1
    <3> QED
      BY <3>1
  <2>3. Top * n = (Top * q + Top) + Top * k /\ Top * k \in Nat
    BY <1>1, <1>2, <2>2
  <2>4. Top * q \in Nat
    BY <1>1, <1>2
  <2> QED
    BY <1>1, <1>2, <1>3, <2>3, <2>4
<1> QED
  BY <1>2, <1>3 DEF Fits

(* The chunks there are can be counted, and each fits.                     *)
LEMMA ChunksFit ==
  ASSUME ItemsReadable
  PROVE  IsFiniteSet(Chunks) /\ \A c \in Chunks : Fits(Tokens(c))
<1> DEFINE stored == {b \in Article : items[b] # None}
           Of(a) == {<<a, i>> : i \in 1..Len(items[a].chunks)}
           All == {Of(a) : a \in stored}
           f == [a \in stored |-> Of(a)]
<1>1. \A a \in stored : Readable(items[a])
  BY DEF ItemsReadable
<1>2. IsFiniteSet(stored)
  BY TextAssumption, FS_Subset
<1>3. f \in Surjection(stored, All)
  BY DEF Surjection
<1>4. IsFiniteSet(All)
  <2> HIDE DEF f, All, stored
  <2> QED
    BY <1>2, <1>3, FS_Surjection
<1>5. ASSUME NEW a \in stored PROVE IsFiniteSet(Of(a))
  <2> DEFINE n == Len(items[a].chunks)
             g == [i \in 1..n |-> <<a, i>>]
  <2>1. n \in Nat
    BY <1>1 DEF Readable
  <2>2. IsFiniteSet(1..n)
    BY <2>1, FS_Interval
  <2>3. g \in Surjection(1..n, Of(a))
    BY DEF Surjection
  <2> HIDE DEF g, n, Of
  <2> QED
    BY <2>2, <2>3, FS_Surjection
<1>6. IsFiniteSet(UNION All)
  <2>1. \A T \in All : IsFiniteSet(T)
    BY <1>5
  <2> HIDE DEF All
  <2> QED
    BY <1>4, <2>1, FS_UNION
<1>7. Chunks = UNION All
  BY DEF Chunks
<1>8. ASSUME NEW c \in Chunks PROVE Fits(Tokens(c))
  <2>1. PICK a \in stored : c \in Of(a)
    BY DEF Chunks
  <2>2. PICK i \in 1..Len(items[a].chunks) : c = <<a, i>>
    BY <2>1
  <2> QED
    BY <1>1, <2>2 DEF Tokens, Readable
<1> QED
  BY <1>6, <1>7, <1>8

(* Of the chunks that were ranked none is taken away.                      *)
LEMMA AllFit ==
  ASSUME ItemsReadable, NEW q \in Question, NEW t \in Thresholds, Ask(q, t)
  PROVE  NothingIsCut'
<1> DEFINE similar == [c \in Chunks |-> Similar(q, c[1], c[2])]
           hybrid == [c \in Chunks |-> similar[c] * items[c[1]].score]
           above == {c \in Chunks : similar[c] > t}
<1>1. PICK near \in Best(above, Candidates, similar) :
        \E found \in Best(near, Top, hybrid) :
          \E fitting \in Fitting(found, hybrid) :
            context' = [found |-> found, used |-> fitting]
  BY DEF Ask
<1>2. near \subseteq Chunks
  BY DEF Best, kSubset
<1> HIDE DEF similar, hybrid, above
<1>a. PICK found \in Best(near, Top, hybrid) :
        \E fitting \in Fitting(found, hybrid) : context' = [found |-> found, used |-> fitting]
  BY <1>1
<1>3. PICK fitting \in Fitting(found, hybrid) : context' = [found |-> found, used |-> fitting]
  BY <1>a
<1>4. IsFiniteSet(near)
  BY <1>2, ChunksFit, FS_Subset
<1>5. /\ found \subseteq near
      /\ Cardinality(found) = IF Top < Cardinality(near) THEN Top ELSE Cardinality(near)
  BY DEF Best, kSubset
<1>6. Top \in Nat /\ ContextTokens \in Nat /\ Cardinality(near) \in Nat
  BY <1>4, LimitAssumption, FS_CardinalityType
<1>7. IsFiniteSet(found) /\ Cardinality(found) <= Top
  BY <1>4, <1>5, <1>6, FS_Subset
<1>8. ASSUME NEW C \in SUBSET found PROVE Total(C) \in Nat /\ Total(C) <= ContextTokens
  <2> DEFINE n == [c \in C |-> Tokens(c)]
             s == ContextTokens \div Top
  <2>1. IsFiniteSet(C) /\ Cardinality(C) <= Top
    BY <1>6, <1>7, FS_Subset, FS_CardinalityType
  <2>2. \A c \in C : n[c] \in Nat /\ n[c] <= s
    BY <1>2, <1>5, ChunksFit, Share DEF Fits
  <2>3. s \in Nat /\ Top * s <= ContextTokens /\ Top * s \in Nat
    BY <1>6, Share
  <2> HIDE DEF n, s
  <2>4. Tally(C, n) \in Nat /\ Tally(C, n) <= Top * s
    BY <1>6, <2>1, <2>2, <2>3, TallyBound
  <2> QED
    BY <1>6, <2>3, <2>4 DEF Total, n
<1>9. fitting = found
  <2> SUFFICES ASSUME NEW y \in found \ fitting, Total(fitting \cup {y}) > ContextTokens
               PROVE  FALSE
    BY DEF Fitting
  <2>1. fitting \cup {y} \in SUBSET found
    BY DEF Fitting
  <2> QED
    BY <1>6, <1>8, <2>1
<1> QED
  BY <1>3, <1>9 DEF NothingIsCut

LEMMA LessFits ==
  ASSUME NEW m, Fits(m), NEW n \in Nat, n <= m
  PROVE  Fits(n)
<1>1. m \in Nat /\ Top \in Nat /\ Top * m <= ContextTokens /\ ContextTokens \in Nat
  BY LimitAssumption DEF Fits
<1>2. PICK k \in Nat : m = n + k
  <2>1. m - n \in Nat /\ m = n + (m - n)
    BY <1>1
  <2> QED
    BY <2>1
<1>3. Top * m = Top * n + Top * k /\ Top * k \in Nat /\ Top * n \in Nat
  BY <1>1, <1>2
<1> QED
  BY <1>1, <1>3 DEF Fits

(* A score is a number: hits are counted, freshness is one of three.       *)
LEMMA ScoreIsNat ==
  ASSUME FilingIInv, WorksOnArticle, Score
  PROVE  extras'.score \in Nat
<1>1. art \in Article /\ extras.topics = Found
  BY DEF Score, FilingIInv, WorksOnArticle
<1>2. /\ IsFiniteSet(Found) /\ Text[art].hits \in [Found -> Nat]
      /\ Cardinality(Found) \in Nat /\ Cardinality(Keyword) \in Nat
  BY <1>1, TextAssumption, RulesAssumption, FS_Subset, FS_CardinalityType DEF Found
<1>3. Tally(Found, Text[art].hits) \in Nat
  BY <1>2, TallyIsNat
<1>4. Intensity(Found, Text[art].hits) \in Nat
  BY <1>2, <1>3 DEF Intensity
<1>5. Freshness(Text[art].published) \in {2, 5, 10}
  BY DEF Freshness
<1> DEFINE i == Intensity(Found, Text[art].hits)
           f == Freshness(Text[art].published)
           s == 5 * i + Cardinality(Keyword) * f
<1>6. s \in Nat
  <2> HIDE DEF i, f
  <2>1. f \in Nat /\ i \in Nat
    BY <1>4, <1>5 DEF i, f
  <2>2. Cardinality(Keyword) * f \in Nat
    BY <1>2, <2>1
  <2> QED
    BY <2>1, <2>2
<1>7. extras' = [extras EXCEPT !.score = s]
  BY <1>1 DEF Score
<1>8. extras = [category |-> extras.category, topics |-> extras.topics, score |-> extras.score]
  BY DEF FilingIInv
<1> HIDE DEF s
<1>9. extras'.score = s
  BY <1>7, <1>8
<1> QED
  BY <1>6, <1>9

LEMMA NextReaders == LibraryIInv /\ [Next]_vars => ReadersIInv'
<1> SUFFICES ASSUME LibraryIInv, [Next]_vars PROVE ReadersIInv'
  OBVIOUS
<1>0. ReadersIInv
  BY DEF LibraryIInv
<1>1. ASSUME UNCHANGED <<began, items>>, clock' \in 0..MaxClock, extras'.score \in Nat,
             step' = "chunks" => Fits(window'), context' = context \/ context' = None
      PROVE  ReadersIInv'
  BY <1>0, <1>1 DEF ReadersIInv, ItemsReadable, Readable, NothingIsCut
<1>2. ASSUME UNCHANGED <<clock, extras, began, items>>, step' = "chunks" => Fits(window'),
             context' = context \/ context' = None
      PROVE  ReadersIInv'
  BY <1>0, <1>1, <1>2 DEF ReadersIInv
<1>3. ASSUME UNCHANGED <<clock, extras, began, items, step, window>>,
             context' = context \/ context' = None
      PROVE  ReadersIInv'
  BY <1>0, <1>2, <1>3 DEF ReadersIInv
<1>4. CASE UNCHANGED vars
  BY <1>3, <1>4 DEF vars, library, process, chunker
<1>5. CASE Tick
  <2>1. clock' \in 0..MaxClock
    BY <1>0, <1>5, ClockAssumption DEF Tick, ReadersIInv
  <2> QED
    BY <1>0, <1>1, <1>5, <2>1 DEF Tick, process, chunker, ReadersIInv
<1>6. CASE EditSource
  BY <1>3, <1>6 DEF EditSource, chunker
<1>7. ASSUME NEW a \in Article, Begin(a) PROVE ReadersIInv'
  BY <1>0, <1>7 DEF Begin, NoExtras, ReadersIInv, ItemsReadable, Readable, NothingIsCut
<1>8. ASSUME NEW outcome, Ends(outcome), UNCHANGED <<clock, context>>, ItemsReadable',
             items' = [a \in Article |-> items'[a]]
      PROVE  ReadersIInv'
  BY <1>0, <1>8, ClockAssumption DEF Ends, NoExtras, ReadersIInv, NothingIsCut
<1>9. ASSUME NEW outcome, Ends(outcome), UNCHANGED <<clock, context, items>>
      PROVE  ReadersIInv'
  BY <1>0, <1>8, <1>9 DEF ReadersIInv, ItemsReadable, Readable
<1>10. CASE Fail
  BY <1>9, <1>10 DEF Fail
<1>11. CASE Normalize
  <2>1. CASE Drop
    BY <1>9, <2>1 DEF Drop
  <2>2. CASE ~Drop
    BY <1>2, <1>11, <2>2 DEF Normalize, To
  <2> QED
    BY <2>1, <2>2
<1>12. CASE Gate
  <2>1. CASE Drop
    BY <1>9, <2>1 DEF Drop
  <2>2. CASE ~Drop
    BY <1>2, <1>12, <2>2 DEF Gate, To
  <2> QED
    BY <2>1, <2>2
<1>13. CASE Enrich
  <2>1. extras = [category |-> extras.category, topics |-> extras.topics, score |-> extras.score]
    BY DEF LibraryIInv, FilingIInv
  <2>2. extras'.score = extras.score
    BY <1>13, <2>1 DEF Enrich
  <2> QED
    BY <1>0, <1>1, <1>13, <2>2 DEF Enrich, To, ReadersIInv
<1>14. CASE Score
  <2>1. extras'.score \in Nat
    BY <1>14, ScoreIsNat DEF LibraryIInv
  <2> QED
    BY <1>0, <1>1, <1>14, <2>1 DEF Score, To, ReadersIInv
<1>15. CASE StartChunks
  <2>1. PICK w \in Cutting : Split(Text[art].tokens, w[1], w[2])
    BY <1>15 DEF StartChunks
  <2>2. Fits(window')
    BY <2>1, CuttingAssumption, LimitAssumption DEF Split, Fits
  <2> QED
    BY <1>2, <1>15, <2>2 DEF StartChunks, To
<1>16. CASE CutChunk
  BY <1>3, <1>16 DEF CutChunk, Cut, library, process
<1>17. CASE Store
  <2>1. CASE Drop
    BY <1>9, <2>1 DEF Drop
  <2>2. CASE ~Drop
    <3>1. PICK item :
            /\ item.score = extras.score /\ item.processed = began /\ item.chunks = chunks
            /\ items' = [items EXCEPT ![art] = item]
      BY <1>17, <2>2 DEF Store
    <3>2. /\ step = "chunks" /\ Ends("processed") /\ UNCHANGED <<clock, context>>
      BY <1>17, <2>2 DEF Store
    <3>3. /\ chunks \in Seq(Chunk) /\ window \in Nat /\ Fits(window)
          /\ \A i \in 1..Len(chunks) :
               chunks[i].from < chunks[i].to /\ chunks[i].to - chunks[i].from <= window
      BY <1>0, <3>2 DEF LibraryIInv, ChunkerIInv, ChunkerTypeOK, Tiles, ReadersIInv
    <3>4. ASSUME NEW i \in 1..Len(chunks) PROVE Fits(chunks[i].to - chunks[i].from)
      <4>1. chunks[i] \in Chunk
        BY <3>3
      <4>2. chunks[i].to - chunks[i].from \in Nat
        BY <3>3, <4>1 DEF Chunk
      <4> QED
        BY <3>3, <4>2, LessFits
    <3>5. Readable(item)
      BY <1>0, <3>1, <3>3, <3>4 DEF Readable, ReadersIInv
    <3>6. \A a \in Article : items'[a] = items[a] \/ items'[a] = item
      BY <1>0, <3>1 DEF ReadersIInv
    <3>7. ItemsReadable'
      BY <1>0, <3>5, <3>6 DEF ItemsReadable, ReadersIInv, Readable
    <3>8. items' = [a \in Article |-> items'[a]]
      BY <1>0, <3>1 DEF ReadersIInv
    <3> QED
      BY <1>8, <3>2, <3>7, <3>8
  <2> QED
    BY <2>1, <2>2
<1>18. ASSUME NEW k \in Kind, NEW p \in Period, Generate(k, p) PROVE ReadersIInv'
  BY <1>3, <1>18 DEF Generate, process, chunker
<1>19. ASSUME NEW q \in Question, NEW t \in Thresholds, Ask(q, t) PROVE ReadersIInv'
  <2>1. NothingIsCut'
    BY <1>0, <1>19, AllFit DEF ReadersIInv
  <2>2. UNCHANGED <<clock, extras, began, items, step, window>>
    BY <1>19 DEF Ask, process, chunker
  <2> QED
    BY <1>0, <2>1, <2>2 DEF ReadersIInv, ItemsReadable, Readable
<1> QED
  BY <1>4, <1>5, <1>6, <1>7, <1>10, <1>11, <1>12, <1>13, <1>14, <1>15, <1>16, <1>17, <1>18, <1>19
  DEF Next, Process

LEMMA LibraryInductive == Spec => []LibraryIInv
<1>1. LibraryInit => LibraryIInv
  <2> SUFFICES ASSUME LibraryInit PROVE LibraryIInv
    OBVIOUS
  <2>1. ChunkerIInv /\ WorksOnArticle
    BY DEF LibraryInit, ChunkerInit, ChunkerIInv, ChunkerTypeOK, BetweenRounds, Tiles, WorksOnArticle
  <2>2. FilingIInv
    BY DEF LibraryInit, FilingIInv, NoExtras, FiledForAReason
  <2>3. ReadersIInv
    BY ClockAssumption DEF LibraryInit, ReadersIInv, NoExtras, ItemsReadable, NothingIsCut
  <2> QED
    BY <2>1, <2>2, <2>3 DEF LibraryIInv
<1>2. LibraryIInv /\ [Next]_vars => LibraryIInv'
  BY NextTiles, NextFiling, NextReaders DEF LibraryIInv
<1> QED
  BY <1>1, <1>2, PTL DEF Spec

(* No chunk that the search ranked is taken away from a context            *)
(* (context_builder.select_chunks): however many windows the articles were *)
(* cut with, Top chunks never exceed the tokens of a context.              *)
THEOREM ContextHoldsAll == Spec => []NothingIsCut
<1>1. LibraryIInv => NothingIsCut
  BY DEF LibraryIInv, ReadersIInv
<1> QED
  BY <1>1, LibraryInductive, PTL

(* Of two rows the one with the higher score ranks before the other,       *)
(* whenever they were processed.                                           *)
LEMMA ScoreRanks ==
  ASSUME ReadersIInv, NEW a \in Article, NEW b \in Article, items[a] # None, items[b] # None,
         items[b].score > items[a].score
  PROVE  ~(Rank(a) >= Rank(b))
<1> DEFINE s == items[a].score
           t == items[b].score
           x == items[a].processed
           y == items[b].processed
           m == MaxClock + 1
<1>1. s \in Nat /\ t \in Nat /\ x \in Nat /\ y \in Nat /\ x < m /\ m \in Nat /\ t > s
  BY ClockAssumption DEF ReadersIInv, ItemsReadable, Readable
<1> HIDE DEF s, t, x, y, m
<1>2. PICK k \in Nat : t = (s + 1) + k
  <2>1. t - (s + 1) \in Nat /\ t = (s + 1) + (t - (s + 1))
    BY <1>1
  <2> QED
    BY <2>1
<1>3. t * m = (s * m + m) + k * m /\ k * m \in Nat /\ s * m \in Nat
  BY <1>1, <1>2
<1>4. ~(s * m + x >= t * m + y)
  BY <1>1, <1>3
<1> QED
  BY <1>4 DEF Rank, s, t, x, y, m

(* A digest leaves out no article of its kind and period that scores       *)
(* higher than one it has (list_for_digest): the limit takes the best.     *)
THEOREM DigestTakesBest == Spec => BestOfPeriod
<1> DEFINE Taken ==
      digest' # None /\ digest' # digest =>
        \A a \in digest'.articles, b \in Rows(digest'.kind, digest'.period) :
          OnTopic(digest'.kind, b) /\ items[b].score > items[a].score => b \in digest'.articles
<1>1. ASSUME LibraryIInv, NEW k \in Kind, NEW p \in Period, Generate(k, p) PROVE Taken
  <2>1. PICK rows \in Best(Rows(k, p), Limit, [a \in Rows(k, p) |-> Rank(a)]) :
          digest' = [kind |-> k, period |-> p, articles |-> {a \in rows : OnTopic(k, a)}]
    BY <1>1 DEF Generate
  <2>2. /\ rows \subseteq Rows(k, p)
        /\ \A a \in rows, b \in Rows(k, p) \ rows : Rank(a) >= Rank(b)
    BY DEF Best, kSubset
  <2>3. digest'.kind = k /\ digest'.period = p /\ digest'.articles = {a \in rows : OnTopic(k, a)}
    BY <2>1
  <2>4. ASSUME NEW a \in rows, NEW b \in Rows(k, p), items[b].score > items[a].score
        PROVE  b \in rows
    <3>1. a \in Article /\ b \in Article /\ items[a] # None /\ items[b] # None
      BY <2>2 DEF Rows
    <3> QED
      BY <1>1, <2>2, <2>4, <3>1, ScoreRanks DEF LibraryIInv
  <2> QED
    BY <2>3, <2>4
<1>2. ASSUME [Next]_vars, ~\E k \in Kind, p \in Period : Generate(k, p)
      PROVE  digest' = digest \/ digest' = None
  BY <1>2 DEF Next, vars, library, Tick, EditSource, Begin, Process, Normalize, Gate, Enrich, Score,
     StartChunks, CutChunk, Store, Drop, Fail, Ask
<1>3. LibraryIInv /\ [Next]_vars => Taken
  BY <1>1, <1>2
<1>4. LibraryIInv /\ [Next]_vars => [Taken]_vars
  BY <1>3
<1> QED
  BY <1>4, LibraryInductive, PTL DEF Spec, BestOfPeriod
=============================================================================
