-------------------------------- MODULE Chat ---------------------------------
(***************************************************************************)
(* Who uses the LLM and what is booked for it: LLMClient with its round    *)
(* robin over the active API keys, the usage log of every answer, and the  *)
(* two kinds of transaction that ask: a question to the chatbot            *)
(* (RAGPipeline, ChatbotService) and the sections of a digest              *)
(* (DigestGenerator._generate_sections).  The keys are those of            *)
(* Configuration, whose requests run next to these.                        *)
(*                                                                         *)
(* Abstractions.  Retrieval finds something, nothing or fails (Library     *)
(* models the search itself); prompts and answers are left out; of the     *)
(* order by priority and age the rank of a key is kept.                    *)
(***************************************************************************)
EXTENDS Configuration, SequencesExt

CONSTANTS
  Question,     \* requests to the chatbot
  Generation,   \* digest generations
  Rank,         \* key -> its place in the order of priority and age
  Sections      \* templates of a digest

Work == Question \cup Generation

ASSUME WorkAssumption == Question \cap Generation = {} /\ Work \cap Edit = {}
ASSUME RankAssumption ==
  Rank \in [Key -> Nat] /\ \A k, l \in Key : Rank[k] = Rank[l] => k = l
ASSUME SectionsAssumption == Sections \in Nat \ {0}

VARIABLES
  stage,      \* transaction -> what it does next
  providers,  \* transaction -> the keys of its client, in order
  index,      \* transaction -> the client's _current_index, counted from 0
  attempt,    \* transaction -> attempts of the completion that runs
  refused,    \* transaction -> keys that have refused in it
  answers,    \* transaction -> the keys that answered, in order
  logged,     \* transaction -> how many usage rows it has flushed
  usage,      \* committed usage rows, as <<transaction, number, key>>
  history     \* question -> committed answer: a key, "empty", or "none"

client == <<providers, index, attempt, refused, answers>>
work == <<stage, client, logged, usage, history>>

InitWork ==
  /\ stage = [w \in Work |-> "idle"]
  /\ providers = [w \in Work |-> <<>>]
  /\ index = [w \in Work |-> 0]
  /\ attempt = [w \in Work |-> 0]
  /\ refused = [w \in Work |-> {}]
  /\ answers = [w \in Work |-> <<>>]
  /\ logged = [w \in Work |-> 0]
  /\ usage = {}
  /\ history = [w \in Question |-> "none"]

Working(w) == stage[w] \notin {"idle", "done", "failed"}
To(w, s) == stage' = [stage EXCEPT ![w] = s]

(* Keys a row of an open session refers to: they cannot be deleted.        *)
Referred == {k \in Key : \E w \in Work : Working(w) /\ \E i \in 1..logged[w] : answers[w][i] = k}

-----------------------------------------------------------------------------
(* The client: list_active_decrypted, once per request or generation.      *)

(* The key at place i is the active one that i - 1 active keys precede.    *)
ActiveKeys ==
  LET active == {k \in Key : rows[k] # None /\ rows[k].active}
      Before(k) == {l \in active : Rank[l] < Rank[k]}
  IN [i \in 1..Cardinality(active) |-> CHOOSE k \in active : Cardinality(Before(k)) = i - 1]

Build(w) ==
  /\ stage[w] = "idle"
  /\ providers' = [providers EXCEPT ![w] = ActiveKeys]
  /\ To(w, IF w \in Question THEN "retrieve" ELSE "complete")
  /\ UNCHANGED <<index, attempt, refused, answers, logged, usage, history>>

(* The client ends with the request or the generation.                     *)
End(w, s) ==
  /\ To(w, s)
  /\ providers' = [providers EXCEPT ![w] = <<>>]
  /\ index' = [index EXCEPT ![w] = 0]
  /\ attempt' = [attempt EXCEPT ![w] = 0]
  /\ refused' = [refused EXCEPT ![w] = {}]
  /\ answers' = [answers EXCEPT ![w] = <<>>]
  /\ logged' = [logged EXCEPT ![w] = 0]

(* An exception leaves the handler: the session rolls back.                *)
Fails(w) == End(w, "failed") /\ UNCHANGED <<usage, history>>

(* The embedding service or the search fails.                              *)
RetrievalFails(w) == stage[w] = "retrieve" /\ Fails(w)

(* Chunks are found, or none over the threshold: then no LLM is asked.     *)
Retrieve(w) ==
  /\ stage[w] = "retrieve"
  /\ To(w, "complete") \/ To(w, "history")
  /\ UNCHANGED <<client, logged, usage, history>>

-----------------------------------------------------------------------------
(* LLMClient.complete.                                                     *)

Size(w) == Len(providers[w])

(* active[(self._current_index + attempt) % len(active)]                   *)
Asked(w) == providers[w][((index[w] + attempt[w]) % Size(w)) + 1]

NoProvider(w) == stage[w] = "complete" /\ Size(w) = 0 /\ Fails(w)

Completing(w) == stage[w] = "complete" /\ attempt[w] < Size(w)

(* Mutant of Refuse: the index moves on as well.                           *)
RefuseAndMoveOn(w) ==
  /\ Completing(w)
  /\ attempt' = [attempt EXCEPT ![w] = @ + 1]
  /\ index' = [index EXCEPT ![w] = (@ + 1) % Size(w)]
  /\ refused' = [refused EXCEPT ![w] = @ \cup {Asked(w)}]
  /\ UNCHANGED <<stage, providers, answers, logged, usage, history>>

(* 429, 503, 402 or 403: the next provider.                                *)
Refuse(w) ==
  /\ Completing(w)
  /\ attempt' = [attempt EXCEPT ![w] = @ + 1]
  /\ refused' = [refused EXCEPT ![w] = @ \cup {Asked(w)}]
  /\ UNCHANGED <<stage, providers, index, answers, logged, usage, history>>

AllProvidersFailed(w) ==
  /\ stage[w] = "complete" /\ Size(w) > 0 /\ attempt[w] = Size(w)
  /\ Fails(w)

(* A timeout, another status, a body that cannot be parsed: no fallback.   *)
ProviderBreaks(w) == Completing(w) /\ Fails(w)

(* Mutant of NextIndex: the next completion starts with the key that       *)
(* answered this one.                                                      *)
NextIndexStays(w) == (index[w] + attempt[w]) % Size(w)

NextIndex(w) == (index[w] + attempt[w] + 1) % Size(w)

Answer(w) ==
  /\ Completing(w)
  /\ answers' = [answers EXCEPT ![w] = Append(@, Asked(w))]
  /\ index' = [index EXCEPT ![w] = NextIndex(w)]
  /\ To(w, "log")
  /\ UNCHANGED <<providers, attempt, refused, logged, usage, history>>

(* Mutant of LogUsage: a key that is gone is no reason to fail.            *)
LogUsageIfKeyExists(w) ==
  /\ stage[w] = "log"
  /\ \A e \in Edit : ~(tx[e] # None /\ tx[e].op = "delete" /\ Of(e) = Last(answers[w]))
  /\ logged' = [logged EXCEPT ![w] = IF rows[Last(answers[w])] = None THEN @ ELSE @ + 1]
  /\ attempt' = [attempt EXCEPT ![w] = 0]
  /\ refused' = [refused EXCEPT ![w] = {}]
  /\ To(w, IF w \in Question THEN "history"
           ELSE IF Len(answers[w]) < Sections THEN "complete" ELSE "commit")
  /\ UNCHANGED <<providers, index, answers, usage, history>>

(* The INSERT waits for a DELETE of the key and fails if there is none.    *)
(* The digest's next section asks the same client again.                   *)
LogUsage(w) ==
  /\ stage[w] = "log"
  /\ \A e \in Edit : ~(tx[e] # None /\ tx[e].op = "delete" /\ Of(e) = Last(answers[w]))
  /\ IF rows[Last(answers[w])] = None
     THEN Fails(w)
     ELSE /\ logged' = [logged EXCEPT ![w] = @ + 1]
          /\ attempt' = [attempt EXCEPT ![w] = 0]
          /\ refused' = [refused EXCEPT ![w] = {}]
          /\ To(w, IF w \in Question THEN "history"
                   ELSE IF Len(answers[w]) < Sections THEN "complete" ELSE "commit")
          /\ UNCHANGED <<providers, index, answers, usage, history>>

(* A section that cannot be parsed fails the generation, paid or not.      *)
ParseFails(w) ==
  /\ w \in Generation /\ stage[w] \in {"complete", "commit"} /\ answers[w] # <<>>
  /\ attempt[w] = 0
  /\ Fails(w)

-----------------------------------------------------------------------------
(* The end: one chat_history row, and the usage rows with it.              *)

WriteHistory(w) ==
  /\ stage[w] = "history"
  /\ To(w, "commit")
  /\ UNCHANGED <<client, logged, usage, history>>

CommitWork(w) ==
  /\ stage[w] = "commit"
  /\ usage' = usage \cup {<<w, i, answers[w][i]>> : i \in 1..logged[w]}
  /\ history' = IF w \in Question
                THEN [history EXCEPT ![w] = IF answers[w] = <<>> THEN "empty" ELSE answers[w][1]]
                ELSE history
  /\ End(w, "done")

Advance(w) ==
  \/ Retrieve(w) \/ RetrievalFails(w)
  \/ NoProvider(w) \/ Refuse(w) \/ AllProvidersFailed(w) \/ ProviderBreaks(w) \/ Answer(w)
  \/ LogUsage(w) \/ ParseFails(w)
  \/ WriteHistory(w) \/ CommitWork(w)

WorkStep ==
  /\ \E w \in Work : Build(w) \/ Advance(w)
  /\ UNCHANGED vars

(* A key that is deleted takes its usage rows with it (ON DELETE CASCADE). *)
EditStep ==
  /\ Next(Referred)
  /\ usage' = {r \in usage : rows'[r[3]] # None}
  /\ UNCHANGED <<stage, client, logged, history>>

ChatInit == Init /\ InitWork
ChatNext == WorkStep \/ EditStep
chatVars == <<vars, work>>
ChatSpec == ChatInit /\ [][ChatNext]_chatVars

-----------------------------------------------------------------------------
(* Properties.                                                             *)

WorkTypeOK ==
  /\ stage \in [Work -> {"idle", "retrieve", "complete", "log", "history", "commit", "done",
                         "failed"}]
  /\ \A w \in Work :
       /\ Size(w) <= Cardinality(Key)
       /\ \A i \in 1..Size(w) : providers[w][i] \in Key
       /\ index[w] \in Nat /\ (index[w] = 0 \/ index[w] < Size(w))
       /\ attempt[w] \in 0..Size(w)
       /\ Len(answers[w]) <= Sections /\ logged[w] \in 0..Len(answers[w])
  /\ refused \in [Work -> SUBSET Key]
  /\ usage \in SUBSET (Work \X (1..Sections) \X Key)
  /\ history \in [Question -> Key \cup {"empty", "none"}]

(* What a transaction commits includes a usage row for every answer it     *)
(* paid for, although the keys it holds may be switched off or deleted by  *)
(* admins while it runs: a row that refers to a key keeps the key until    *)
(* the commit.                                                             *)
CommitsWhatItPaid ==
  [][\A w \in Work : stage[w] = "commit" /\ stage'[w] = "done" =>
       \A i \in 1..Len(answers[w]) : <<w, i, answers[w][i]>> \in usage']_chatVars

(* The round robin: a key answers two completions of a client in a row     *)
(* only if every other key of the client has refused in between.           *)
RotationSpreadsLoad ==
  [][\A w \in Work :
       Len(answers[w]) \in 1..(Len(answers'[w]) - 1) /\ Last(answers'[w]) = Last(answers[w]) =>
         refused[w] = {providers[w][i] : i \in 1..Size(w)} \ {Last(answers[w])}]_chatVars

(* The fallback asks no key twice for one completion and gives up only     *)
(* when every key of the client has refused, wherever the index stood.     *)
EveryKeyAskedOnce ==
  \A w \in Work : stage[w] = "complete" => Cardinality(refused[w]) = attempt[w]

-----------------------------------------------------------------------------
(* What the documents say and the code does not keep.                      *)

(* "Her API cagrisinin token kullanimi api_usage_logs tablosunda saklanir" *)
(* (Docs/04): what was answered is booked.  The row rolls back with the    *)
(* request or generation that fails afterwards.                            *)
EveryAnswerBooked ==
  [][\A w \in Work : Working(w) /\ ~Working(w)' =>
       \A i \in 1..Len(answers[w]) : rows[answers[w][i]] # None =>
         <<w, i, answers[w][i]>> \in usage']_chatVars
=============================================================================
