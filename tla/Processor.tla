----------------------------- MODULE Processor ------------------------------
(***************************************************************************)
(* The processor Lambda of services/processor: SQS hands batches of        *)
(* messages to concurrent invocations at least once; an invocation takes   *)
(* its records one by one, each in a database session of its own, reserves *)
(* the article in Redis (SET NX), runs the chain, persists the result and  *)
(* commits; the messages it does not report as failed are deleted.         *)
(*                                                                         *)
(* Abstractions.  A raw item stands for its (source_id, content_hash), the *)
(* chain after dedup for its verdict (discard, raise, or a routed schema), *)
(* an uncommitted session for the writes it will commit.  Sources are not  *)
(* deleted here, so a row that exists stays.                               *)
(***************************************************************************)
EXTENDS Naturals, FiniteSets

CONSTANTS
  Item,        \* raw items, one for each (source_id, content_hash)
  Schema,      \* the partitions of processed_items (PROCESSED_ITEM_MODELS)
  Message,     \* the SQS messages collectors may publish
  Worker,      \* concurrent Lambda invocations
  ItemOf,      \* the item each message is about
  Unparsable,  \* messages whose body ProcessorInput.from_sqs_body rejects
  BadHash,     \* messages whose content_hash is not the hash of their content
  MaxReceive,  \* max_receive_count of the queue's redrive policy
  BatchSize,   \* most records in one Lambda event
  Recategorises, \* may an admin edit the source's default_category?
  None         \* no value

ASSUME ItemOfType == ItemOf \in [Message -> Item]
ASSUME MessageKinds == Unparsable \subseteq Message /\ BadHash \subseteq Message
ASSUME Bounds == MaxReceive \in Nat \ {0} /\ BatchSize \in Nat \ {0}
ASSUME Switches == Recategorises \in BOOLEAN

VARIABLES
  delivery,    \* where each message is
  received,    \* how often SQS handed the message out
  holder,      \* the invocation with the message's current receipt handle
  row,         \* committed raw_items.status
  items,       \* committed processed_items: <<item, schema>>
  chunks,      \* the processed_items that have committed content_chunks
  reserved,    \* items whose Redis key processor:dedup:... exists
  route,       \* the schema the source's config sends an item to
  lock,        \* the session that holds the raw item's row lock
  pc,          \* what each invocation does next
  todo,        \* records of the event still to be processed
  done,        \* records of the event not reported in batchItemFailures
  cur,         \* the record being processed
  result,      \* its ProcessedResult
  target,      \* the schema the enricher routed it to
  tx,          \* the session's flushed, uncommitted writes
  discarded    \* history: items a processor other than dedup gave up

queueVars == <<delivery, received, holder>>
dbVars == <<row, items, chunks>>
eventVars == <<todo, done, cur>>
vars == <<queueVars, dbVars, reserved, route, lock, pc, eventVars, result,
          target, tx, discarded>>

DeliveryState == {"unsent", "visible", "inflight", "deleted", "dlq"}
RowStatus == {"ABSENT", "PENDING", "PROCESSING", "PROCESSED", "FAILED"}
Stage == {"idle", "next", "mark", "dedup", "steps", "persist", "embed",
          "finish", "commit"}
Outcome == {"stored", "duplicate", "discarded", "failed"}

ASSUME NoneIsNoValue ==
  None \notin Worker \cup Schema \cup Message \cup RowStatus \cup Outcome

Session == [row : {"PROCESSING", "PROCESSED", "FAILED", None},
            item : Schema \cup {None}, chunks : BOOLEAN]

NoWrites == [row |-> None, item |-> None, chunks |-> FALSE]

ItemAt(w) == ItemOf[cur[w]]

Init ==
  /\ delivery = [m \in Message |-> "unsent"]
  /\ received = [m \in Message |-> 0]
  /\ holder = [m \in Message |-> None]
  /\ row \in [Item -> {"ABSENT", "PENDING"}]
  /\ items = {}
  /\ chunks = {}
  /\ reserved = {}
  /\ route \in [Item -> Schema]
  /\ lock = [i \in Item |-> None]
  /\ pc = [w \in Worker |-> "idle"]
  /\ todo = [w \in Worker |-> {}]
  /\ done = [w \in Worker |-> {}]
  /\ cur = [w \in Worker |-> None]
  /\ result = [w \in Worker |-> None]
  /\ target = [w \in Worker |-> None]
  /\ tx = [w \in Worker |-> NoWrites]
  /\ discarded = {}

-----------------------------------------------------------------------------
(* The world around the Lambda.                                            *)

(* A collector publishes an article; several messages may carry the same   *)
(* one, because the collector's dedup set is only filled by ingestion.     *)
Publish(m) ==
  /\ delivery[m] = "unsent"
  /\ delivery' = [delivery EXCEPT ![m] = "visible"]
  /\ UNCHANGED <<received, holder, dbVars, reserved, route, lock, pc,
                 eventVars, result, target, tx, discarded>>

(* The raw_items row is inserted, at any time with respect to the message. *)
Ingest(i) ==
  /\ row[i] = "ABSENT"
  /\ row' = [row EXCEPT ![i] = "PENDING"]
  /\ UNCHANGED <<queueVars, items, chunks, reserved, route, lock, pc,
                 eventVars, result, target, tx, discarded>>

(* An admin edits the source's config.                                     *)
Recategorise(i, s) ==
  /\ Recategorises
  /\ route[i] # s
  /\ route' = [route EXCEPT ![i] = s]
  /\ UNCHANGED <<queueVars, dbVars, reserved, lock, pc, eventVars, result,
                 target, tx, discarded>>

(* A batch of visible messages becomes the event of an idle invocation.    *)
Receive(w) ==
  /\ pc[w] = "idle"
  /\ \E batch \in SUBSET {m \in Message : /\ delivery[m] = "visible"
                                          /\ received[m] < MaxReceive} :
       /\ batch # {} /\ Cardinality(batch) <= BatchSize
       /\ delivery' = [m \in Message |->
                         IF m \in batch THEN "inflight" ELSE delivery[m]]
       /\ received' = [m \in Message |->
                         IF m \in batch THEN received[m] + 1 ELSE received[m]]
       /\ holder' = [m \in Message |-> IF m \in batch THEN w ELSE holder[m]]
       /\ todo' = [todo EXCEPT ![w] = batch]
  /\ pc' = [pc EXCEPT ![w] = "next"]
  /\ UNCHANGED <<dbVars, reserved, route, lock, done, cur, result, target, tx,
                 discarded>>

(* The visibility timeout does not wait for the invocation to end.         *)
VisibilityTimeout(m) ==
  /\ delivery[m] = "inflight"
  /\ delivery' = [delivery EXCEPT ![m] = "visible"]
  /\ holder' = [holder EXCEPT ![m] = None]
  /\ UNCHANGED <<received, dbVars, reserved, route, lock, pc, eventVars,
                 result, target, tx, discarded>>

(* Mutant of DeadLetter: one receive too many before the redrive.          *)
DeadLetterTooLate(m) ==
  /\ delivery[m] = "visible"
  /\ received[m] > MaxReceive
  /\ delivery' = [delivery EXCEPT ![m] = "dlq"]
  /\ UNCHANGED <<received, holder, dbVars, reserved, route, lock, pc,
                 eventVars, result, target, tx, discarded>>

DeadLetter(m) ==
  /\ delivery[m] = "visible"
  /\ received[m] = MaxReceive
  /\ delivery' = [delivery EXCEPT ![m] = "dlq"]
  /\ UNCHANGED <<received, holder, dbVars, reserved, route, lock, pc,
                 eventVars, result, target, tx, discarded>>

(* The stages of a record that holds its item's reservation.               *)
PastDedup(w) ==
  \/ pc[w] \in {"steps", "persist", "embed"}
  \/ pc[w] \in {"finish", "commit"} /\ result[w] = "stored"

(* The key's seven days are far longer than any invocation.                *)
ExpireKey(i) ==
  /\ i \in reserved
  /\ \A w \in Worker : PastDedup(w) => ItemAt(w) # i
  /\ reserved' = reserved \ {i}
  /\ UNCHANGED <<queueVars, dbVars, route, lock, pc, eventVars, result,
                 target, tx, discarded>>

-----------------------------------------------------------------------------
(* The session of one record.                                              *)

CanLock(w) == lock[ItemAt(w)] \in {w, None}

(* UPDATE raw_items SET status: a no-op when the row is not there.         *)
WriteRow(w, status) ==
  IF row[ItemAt(w)] = "ABSENT"
  THEN UNCHANGED <<tx, lock>>
  ELSE /\ CanLock(w)
       /\ tx' = [tx EXCEPT ![w].row = status]
       /\ lock' = [lock EXCEPT ![ItemAt(w)] = w]

Released(w) == [i \in Item |-> IF lock[i] = w THEN None ELSE lock[i]]

(* The session ends without a commit.                                      *)
Rollback(w) ==
  /\ tx' = [tx EXCEPT ![w] = NoWrites]
  /\ lock' = Released(w)

Goto(w, stage) == pc' = [pc EXCEPT ![w] = stage]

Decide(w, outcome) ==
  /\ Goto(w, "finish")
  /\ result' = [result EXCEPT ![w] = outcome]

(* The handler forgets the record; its id is kept for deletion or not.     *)
Leave(w, acknowledged) ==
  /\ Goto(w, "next")
  /\ cur' = [cur EXCEPT ![w] = None]
  /\ result' = [result EXCEPT ![w] = None]
  /\ target' = [target EXCEPT ![w] = None]
  /\ done' = [done EXCEPT ![w] = IF acknowledged THEN @ \cup {cur[w]} ELSE @]

(* The next record of the event; a body that cannot be parsed is reported. *)
TakeRecord(w) ==
  /\ pc[w] = "next"
  /\ \E m \in todo[w] :
       /\ todo' = [todo EXCEPT ![w] = @ \ {m}]
       /\ \/ /\ m \in Unparsable
             /\ UNCHANGED <<pc, cur>>
          \/ /\ m \notin Unparsable
             /\ Goto(w, "mark")
             /\ cur' = [cur EXCEPT ![w] = m]
  /\ UNCHANGED <<queueVars, dbVars, reserved, route, lock, done, result,
                 target, tx, discarded>>

MarkProcessing(w) ==
  /\ pc[w] = "mark"
  /\ WriteRow(w, "PROCESSING")
  /\ Goto(w, "dedup")
  /\ UNCHANGED <<queueVars, dbVars, reserved, route, eventVars, result,
                 target, discarded>>

(* Mutants of Dedup: SET without NX, and a GET that leaves the SET to the  *)
(* end of the chain.                                                       *)
DedupWithoutNX(w) ==
  /\ pc[w] = "dedup"
  /\ reserved' = reserved \cup {ItemAt(w)}
  /\ Goto(w, "steps")
  /\ UNCHANGED <<queueVars, dbVars, route, lock, eventVars, result, target,
                 tx, discarded>>

DedupThatOnlyReads(w) ==
  /\ pc[w] = "dedup"
  /\ \/ /\ ItemAt(w) \notin reserved
        /\ Goto(w, "steps")
        /\ UNCHANGED result
     \/ /\ ItemAt(w) \in reserved
        /\ Decide(w, "duplicate")
  /\ UNCHANGED <<queueVars, dbVars, reserved, route, lock, eventVars, target,
                 tx, discarded>>

(* DedupProcessor: a hash that does not fit discards the article, an       *)
(* existing key makes it a duplicate, and a Redis error fails the step     *)
(* whether or not the SET NX was applied.                                  *)
Dedup(w) ==
  LET i == ItemAt(w) IN
  /\ pc[w] = "dedup"
  /\ \/ /\ cur[w] \in BadHash
        /\ Decide(w, "discarded")
        /\ UNCHANGED reserved
     \/ /\ cur[w] \notin BadHash
        /\ i \notin reserved
        /\ reserved' = reserved \cup {i}
        /\ Goto(w, "steps")
        /\ UNCHANGED result
     \/ /\ cur[w] \notin BadHash
        /\ i \in reserved
        /\ Decide(w, "duplicate")
        /\ UNCHANGED reserved
     \/ /\ cur[w] \notin BadHash
        /\ reserved' \in {reserved, reserved \cup {i}}
        /\ Decide(w, "failed")
  /\ UNCHANGED <<queueVars, dbVars, route, lock, eventVars, target, tx,
                 discarded>>

(* Normalizer, gate, enricher, scorer and chunker: give the article up,    *)
(* raise, or hand on the schema the source's config routes it to.          *)
RunSteps(w) ==
  /\ pc[w] = "steps"
  /\ \/ Decide(w, "discarded") /\ UNCHANGED target
     \/ Decide(w, "failed") /\ UNCHANGED target
     \/ /\ Goto(w, "persist")
        /\ target' = [target EXCEPT ![w] = route[ItemAt(w)]]
        /\ UNCHANGED result
  /\ UNCHANGED <<queueVars, dbVars, reserved, route, lock, eventVars, tx,
                 discarded>>

(* resolve_raw_item_id, then the idempotence check of the routed schema's  *)
(* own table, then the flush of the new processed_items row.               *)
PersistItem(w) ==
  LET i == ItemAt(w) IN
  /\ pc[w] = "persist"
  /\ \/ /\ row[i] = "ABSENT"
        /\ Decide(w, "failed")
        /\ UNCHANGED tx
     \/ /\ row[i] # "ABSENT"
        /\ <<i, target[w]>> \in items
        /\ Decide(w, "stored")
        /\ UNCHANGED tx
     \/ /\ row[i] # "ABSENT"
        /\ <<i, target[w]>> \notin items
        /\ tx' = [tx EXCEPT ![w].item = target[w]]
        /\ Goto(w, "embed")
        /\ UNCHANGED result
  /\ UNCHANGED <<queueVars, dbVars, reserved, route, lock, eventVars, target,
                 discarded>>

(* Mutant of PersistChunks: a failed embedding is logged and passed over.  *)
PersistWithoutChunks(w) ==
  /\ pc[w] = "embed"
  /\ Decide(w, "stored")
  /\ UNCHANGED <<queueVars, dbVars, reserved, route, lock, eventVars, target,
                 tx, discarded>>

(* Embeds the chunks and flushes their rows in the same session.           *)
PersistChunks(w) ==
  /\ pc[w] = "embed"
  /\ tx' = [tx EXCEPT ![w].chunks = TRUE]
  /\ Decide(w, "stored")
  /\ UNCHANGED <<queueVars, dbVars, reserved, route, lock, eventVars, target,
                 discarded>>

(* persist_pipeline_output raised: process() rolls the session back and    *)
(* goes on to mark the item FAILED in a new transaction.                   *)
PersistFails(w) ==
  /\ pc[w] \in {"persist", "embed"}
  /\ row[ItemAt(w)] # "ABSENT"
  /\ Rollback(w)
  /\ Decide(w, "failed")
  /\ UNCHANGED <<queueVars, dbVars, reserved, route, eventVars, target,
                 discarded>>

(* Mutant of Finish: a duplicate leaves the row as mark_processing set it. *)
FinishWithoutSkip(w) ==
  /\ pc[w] = "finish"
  /\ IF result[w] = "duplicate"
     THEN UNCHANGED <<tx, lock>>
     ELSE WriteRow(w, IF result[w] = "failed" THEN "FAILED" ELSE "PROCESSED")
  /\ Goto(w, "commit")
  /\ UNCHANGED <<queueVars, dbVars, reserved, route, eventVars, result,
                 target, discarded>>

(* mark_processed, mark_skipped (also PROCESSED) or mark_failed.           *)
Finish(w) ==
  /\ pc[w] = "finish"
  /\ WriteRow(w, IF result[w] = "failed" THEN "FAILED" ELSE "PROCESSED")
  /\ Goto(w, "commit")
  /\ UNCHANGED <<queueVars, dbVars, reserved, route, eventVars, result,
                 target, discarded>>

(* Mutant of Commit: a failed result is not reported in batchItemFailures. *)
CommitThatAcknowledgesAll(w) ==
  LET i == ItemAt(w)
      new == IF tx[w].item = None THEN {} ELSE {<<i, tx[w].item>>}
  IN
  /\ pc[w] = "commit"
  /\ row' = IF tx[w].row = None THEN row ELSE [row EXCEPT ![i] = tx[w].row]
  /\ items' = items \cup new
  /\ chunks' = IF tx[w].chunks THEN chunks \cup new ELSE chunks
  /\ discarded' = IF result[w] = "discarded"
                  THEN discarded \cup {i} ELSE discarded
  /\ Leave(w, TRUE)
  /\ Rollback(w)
  /\ UNCHANGED <<queueVars, reserved, route, todo>>

(* The session context commits.  A failed result is committed too, but its *)
(* message is reported; so is one whose commit went through unconfirmed.   *)
Commit(w) ==
  LET i == ItemAt(w)
      new == IF tx[w].item = None THEN {} ELSE {<<i, tx[w].item>>}
  IN
  /\ pc[w] = "commit"
  /\ row' = IF tx[w].row = None THEN row ELSE [row EXCEPT ![i] = tx[w].row]
  /\ items' = items \cup new
  /\ chunks' = IF tx[w].chunks THEN chunks \cup new ELSE chunks
  /\ discarded' = IF result[w] = "discarded"
                  THEN discarded \cup {i} ELSE discarded
  /\ \/ Leave(w, result[w] # "failed")
     \/ Leave(w, FALSE)
  /\ Rollback(w)
  /\ UNCHANGED <<queueVars, reserved, route, todo>>

(* Mutant of Unexpected: the session commits what was flushed so far.      *)
UnexpectedThatCommits(w) ==
  LET i == ItemAt(w)
      new == IF tx[w].item = None THEN {} ELSE {<<i, tx[w].item>>}
  IN
  /\ pc[w] \in {"mark", "persist", "finish", "commit"}
  /\ row' = IF tx[w].row = None THEN row ELSE [row EXCEPT ![i] = tx[w].row]
  /\ items' = items \cup new
  /\ chunks' = IF tx[w].chunks THEN chunks \cup new ELSE chunks
  /\ Rollback(w)
  /\ Leave(w, FALSE)
  /\ UNCHANGED <<queueVars, reserved, route, todo, discarded>>

(* An exception outside the two try blocks of process(): the session is    *)
(* rolled back and the record reported.                                    *)
Unexpected(w) ==
  /\ pc[w] \in {"mark", "persist", "finish", "commit"}
  /\ Rollback(w)
  /\ Leave(w, FALSE)
  /\ UNCHANGED <<queueVars, dbVars, reserved, route, todo, discarded>>

(* The Lambda returns batchItemFailures; SQS deletes the other messages it *)
(* still has a current receipt for.                                        *)
Return(w) ==
  /\ pc[w] = "next"
  /\ todo[w] = {}
  /\ delivery' = [m \in Message |->
                    IF m \in done[w] /\ holder[m] = w
                    THEN "deleted" ELSE delivery[m]]
  /\ Goto(w, "idle")
  /\ done' = [done EXCEPT ![w] = {}]
  /\ UNCHANGED <<received, holder, dbVars, reserved, route, lock, todo, cur,
                 result, target, tx, discarded>>

(* The invocation is killed or times out: nothing is returned to SQS.      *)
Crash(w) ==
  /\ pc[w] # "idle"
  /\ Rollback(w)
  /\ Goto(w, "idle")
  /\ todo' = [todo EXCEPT ![w] = {}]
  /\ done' = [done EXCEPT ![w] = {}]
  /\ cur' = [cur EXCEPT ![w] = None]
  /\ result' = [result EXCEPT ![w] = None]
  /\ target' = [target EXCEPT ![w] = None]
  /\ UNCHANGED <<queueVars, dbVars, reserved, route, discarded>>

-----------------------------------------------------------------------------

(* What an invocation does by itself, crashes aside.                       *)
Run(w) ==
  \/ TakeRecord(w) \/ MarkProcessing(w) \/ Dedup(w) \/ RunSteps(w)
  \/ PersistItem(w) \/ PersistChunks(w) \/ PersistFails(w) \/ Finish(w)
  \/ Commit(w) \/ Unexpected(w) \/ Return(w)

Next ==
  \/ \E m \in Message : Publish(m) \/ VisibilityTimeout(m) \/ DeadLetter(m)
  \/ \E i \in Item : Ingest(i) \/ ExpireKey(i)
  \/ \E i \in Item, s \in Schema : Recategorise(i, s)
  \/ \E w \in Worker : Receive(w) \/ Run(w) \/ Crash(w)

Spec == Init /\ [][Next]_vars

(* Lambda runs what it was handed, SQS keeps handing out what is visible   *)
(* and lets visibility timeouts pass.  Nothing obliges a collector to      *)
(* publish, a row to be ingested or a step to succeed.                     *)
Fairness ==
  /\ \A w \in Worker : WF_vars(Run(w))
  /\ WF_vars(\E w \in Worker : Receive(w))
  /\ \A m \in Message : WF_vars(VisibilityTimeout(m)) /\ WF_vars(DeadLetter(m))

FairSpec == Spec /\ Fairness

-----------------------------------------------------------------------------
(* Properties.                                                             *)

TypeOK ==
  /\ delivery \in [Message -> DeliveryState]
  /\ received \in [Message -> 0..MaxReceive]
  /\ holder \in [Message -> Worker \cup {None}]
  /\ row \in [Item -> RowStatus]
  /\ items \in SUBSET (Item \X Schema)
  /\ chunks \in SUBSET (Item \X Schema)
  /\ reserved \in SUBSET Item
  /\ route \in [Item -> Schema]
  /\ lock \in [Item -> Worker \cup {None}]
  /\ pc \in [Worker -> Stage]
  /\ todo \in [Worker -> SUBSET Message]
  /\ done \in [Worker -> SUBSET Message]
  /\ cur \in [Worker -> Message \cup {None}]
  /\ result \in [Worker -> Outcome \cup {None}]
  /\ target \in [Worker -> Schema \cup {None}]
  /\ tx \in [Worker -> Session]
  /\ discarded \in SUBSET Item

(* No two invocations are past dedup with the same article, although SQS   *)
(* may hand one message, or two messages about one article, to both.  It   *)
(* is what makes the idempotence check of persist_pipeline_output safe: it *)
(* reads committed rows only.                                              *)
ExclusiveProcessing ==
  \A v, w \in Worker :
    PastDedup(v) /\ PastDedup(w) /\ ItemAt(v) = ItemAt(w) => v = w

(* A committed processed_items row has its chunks, and no chunk is there   *)
(* without its row, wherever an invocation fails or is killed.             *)
ChunksWithItems == items = chunks

(* No crash, error or rollback leaves a row in PROCESSING: a row only ever *)
(* shows PROCESSING inside the session that is going to settle it.         *)
NeverStuckProcessing == \A i \in Item : row[i] # "PROCESSING"

Stored(i) == \E s \in Schema : <<i, s>> \in items

(* An article that SQS handed out only once, in one message, is not lost:  *)
(* its message is deleted only after the article was stored, or given up   *)
(* by a processor on its merits.                                           *)
SingleDeliveryNeverLoses ==
  \A m \in Message :
    /\ delivery[m] = "deleted"
    /\ received[m] = 1
    /\ \A n \in Message \ {m} : ItemOf[n] = ItemOf[m] => received[n] = 0
    => Stored(ItemOf[m]) \/ ItemOf[m] \in discarded

(* The detailed processor implements the store it promises: an article     *)
(* appears complete, once per table, in the step that marks its row        *)
(* PROCESSED, and nothing is ever withdrawn.                               *)
Store == INSTANCE ArticleStore WITH status <- row, articles <- items \cap chunks

StoreSpec == Store!Spec

(* Every message SQS holds is in the end deleted or dead-lettered, also    *)
(* when invocations keep crashing, records of a batch fail for ever and    *)
(* a retry meets the reservation of the attempt before it.                 *)
EveryMessageSettles ==
  \A m \in Message :
    delivery[m] = "visible" ~> delivery[m] \in {"deleted", "dlq"}

-----------------------------------------------------------------------------
(* The inductive invariant behind the safety theorems of ProcessorProofs.  *)

(* A record in a session has a message and, once decided, a result.        *)
RecordInHand(w) ==
  /\ pc[w] \notin {"idle", "next"} => cur[w] \in Message
  /\ pc[w] \in {"finish", "commit"} => result[w] \in Outcome

(* Which writes a session can hold at each stage.                          *)
SessionWrites(w) ==
  /\ pc[w] \in {"idle", "next", "mark"} => tx[w] = NoWrites
  /\ pc[w] \in {"dedup", "steps", "persist"} =>
       tx[w].item = None /\ ~tx[w].chunks
  /\ pc[w] = "persist" => target[w] \in Schema
  /\ pc[w] = "embed" => tx[w].item \in Schema /\ ~tx[w].chunks
  /\ pc[w] \in {"finish", "commit"} =>
       /\ tx[w].chunks <=> tx[w].item # None
       /\ tx[w].item # None => result[w] = "stored"
  /\ pc[w] = "commit" =>
       /\ tx[w].row # "PROCESSING"
       /\ tx[w].item # None => tx[w].row = "PROCESSED"
  /\ tx[w].row # None \/ tx[w].item # None => row[ItemAt(w)] # "ABSENT"

(* Whoever is past dedup with an item holds its reservation.               *)
ReservationHeld(w) == PastDedup(w) => ItemAt(w) \in reserved

IInv ==
  /\ TypeOK
  /\ \A w \in Worker : RecordInHand(w) /\ SessionWrites(w) /\ ReservationHeld(w)
  /\ ExclusiveProcessing
  /\ ChunksWithItems
  /\ NeverStuckProcessing

(* "3 kez basarisiz olan mesajlar DLQ'ya duser" (Docs/04, 8.7): a message  *)
(* whose article was neither stored nor given up is not simply deleted.    *)
(* The code breaks it: the reservation outlives the failed attempt, so the *)
(* retry is taken for a duplicate and its message is acknowledged.         *)
FailedMessagesReachDlq ==
  \A m \in Message :
    delivery[m] = "deleted" => Stored(ItemOf[m]) \/ ItemOf[m] \in discarded

(* "Her ProcessedItem tam olarak bir RawItem'dan uretilir (1:1 iliski)"    *)
(* (Docs/01, 4): a raw item has one processed item over all schemas.  The  *)
(* code only looks for an earlier one in the schema it routes to now.      *)
OneItemPerRawItem ==
  \A i \in Item, r, s \in Schema :
    <<i, r>> \in items /\ <<i, s>> \in items => r = s
=============================================================================
