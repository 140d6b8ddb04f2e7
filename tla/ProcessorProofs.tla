--------------------------- MODULE ProcessorProofs --------------------------
(***************************************************************************)
(* Theorems about Processor, for any items, messages, invocations and      *)
(* bounds.  All of them rest on the inductive invariant IInv.              *)
(***************************************************************************)
EXTENDS Processor, TLAPS

(* The initial states satisfy the inductive invariant.                     *)
LEMMA InitIInv == Init => IInv
<1> SUFFICES ASSUME Init PROVE IInv
  OBVIOUS
<1>1. NoWrites \in Session
  BY DEF NoWrites, Session
<1>2. TypeOK
  BY <1>1, Bounds
     DEF Init, TypeOK, DeliveryState, RowStatus, Stage, Outcome
<1>3. ASSUME NEW w \in Worker
      PROVE  RecordInHand(w) /\ SessionWrites(w) /\ ReservationHeld(w)
  BY DEF Init, RecordInHand, SessionWrites, ReservationHeld, PastDedup, NoWrites
<1>4. ExclusiveProcessing
  BY DEF Init, ExclusiveProcessing, PastDedup
<1>5. ChunksWithItems /\ NeverStuckProcessing
  BY DEF Init, ChunksWithItems, NeverStuckProcessing
<1> QED
  BY <1>2, <1>3, <1>4, <1>5 DEF IInv

(* Writing one field of an uncommitted session leaves it a session.        *)
LEMMA SessionUpdate ==
  ASSUME NEW w \in Worker, tx \in [Worker -> Session],
         \/ \E status \in {"PROCESSING", "PROCESSED", "FAILED"} :
              tx' = [tx EXCEPT ![w].row = status]
         \/ \E s \in Schema : tx' = [tx EXCEPT ![w].item = s]
         \/ tx' = [tx EXCEPT ![w].chunks = TRUE]
         \/ UNCHANGED tx
  PROVE  tx' \in [Worker -> Session]
<1>1. tx[w] \in Session
  OBVIOUS
<1>2. ASSUME NEW status \in {"PROCESSING", "PROCESSED", "FAILED"},
             tx' = [tx EXCEPT ![w].row = status]
      PROVE  tx' \in [Worker -> Session]
  <2>1. [tx[w] EXCEPT !.row = status] \in Session
    BY <1>1 DEF Session
  <2>2. tx' = [tx EXCEPT ![w] = [tx[w] EXCEPT !.row = status]]
    BY <1>2, Zenon
  <2> QED
    BY <2>1, <2>2
<1>3. ASSUME NEW s \in Schema, tx' = [tx EXCEPT ![w].item = s]
      PROVE  tx' \in [Worker -> Session]
  <2>1. [tx[w] EXCEPT !.item = s] \in Session
    BY <1>1 DEF Session
  <2>2. tx' = [tx EXCEPT ![w] = [tx[w] EXCEPT !.item = s]]
    BY <1>3, Zenon
  <2> QED
    BY <2>1, <2>2
<1>4. ASSUME tx' = [tx EXCEPT ![w].chunks = TRUE]
      PROVE  tx' \in [Worker -> Session]
  <2>1. [tx[w] EXCEPT !.chunks = TRUE] \in Session
    BY <1>1 DEF Session
  <2>2. tx' = [tx EXCEPT ![w] = [tx[w] EXCEPT !.chunks = TRUE]]
    BY <1>4, Zenon
  <2> QED
    BY <2>1, <2>2
<1> QED
  BY <1>2, <1>3, <1>4

(* Ending a session keeps the sessions and the row locks in their types.   *)
LEMMA RollbackType ==
  ASSUME NEW w \in Worker, TypeOK, Rollback(w)
  PROVE  tx' \in [Worker -> Session] /\ lock' \in [Item -> Worker \cup {None}]
<1>1. NoWrites \in Session
  BY DEF NoWrites, Session
<1> QED
  BY <1>1 DEF Rollback, Released, TypeOK

(* Every step keeps the variables in their types.                          *)
LEMMA NextTypeOK == IInv /\ [Next]_vars => TypeOK'
<1> SUFFICES ASSUME TypeOK, [Next]_vars,
                    \A w \in Worker : RecordInHand(w) /\ SessionWrites(w)
             PROVE  TypeOK'
  BY DEF IInv
<1> USE ItemOfType, MessageKinds, Bounds, Switches, NoneIsNoValue
    DEF TypeOK, DeliveryState, RowStatus, Stage, Outcome,
        queueVars, dbVars, eventVars, Goto, Decide, Leave
<1>1. ASSUME NEW m \in Message, Publish(m) PROVE TypeOK'
  BY <1>1 DEF Publish
<1>2. ASSUME NEW m \in Message, VisibilityTimeout(m) PROVE TypeOK'
  BY <1>2 DEF VisibilityTimeout
<1>3. ASSUME NEW m \in Message, DeadLetter(m) PROVE TypeOK'
  BY <1>3 DEF DeadLetter
<1>4. ASSUME NEW i \in Item, Ingest(i) PROVE TypeOK'
  BY <1>4 DEF Ingest
<1>5. ASSUME NEW i \in Item, ExpireKey(i) PROVE TypeOK'
  BY <1>5 DEF ExpireKey
<1>6. ASSUME NEW i \in Item, NEW s \in Schema, Recategorise(i, s) PROVE TypeOK'
  BY <1>6 DEF Recategorise
<1>7. ASSUME NEW w \in Worker, Receive(w) PROVE TypeOK'
  BY <1>7 DEF Receive
<1>8. ASSUME NEW w \in Worker, TakeRecord(w) PROVE TypeOK'
  <2>1. pc' \in [Worker -> Stage]
    BY <1>8 DEF TakeRecord
  <2>2. PICK m \in todo[w] : /\ todo' = [todo EXCEPT ![w] = todo[w] \ {m}]
                             /\ UNCHANGED cur \/ cur' = [cur EXCEPT ![w] = m]
    BY <1>8 DEF TakeRecord
  <2>3. todo[w] \ {m} \in SUBSET Message
    OBVIOUS
  <2>4. cur' \in [Worker -> Message \cup {None}]
    BY <2>2
  <2>5. todo' \in [Worker -> SUBSET Message]
    BY <2>2, <2>3
  <2> QED
    BY <1>8, <2>1, <2>4, <2>5 DEF TakeRecord
<1>9. ASSUME NEW w \in Worker, MarkProcessing(w) PROVE TypeOK'
  <2>1. tx' \in [Worker -> Session]
    BY <1>9, SessionUpdate DEF MarkProcessing, WriteRow
  <2>2. lock' \in [Item -> Worker \cup {None}]
    BY <1>9 DEF MarkProcessing, WriteRow, ItemAt, RecordInHand
  <2>3. pc' \in [Worker -> Stage]
    BY <1>9 DEF MarkProcessing
  <2> QED
    BY <1>9, <2>1, <2>2, <2>3 DEF MarkProcessing
<1>10. ASSUME NEW w \in Worker, Dedup(w) PROVE TypeOK'
  <2>1. pc' \in [Worker -> Stage] /\ result' \in [Worker -> Outcome \cup {None}]
    BY <1>10 DEF Dedup
  <2>2. reserved' \in SUBSET Item
    BY <1>10 DEF Dedup, ItemAt, RecordInHand
  <2> QED
    BY <1>10, <2>1, <2>2 DEF Dedup
<1>11. ASSUME NEW w \in Worker, RunSteps(w) PROVE TypeOK'
  <2>1. pc' \in [Worker -> Stage] /\ result' \in [Worker -> Outcome \cup {None}]
    BY <1>11 DEF RunSteps
  <2>2. target' \in [Worker -> Schema \cup {None}]
    BY <1>11 DEF RunSteps, ItemAt, RecordInHand
  <2> QED
    BY <1>11, <2>1, <2>2 DEF RunSteps
<1>12. ASSUME NEW w \in Worker, PersistItem(w) PROVE TypeOK'
  <2>1. pc' \in [Worker -> Stage] /\ result' \in [Worker -> Outcome \cup {None}]
    BY <1>12 DEF PersistItem
  <2>2. tx' \in [Worker -> Session]
    BY <1>12, SessionUpdate DEF PersistItem, SessionWrites
  <2> QED
    BY <1>12, <2>1, <2>2 DEF PersistItem
<1>13. ASSUME NEW w \in Worker, PersistChunks(w) PROVE TypeOK'
  <2>1. tx' \in [Worker -> Session]
    BY <1>13, SessionUpdate DEF PersistChunks
  <2> QED
    BY <1>13, <2>1 DEF PersistChunks
<1>14. ASSUME NEW w \in Worker, PersistFails(w) PROVE TypeOK'
  <2>1. tx' \in [Worker -> Session] /\ lock' \in [Item -> Worker \cup {None}]
    BY <1>14, RollbackType DEF PersistFails
  <2> QED
    BY <1>14, <2>1 DEF PersistFails
<1>15. ASSUME NEW w \in Worker, Finish(w) PROVE TypeOK'
  <2>1. tx' \in [Worker -> Session]
    BY <1>15, SessionUpdate DEF Finish, WriteRow
  <2>2. lock' \in [Item -> Worker \cup {None}]
    BY <1>15 DEF Finish, WriteRow, ItemAt, RecordInHand
  <2>3. pc' \in [Worker -> Stage]
    BY <1>15 DEF Finish
  <2> QED
    BY <1>15, <2>1, <2>2, <2>3 DEF Finish
<1>16. ASSUME NEW w \in Worker, Commit(w) PROVE TypeOK'
  <2>0. /\ ItemAt(w) \in Item
        /\ tx[w].row \in {"PROCESSING", "PROCESSED", "FAILED", None}
        /\ tx[w].item \in Schema \cup {None}
    BY <1>16 DEF Commit, ItemAt, RecordInHand, Session
  <2>1. row' \in [Item -> RowStatus] /\ discarded' \in SUBSET Item
    BY <1>16, <2>0 DEF Commit
  <2>2. items' \in SUBSET (Item \X Schema) /\ chunks' \in SUBSET (Item \X Schema)
    BY <1>16, <2>0 DEF Commit
  <2>3. pc' \in [Worker -> Stage] /\ cur' \in [Worker -> Message \cup {None}]
    BY <1>16 DEF Commit
  <2>4. result' \in [Worker -> Outcome \cup {None}] /\ target' \in [Worker -> Schema \cup {None}]
    BY <1>16 DEF Commit
  <2>5. done' \in [Worker -> SUBSET Message]
    <3>1. done[w] \cup {cur[w]} \in SUBSET Message
      BY <1>16 DEF Commit, RecordInHand
    <3>2. UNCHANGED done \/ done' = [done EXCEPT ![w] = done[w] \cup {cur[w]}]
      BY <1>16 DEF Commit
    <3> QED
      BY <3>1, <3>2
  <2>6. tx' \in [Worker -> Session] /\ lock' \in [Item -> Worker \cup {None}]
    BY <1>16, RollbackType DEF Commit
  <2> QED
    BY <1>16, <2>1, <2>2, <2>3, <2>4, <2>5, <2>6 DEF Commit
<1>17. ASSUME NEW w \in Worker, Unexpected(w) PROVE TypeOK'
  <2>1. tx' \in [Worker -> Session] /\ lock' \in [Item -> Worker \cup {None}]
    BY <1>17, RollbackType DEF Unexpected
  <2> QED
    BY <1>17, <2>1 DEF Unexpected
<1>18. ASSUME NEW w \in Worker, Return(w) PROVE TypeOK'
  BY <1>18 DEF Return
<1>19. ASSUME NEW w \in Worker, Crash(w) PROVE TypeOK'
  <2>1. tx' \in [Worker -> Session] /\ lock' \in [Item -> Worker \cup {None}]
    BY <1>19, RollbackType DEF Crash
  <2> QED
    BY <1>19, <2>1 DEF Crash
<1>20. CASE UNCHANGED vars
  BY <1>20 DEF vars
<1> QED
  BY <1>1, <1>2, <1>3, <1>4, <1>5, <1>6, <1>7, <1>8, <1>9, <1>10, <1>11,
     <1>12, <1>13, <1>14, <1>15, <1>16, <1>17, <1>18, <1>19, <1>20
     DEF Next, Run

(* What invocation v sees of itself is left alone.                         *)
Untouched(v) ==
  /\ pc'[v] = pc[v] /\ cur'[v] = cur[v] /\ result'[v] = result[v]
  /\ target'[v] = target[v] /\ tx'[v] = tx[v]

(* A step of invocation w leaves every other invocation alone.             *)
LEMMA OthersUntouched ==
  ASSUME TypeOK, NEW w \in Worker, Receive(w) \/ Run(w) \/ Crash(w),
         NEW v \in Worker \ {w}
  PROVE  Untouched(v)
<1> USE DEF TypeOK, Untouched, Rollback, Goto, Decide, Leave, eventVars
<1>1. CASE Receive(w) \/ TakeRecord(w) \/ Return(w)
  BY <1>1 DEF Receive, TakeRecord, Return
<1>2. CASE MarkProcessing(w) \/ Finish(w)
  BY <1>2 DEF MarkProcessing, Finish, WriteRow
<1>3. CASE Dedup(w) \/ RunSteps(w)
  BY <1>3 DEF Dedup, RunSteps
<1>4. CASE PersistItem(w) \/ PersistChunks(w) \/ PersistFails(w)
  BY <1>4 DEF PersistItem, PersistChunks, PersistFails
<1>5. CASE Commit(w)
  BY <1>5 DEF Commit
<1>6. CASE Unexpected(w) \/ Crash(w)
  BY <1>6 DEF Unexpected, Crash
<1> QED
  BY <1>1, <1>2, <1>3, <1>4, <1>5, <1>6 DEF Run

(* No step removes a raw item's row.                                       *)
LEMMA RowsStay ==
  ASSUME TypeOK, [Next]_vars, NEW i \in Item, row[i] # "ABSENT"
  PROVE  row'[i] # "ABSENT"
<1> USE NoneIsNoValue DEF TypeOK, queueVars, dbVars
<1>1. ASSUME NEW w \in Worker, Commit(w) PROVE row'[i] # "ABSENT"
  <2>1. tx[w].row # "ABSENT"
    BY DEF Session, RowStatus
  <2> QED
    BY <1>1, <2>1 DEF Commit
<1>2. ASSUME NEW j \in Item, Ingest(j) PROVE row'[i] # "ABSENT"
  BY <1>2 DEF Ingest
<1>3. ASSUME NEW w \in Worker,
             \/ Receive(w) \/ TakeRecord(w) \/ MarkProcessing(w) \/ Dedup(w)
             \/ RunSteps(w) \/ PersistItem(w) \/ PersistChunks(w)
             \/ PersistFails(w) \/ Finish(w) \/ Unexpected(w) \/ Return(w)
             \/ Crash(w)
      PROVE  UNCHANGED row
  BY <1>3 DEF Receive, TakeRecord, MarkProcessing, Dedup, RunSteps, PersistItem,
       PersistChunks, PersistFails, Finish, Unexpected, Return, Crash
<1>4. ASSUME \/ \E m \in Message : \/ Publish(m) \/ VisibilityTimeout(m)
                                   \/ DeadLetter(m)
             \/ \E j \in Item : ExpireKey(j)
             \/ \E j \in Item, s \in Schema : Recategorise(j, s)
             \/ UNCHANGED vars
      PROVE  UNCHANGED row
  BY <1>4 DEF Publish, VisibilityTimeout, DeadLetter, ExpireKey, Recategorise, vars
<1> QED
  BY <1>1, <1>2, <1>3, <1>4 DEF Next, Run

(* An invocation left alone keeps its record and the writes it may hold.   *)
LEMMA FrameRecords ==
  ASSUME TypeOK, [Next]_vars, NEW v \in Worker, Untouched(v),
         RecordInHand(v), SessionWrites(v)
  PROVE  RecordInHand(v)' /\ SessionWrites(v)'
<1>1. tx[v].row # None \/ tx[v].item # None => ItemAt(v) \in Item
  BY ItemOfType DEF RecordInHand, SessionWrites, NoWrites, ItemAt, TypeOK
<1> QED
  BY <1>1, RowsStay DEF Untouched, RecordInHand, SessionWrites, ItemAt, NoWrites

(* The invocation that takes a step keeps its record in hand, with the     *)
(* writes its next stage allows.                                           *)
LEMMA OwnRecords ==
  ASSUME TypeOK, NEW w \in Worker, RecordInHand(w), SessionWrites(w),
         Receive(w) \/ Run(w) \/ Crash(w)
  PROVE  RecordInHand(w)' /\ SessionWrites(w)'
<1> USE ItemOfType, NoneIsNoValue
    DEF TypeOK, Outcome, NoWrites, RowStatus, queueVars, dbVars, eventVars,
        Rollback, Goto, Decide, Leave, RecordInHand, SessionWrites, ItemAt
<1>1. CASE Receive(w)
  BY <1>1 DEF Receive
<1>2. CASE TakeRecord(w)
  BY <1>2 DEF TakeRecord
<1>3. CASE MarkProcessing(w)
  BY <1>3 DEF MarkProcessing, WriteRow
<1>4. CASE Dedup(w)
  BY <1>4 DEF Dedup
<1>5. CASE RunSteps(w)
  BY <1>5 DEF RunSteps
<1>6. CASE PersistItem(w)
  <2>1. CASE UNCHANGED tx /\ pc'[w] = "finish"
    BY <1>6, <2>1 DEF PersistItem
  <2>2. CASE tx' = [tx EXCEPT ![w].item = target[w]] /\ pc'[w] = "embed"
    <3>1. /\ tx'[w].item = target[w] /\ tx'[w].row = tx[w].row
          /\ tx'[w].chunks = tx[w].chunks
      BY <2>2 DEF Session
    <3> QED
      BY <1>6, <2>2, <3>1 DEF PersistItem
  <2> QED
    BY <1>6, <2>1, <2>2 DEF PersistItem
<1>7. CASE PersistChunks(w)
  BY <1>7 DEF PersistChunks
<1>8. CASE PersistFails(w)
  BY <1>8 DEF PersistFails
<1>9. CASE Finish(w)
  <2>1. CASE row[ItemAt(w)] = "ABSENT"
    BY <1>9, <2>1 DEF Finish, WriteRow
  <2>2. CASE row[ItemAt(w)] # "ABSENT"
    <3>1. /\ tx'[w].row = IF result[w] = "failed" THEN "FAILED" ELSE "PROCESSED"
          /\ tx'[w].item = tx[w].item /\ tx'[w].chunks = tx[w].chunks
      BY <1>9, <2>2 DEF Finish, WriteRow, Session
    <3> QED
      BY <1>9, <2>2, <3>1 DEF Finish
  <2> QED
    BY <2>1, <2>2
<1>10. CASE Commit(w)
  BY <1>10 DEF Commit
<1>11. CASE Unexpected(w)
  BY <1>11 DEF Unexpected
<1>12. CASE Return(w)
  BY <1>12 DEF Return
<1>13. CASE Crash(w)
  BY <1>13 DEF Crash
<1> QED
  BY <1>1, <1>2, <1>3, <1>4, <1>5, <1>6, <1>7, <1>8, <1>9, <1>10, <1>11,
     <1>12, <1>13 DEF Run

(* Reservations: no step breaks the link between being past dedup and      *)
(* holding the key, and with it no two invocations share an item.          *)
LEMMA NextReservations ==
  ASSUME IInv, [Next]_vars, \A v \in Worker : RecordInHand(v)'
  PROVE  (\A v \in Worker : ReservationHeld(v))' /\ ExclusiveProcessing'
<1> USE DEF IInv, ReservationHeld, ExclusiveProcessing, PastDedup, ItemAt
<1>1. ASSUME NEW w \in Worker, Dedup(w)
      PROVE  (\A v \in Worker : ReservationHeld(v))' /\ ExclusiveProcessing'
  <2>1. reserved \subseteq reserved'
    BY <1>1 DEF Dedup
  <2>2. ASSUME NEW v \in Worker \ {w} PROVE Untouched(v)
    BY <1>1, OthersUntouched DEF Run
  <2>3. cur'[w] = cur[w] /\ ~PastDedup(w)
    BY <1>1 DEF Dedup, eventVars, TypeOK
  <2>4. PastDedup(w)' => ItemAt(w)' \notin reserved /\ ItemAt(w)' \in reserved'
    BY <1>1, <2>3 DEF Dedup, Goto, Decide, TypeOK
  <2> QED
    BY <2>1, <2>2, <2>3, <2>4 DEF Untouched
<1>2. ASSUME NEW w \in Worker,
             \/ Receive(w) \/ TakeRecord(w) \/ MarkProcessing(w) \/ RunSteps(w)
             \/ PersistItem(w) \/ PersistChunks(w) \/ PersistFails(w)
             \/ Finish(w) \/ Commit(w) \/ Unexpected(w) \/ Return(w) \/ Crash(w)
      PROVE  (\A v \in Worker : ReservationHeld(v))' /\ ExclusiveProcessing'
  <2>1. UNCHANGED reserved
    BY <1>2 DEF Receive, TakeRecord, MarkProcessing, RunSteps, PersistItem,
         PersistChunks, PersistFails, Finish, Commit, Unexpected, Return, Crash
  <2>2. ASSUME NEW v \in Worker \ {w} PROVE Untouched(v)
    BY <1>2, OthersUntouched DEF Run
  <2>3. PastDedup(w)' => PastDedup(w) /\ cur'[w] = cur[w]
    <3> USE DEF TypeOK, Goto, Decide, Leave, eventVars
    <3>1. CASE Receive(w) \/ TakeRecord(w) \/ Return(w)
      BY <3>1 DEF Receive, TakeRecord, Return
    <3>2. CASE MarkProcessing(w) \/ Finish(w)
      BY <3>2 DEF MarkProcessing, Finish
    <3>3. CASE RunSteps(w) \/ PersistItem(w)
      BY <3>3 DEF RunSteps, PersistItem
    <3>4. CASE PersistChunks(w) \/ PersistFails(w)
      BY <3>4 DEF PersistChunks, PersistFails
    <3>5. CASE Commit(w) \/ Unexpected(w) \/ Crash(w)
      BY <3>5 DEF Commit, Unexpected, Crash
    <3> QED
      BY <1>2, <3>1, <3>2, <3>3, <3>4, <3>5
  <2> QED
    BY <2>1, <2>2, <2>3 DEF Untouched
<1>3. ASSUME NEW i \in Item, ExpireKey(i)
      PROVE  (\A v \in Worker : ReservationHeld(v))' /\ ExclusiveProcessing'
  BY <1>3 DEF ExpireKey, eventVars
<1>4. ASSUME \/ \E m \in Message : \/ Publish(m) \/ VisibilityTimeout(m)
                                   \/ DeadLetter(m)
             \/ \E j \in Item : Ingest(j)
             \/ \E j \in Item, s \in Schema : Recategorise(j, s)
             \/ UNCHANGED vars
      PROVE  (\A v \in Worker : ReservationHeld(v))' /\ ExclusiveProcessing'
  <2>1. UNCHANGED <<reserved, pc, cur, result>>
    BY <1>4 DEF Publish, VisibilityTimeout, DeadLetter, Ingest, Recategorise,
         vars, eventVars
  <2> QED
    BY <2>1
<1> QED
  BY <1>1, <1>2, <1>3, <1>4 DEF Next, Run

(* What a commit shows: nothing, a settled row, or an article whose chunks *)
(* and PROCESSED row come with it.                                         *)
LEMMA CommitShows ==
  ASSUME IInv, NEW w \in Worker, Commit(w)
  PROVE  /\ ItemAt(w) \in Item
         /\ \/ UNCHANGED dbVars
            \/ /\ row[ItemAt(w)] # "ABSENT"
               /\ UNCHANGED <<items, chunks>>
               /\ \E outcome \in {"PROCESSED", "FAILED"} :
                    row' = [row EXCEPT ![ItemAt(w)] = outcome]
            \/ /\ row[ItemAt(w)] # "ABSENT"
               /\ row' = [row EXCEPT ![ItemAt(w)] = "PROCESSED"]
               /\ \E s \in Schema : /\ items' = items \cup {<<ItemAt(w), s>>}
                                    /\ chunks' = chunks \cup {<<ItemAt(w), s>>}
<1>1. /\ RecordInHand(w) /\ SessionWrites(w)
      /\ pc[w] = "commit" /\ cur[w] \in Message
      /\ tx[w].row \in {"PROCESSED", "FAILED", None}
      /\ tx[w].item \in Schema \cup {None}
  BY DEF IInv, TypeOK, Commit, RecordInHand, SessionWrites, Session
<1>2. ItemAt(w) \in Item
  BY <1>1, ItemOfType DEF ItemAt
<1>3. CASE tx[w].item = None
  <2>1. UNCHANGED <<items, chunks>>
    BY <1>1, <1>3 DEF Commit, SessionWrites
  <2>2. CASE tx[w].row = None
    BY <1>2, <2>1, <2>2 DEF Commit, dbVars
  <2>3. CASE tx[w].row # None
    BY <1>1, <1>2, <2>1, <2>3 DEF Commit, SessionWrites
  <2> QED
    BY <2>2, <2>3
<1>4. CASE tx[w].item # None
  <2>1. /\ tx[w].chunks /\ tx[w].row = "PROCESSED" /\ tx[w].item \in Schema
        /\ row[ItemAt(w)] # "ABSENT"
    BY <1>1, <1>4 DEF SessionWrites
  <2>2. /\ items' = items \cup {<<ItemAt(w), tx[w].item>>}
        /\ chunks' = chunks \cup {<<ItemAt(w), tx[w].item>>}
        /\ row' = [row EXCEPT ![ItemAt(w)] = "PROCESSED"]
    BY <1>4, <2>1, NoneIsNoValue DEF Commit, RowStatus
  <2> QED
    BY <1>2, <2>1, <2>2
<1> QED
  BY <1>2, <1>3, <1>4

(* Only ingestion and commits change what the database shows.              *)
LEMMA OnlyCommitsShow ==
  ASSUME TypeOK, [Next]_vars,
         ~ \E i \in Item : Ingest(i), ~ \E w \in Worker : Commit(w)
  PROVE  UNCHANGED dbVars
<1>1. ASSUME NEW w \in Worker, Receive(w) \/ Run(w) \/ Crash(w)
      PROVE  UNCHANGED dbVars
  BY <1>1 DEF Run, Receive, TakeRecord, MarkProcessing, Dedup, RunSteps,
       PersistItem, PersistChunks, PersistFails, Finish, Unexpected, Return, Crash
<1>2. ASSUME \/ \E m \in Message : \/ Publish(m) \/ VisibilityTimeout(m)
                                   \/ DeadLetter(m)
             \/ \E j \in Item : ExpireKey(j)
             \/ \E j \in Item, s \in Schema : Recategorise(j, s)
             \/ UNCHANGED vars
      PROVE  UNCHANGED dbVars
  BY <1>2 DEF Publish, VisibilityTimeout, DeadLetter, ExpireKey, Recategorise,
       vars, dbVars
<1> QED
  BY <1>1, <1>2 DEF Next

(* Commits keep items and chunks together and never show PROCESSING.       *)
LEMMA NextCommitted ==
  IInv /\ [Next]_vars => ChunksWithItems' /\ NeverStuckProcessing'
<1> SUFFICES ASSUME IInv, [Next]_vars
             PROVE  ChunksWithItems' /\ NeverStuckProcessing'
  OBVIOUS
<1> USE DEF IInv, TypeOK, ChunksWithItems, NeverStuckProcessing, dbVars
<1>1. ASSUME NEW i \in Item, Ingest(i)
      PROVE  ChunksWithItems' /\ NeverStuckProcessing'
  BY <1>1 DEF Ingest
<1>2. ASSUME NEW w \in Worker, Commit(w)
      PROVE  ChunksWithItems' /\ NeverStuckProcessing'
  BY <1>2, CommitShows
<1>3. CASE UNCHANGED dbVars
  BY <1>3
<1> QED
  BY <1>1, <1>2, <1>3, OnlyCommitsShow

(* IInv is inductive, so it holds in every reachable state.                *)
THEOREM Inductive == Spec => []IInv
<1>1. Init => IInv
  BY InitIInv
<1>2. IInv /\ [Next]_vars => IInv'
  <2> SUFFICES ASSUME IInv, [Next]_vars PROVE IInv'
    OBVIOUS
  <2>1. TypeOK'
    BY NextTypeOK
  <2>2. ASSUME NEW v \in Worker PROVE RecordInHand(v)' /\ SessionWrites(v)'
    <3>1. CASE Untouched(v)
      BY <3>1, FrameRecords DEF IInv
    <3>2. CASE Receive(v) \/ Run(v) \/ Crash(v)
      BY <3>2, OwnRecords DEF IInv
    <3>3. CASE ~ \E w \in Worker : Receive(w) \/ Run(w) \/ Crash(w)
      <4>1. Untouched(v)
        BY <3>3 DEF Next, Publish, VisibilityTimeout, DeadLetter, Ingest,
             ExpireKey, Recategorise, vars, eventVars, Untouched
      <4> QED
        BY <4>1, <3>1
    <3> QED
      BY <3>1, <3>2, <3>3, OthersUntouched DEF IInv
  <2>3. (\A v \in Worker : ReservationHeld(v))' /\ ExclusiveProcessing'
    BY <2>2, NextReservations
  <2>4. ChunksWithItems' /\ NeverStuckProcessing'
    BY NextCommitted
  <2> QED
    BY <2>1, <2>2, <2>3, <2>4 DEF IInv
<1> QED
  BY <1>1, <1>2, PTL DEF Spec

(* Every variable of the processor keeps its type.                         *)
THEOREM TypeCorrect == Spec => []TypeOK
<1>1. IInv => TypeOK
  BY DEF IInv
<1> QED
  BY <1>1, Inductive, PTL

(* Two invocations never work past dedup on the same article, however SQS  *)
(* duplicates the messages about it.                                       *)
THEOREM ExclusiveAlways == Spec => []ExclusiveProcessing
<1>1. IInv => ExclusiveProcessing
  BY DEF IInv
<1> QED
  BY <1>1, Inductive, PTL

(* Processed items and their chunks are only ever visible together.        *)
THEOREM ChunksAlways == Spec => []ChunksWithItems
<1>1. IInv => ChunksWithItems
  BY DEF IInv
<1> QED
  BY <1>1, Inductive, PTL

(* No failure leaves a row in PROCESSING.                                  *)
THEOREM NeverStuckAlways == Spec => []NeverStuckProcessing
<1>1. IInv => NeverStuckProcessing
  BY DEF IInv
<1> QED
  BY <1>1, Inductive, PTL

-----------------------------------------------------------------------------
(* What SQS hands out once.  A message is in the hands of an invocation    *)
(* from its event on until the event ends or the message is reported.      *)
Carried(w) == todo[w] \cup done[w] \cup ({cur[w]} \ {None})

(* No message is in two hands, or in two places of one, before its second  *)
(* delivery.                                                               *)
Handed ==
  /\ \A w \in Worker :
       /\ pc[w] = "idle" => Carried(w) = {}
       /\ pc[w] = "next" => cur[w] = None
       /\ cur[w] \notin todo[w] \cup done[w] /\ todo[w] \cap done[w] = {}
       /\ \A m \in Carried(w) : received[m] > 0
  /\ \A v, w \in Worker, m \in Message :
       v # w /\ m \in Carried(v) /\ m \in Carried(w) => received[m] > 1

(* The only delivery of an article so far, if any.                         *)
Once(m) ==
  received[m] <= 1 /\ \A n \in Message \ {m} : ItemOf[n] = ItemOf[m] => received[n] = 0

Kept(m) == Stored(ItemOf[m]) \/ ItemOf[m] \in discarded

(* Until an article is delivered again its key is only set by the attempt  *)
(* itself, which therefore never takes it for a duplicate.                 *)
FirstDelivery(m) ==
  /\ ItemOf[m] \in reserved =>
       /\ received[m] = 1
       /\ \A w \in Worker : m \notin todo[w] /\ (cur[w] = m => pc[w] \notin {"mark", "dedup"})
  /\ \A w \in Worker :
       /\ cur[w] = m /\ pc[w] \in {"finish", "commit"} => result[w] # "duplicate"
       /\ m \in done[w] => Kept(m)
  /\ delivery[m] = "deleted" => Kept(m)

(* What counts as stored is there, or will be with the commit.             *)
StoredIsThere(w) ==
  pc[w] \in {"finish", "commit"} /\ result[w] = "stored" =>
    tx[w].item # None \/ Stored(ItemAt(w))

DeliveryInv ==
  /\ Handed
  /\ \A m \in Message : Once(m) => FirstDelivery(m)
  /\ \A w \in Worker : StoredIsThere(w)

(* A step of one invocation leaves what the others carry alone.            *)
LEMMA OthersCarry ==
  ASSUME TypeOK, NEW w \in Worker, Receive(w) \/ Run(w) \/ Crash(w),
         NEW v \in Worker \ {w}
  PROVE  todo'[v] = todo[v] /\ done'[v] = done[v] /\ cur'[v] = cur[v]
<1>1. todo'[v] = todo[v] /\ done'[v] = done[v]
  BY DEF TypeOK, Leave, eventVars, Run, Receive, TakeRecord, MarkProcessing, Dedup, RunSteps,
       PersistItem, PersistChunks, PersistFails, Finish, Commit, Unexpected, Return, Crash
<1> QED
  BY <1>1, OthersUntouched DEF Untouched

(* An invocation only lays records aside or forgets them.                  *)
LEMMA OwnCarried ==
  ASSUME IInv, Handed, NEW w \in Worker, Run(w) \/ Crash(w)
  PROVE  /\ Carried(w)' \subseteq Carried(w) /\ UNCHANGED received
         /\ pc'[w] = "idle" => Carried(w)' = {}
         /\ pc'[w] = "next" => cur'[w] = None
         /\ cur'[w] \notin todo'[w] \cup done'[w] /\ todo'[w] \cap done'[w] = {}
<1> USE NoneIsNoValue
    DEF IInv, TypeOK, Handed, Carried, Goto, Decide, Leave, queueVars, eventVars
<1>1. RecordInHand(w) /\ None \notin Message
  OBVIOUS
<1>2. CASE TakeRecord(w)
  <2>1. PICK m \in todo[w] :
          /\ todo' = [todo EXCEPT ![w] = todo[w] \ {m}]
          /\ \/ UNCHANGED <<pc, cur>>
             \/ pc' = [pc EXCEPT ![w] = "mark"] /\ cur' = [cur EXCEPT ![w] = m]
    BY <1>2 DEF TakeRecord
  <2>2. pc[w] = "next" /\ cur[w] = None /\ m \in Message /\ m \notin done[w]
    BY <1>2, <2>1 DEF TakeRecord
  <2>3. UNCHANGED <<received, done>>
    BY <1>2 DEF TakeRecord
  <2> QED
    BY <1>1, <2>1, <2>2, <2>3
<1>3. CASE MarkProcessing(w) \/ Finish(w)
  BY <1>1, <1>3 DEF MarkProcessing, Finish
<1>4. CASE Dedup(w)
  BY <1>1, <1>4 DEF Dedup
<1>5. CASE RunSteps(w) \/ PersistItem(w)
  BY <1>1, <1>5 DEF RunSteps, PersistItem
<1>6. CASE PersistChunks(w) \/ PersistFails(w)
  BY <1>1, <1>6 DEF PersistChunks, PersistFails
<1>7. CASE Commit(w) \/ Unexpected(w)
  <2>1. /\ pc'[w] = "next" /\ cur'[w] = None /\ todo' = todo /\ received' = received
        /\ done'[w] = done[w] \/ done'[w] = done[w] \cup {cur[w]}
    BY <1>7 DEF Commit, Unexpected
  <2>2. cur[w] \in Message
    BY <1>1, <1>7 DEF RecordInHand, Commit, Unexpected
  <2> QED
    BY <1>1, <2>1, <2>2
<1>8. CASE Return(w) \/ Crash(w)
  BY <1>1, <1>8 DEF Return, Crash
<1> QED
  BY <1>2, <1>3, <1>4, <1>5, <1>6, <1>7, <1>8 DEF Run

LEMMA NextHanded == IInv /\ IInv' /\ Handed /\ [Next]_vars => Handed'
<1> SUFFICES ASSUME IInv, IInv', Handed, [Next]_vars PROVE Handed'
  OBVIOUS
<1>1. ASSUME NEW w \in Worker, Run(w) \/ Crash(w) PROVE Handed'
  <2>1. UNCHANGED received /\ Carried(w)' \subseteq Carried(w)
    BY <1>1, OwnCarried
  <2>2. \A v \in Worker \ {w} :
          pc'[v] = pc[v] /\ cur'[v] = cur[v] /\ todo'[v] = todo[v] /\ done'[v] = done[v]
    BY <1>1, OthersCarry, OthersUntouched DEF Untouched, IInv
  <2>3. \A v \in Worker : Carried(v)' \subseteq Carried(v)
    BY <2>1, <2>2 DEF Carried
  <2>4. ASSUME NEW v \in Worker
        PROVE  /\ pc'[v] = "idle" => Carried(v)' = {}
               /\ pc'[v] = "next" => cur'[v] = None
               /\ cur'[v] \notin todo'[v] \cup done'[v] /\ todo'[v] \cap done'[v] = {}
    <3>1. CASE v = w
      BY <1>1, <3>1, OwnCarried
    <3>2. CASE v # w
      BY <2>2, <3>2 DEF Handed, Carried
    <3> QED
      BY <3>1, <3>2
  <2> QED
    BY <2>1, <2>3, <2>4 DEF Handed
<1>2. ASSUME NEW w \in Worker, Receive(w) PROVE Handed'
  <2>1. PICK batch \in SUBSET Message :
          /\ received' = [m \in Message |-> IF m \in batch THEN received[m] + 1 ELSE received[m]]
          /\ todo' = [todo EXCEPT ![w] = batch]
    BY <1>2 DEF Receive
  <2>2. UNCHANGED <<done, cur>> /\ pc[w] = "idle" /\ pc' = [pc EXCEPT ![w] = "next"]
    BY <1>2 DEF Receive
  <2>3. done[w] = {} /\ cur[w] = None /\ None \notin Message
    BY <2>2, NoneIsNoValue DEF Handed, Carried
  <2>4. Carried(w)' = batch /\ \A v \in Worker \ {w} : Carried(v)' = Carried(v)
    BY <2>1, <2>2, <2>3 DEF Carried, IInv, TypeOK
  <2>5. \A m \in Message :
          /\ received[m] \in Nat /\ received'[m] \in Nat /\ received'[m] >= received[m]
          /\ m \in batch => received'[m] = received[m] + 1
    BY <2>1, Bounds DEF IInv, TypeOK
  <2>6. \A v \in Worker : Carried(v) \subseteq Message
    BY DEF Carried, IInv, TypeOK
  <2>7. ASSUME NEW v \in Worker
        PROVE  /\ pc'[v] = "idle" => Carried(v)' = {}
               /\ pc'[v] = "next" => cur'[v] = None
               /\ cur'[v] \notin todo'[v] \cup done'[v] /\ todo'[v] \cap done'[v] = {}
    <3>1. CASE v = w
      BY <3>1, <2>1, <2>2, <2>3 DEF IInv, TypeOK
    <3>2. CASE v # w
      BY <3>2, <2>1, <2>2, <2>4 DEF Handed, IInv, TypeOK
    <3> QED
      BY <3>1, <3>2
  <2>8. ASSUME NEW v \in Worker, NEW m \in Carried(v)' PROVE received'[m] > 0
    <3>1. CASE v = w
      <4>1. m \in batch /\ m \in Message
        BY <2>4, <2>8, <3>1
      <4> QED
        BY <4>1, <2>5
    <3>2. CASE v # w
      <4>1. m \in Carried(v) /\ m \in Message
        BY <2>4, <2>6, <2>8, <3>2
      <4>2. received[m] > 0
        BY <4>1 DEF Handed
      <4> QED
        BY <4>1, <4>2, <2>5
    <3> QED
      BY <3>1, <3>2
  <2>9. ASSUME NEW u \in Worker, NEW v \in Worker, u # v, NEW m \in Message,
               m \in Carried(u)', m \in Carried(v)'
        PROVE  received'[m] > 1
    <3>1. CASE u # w /\ v # w
      <4>1. m \in Carried(u) /\ m \in Carried(v)
        BY <2>4, <2>9, <3>1
      <4>2. received[m] > 1
        BY <4>1, <2>9 DEF Handed
      <4> QED
        BY <4>2, <2>5
    <3>2. ASSUME NEW x \in Worker \ {w}, m \in batch, m \in Carried(x) PROVE received'[m] > 1
      BY <3>2, <2>5 DEF Handed
    <3> QED
      BY <2>4, <2>9, <3>1, <3>2
  <2> QED
    BY <2>7, <2>8, <2>9 DEF Handed
<1>3. CASE UNCHANGED <<pc, eventVars, received>>
  BY <1>3 DEF Handed, Carried, eventVars
<1>4. ASSUME \/ \E m \in Message : \/ Publish(m) \/ VisibilityTimeout(m) \/ DeadLetter(m)
             \/ \E i \in Item : Ingest(i) \/ ExpireKey(i)
             \/ \E i \in Item, s \in Schema : Recategorise(i, s)
             \/ UNCHANGED vars
      PROVE  UNCHANGED <<pc, eventVars, received>>
  BY <1>4 DEF Publish, VisibilityTimeout, DeadLetter, Ingest, ExpireKey, Recategorise, vars,
       queueVars
<1> QED
  BY <1>1, <1>2, <1>3, <1>4 DEF Next

(* What was handed out once so far was so before the step too.             *)
LEMMA OnceBefore ==
  ASSUME IInv, [Next]_vars, NEW m \in Message, Once(m)'
  PROVE  Once(m)
<1>1. \A n \in Message :
        received[n] \in Nat /\ received'[n] \in Nat /\ received[n] <= received'[n]
  <2>1. CASE UNCHANGED received
    BY <2>1, Bounds DEF IInv, TypeOK
  <2>2. ASSUME NEW w \in Worker, Receive(w)
        PROVE  \A n \in Message :
                 received[n] \in Nat /\ received'[n] \in Nat /\ received[n] <= received'[n]
    <3>1. PICK batch \in SUBSET Message :
            received' = [n \in Message |-> IF n \in batch THEN received[n] + 1 ELSE received[n]]
      BY <2>2 DEF Receive
    <3> QED
      BY <3>1, Bounds DEF IInv, TypeOK
  <2>3. ASSUME NEW w \in Worker, Run(w) \/ Crash(w) PROVE UNCHANGED received
    BY <2>3 DEF queueVars, Run, TakeRecord, MarkProcessing, Dedup, RunSteps, PersistItem,
         PersistChunks, PersistFails, Finish, Commit, Unexpected, Return, Crash
  <2>4. ASSUME \/ \E n \in Message : \/ Publish(n) \/ VisibilityTimeout(n) \/ DeadLetter(n)
               \/ \E i \in Item : Ingest(i) \/ ExpireKey(i)
               \/ \E i \in Item, s \in Schema : Recategorise(i, s)
               \/ UNCHANGED vars
        PROVE  UNCHANGED received
    BY <2>4 DEF Publish, VisibilityTimeout, DeadLetter, Ingest, ExpireKey, Recategorise, vars,
         queueVars
  <2> QED
    BY <2>1, <2>2, <2>3, <2>4 DEF Next
<1> QED
  BY <1>1 DEF Once

(* What is stored or given up stays so.                                    *)
LEMMA KeptStays ==
  ASSUME TypeOK, [Next]_vars
  PROVE  /\ items \subseteq items' /\ discarded \subseteq discarded'
         /\ \A i : Stored(i) => Stored(i)'
         /\ \A m : Kept(m) => Kept(m)'
<1>1. items \subseteq items' /\ discarded \subseteq discarded'
  <2>1. ASSUME NEW w \in Worker, Commit(w)
        PROVE  items \subseteq items' /\ discarded \subseteq discarded'
    BY <2>1 DEF Commit
  <2>2. ASSUME NEW w \in Worker,
               \/ Receive(w) \/ TakeRecord(w) \/ MarkProcessing(w) \/ Dedup(w)
               \/ RunSteps(w) \/ PersistItem(w) \/ PersistChunks(w)
               \/ PersistFails(w) \/ Finish(w) \/ Unexpected(w) \/ Return(w)
               \/ Crash(w)
        PROVE  UNCHANGED <<items, discarded>>
    BY <2>2 DEF dbVars, Receive, TakeRecord, MarkProcessing, Dedup, RunSteps, PersistItem,
         PersistChunks, PersistFails, Finish, Unexpected, Return, Crash
  <2>3. ASSUME \/ \E n \in Message : \/ Publish(n) \/ VisibilityTimeout(n) \/ DeadLetter(n)
               \/ \E i \in Item : Ingest(i) \/ ExpireKey(i)
               \/ \E i \in Item, s \in Schema : Recategorise(i, s)
               \/ UNCHANGED vars
        PROVE  UNCHANGED <<items, discarded>>
    BY <2>3 DEF Publish, VisibilityTimeout, DeadLetter, Ingest, ExpireKey, Recategorise, vars,
         dbVars
  <2> QED
    BY <2>1, <2>2, <2>3 DEF Next, Run
<1> QED
  BY <1>1 DEF Kept, Stored

(* A session that counts its article as stored has flushed it or found it. *)
LEMMA NextStored ==
  ASSUME IInv, [Next]_vars, NEW v \in Worker, StoredIsThere(v)
  PROVE  StoredIsThere(v)'
<1> USE NoneIsNoValue
    DEF IInv, TypeOK, StoredIsThere, ItemAt, Goto, Decide, Leave, eventVars, Outcome
<1>1. \A i : Stored(i) => Stored(i)'
  BY KeptStays
<1>2. CASE Untouched(v)
  BY <1>1, <1>2 DEF Untouched
<1>3. CASE Receive(v) \/ TakeRecord(v) \/ MarkProcessing(v)
  BY <1>3 DEF Receive, TakeRecord, MarkProcessing
<1>4. CASE Dedup(v) \/ RunSteps(v)
  BY <1>4 DEF Dedup, RunSteps
<1>5. CASE PersistItem(v)
  <2>1. /\ cur' = cur
        /\ \/ result'[v] = "failed"
           \/ <<ItemAt(v), target[v]>> \in items
           \/ pc'[v] = "embed"
    BY <1>5 DEF PersistItem
  <2>2. target[v] \in Schema
    BY <1>5 DEF PersistItem, SessionWrites
  <2> QED
    BY <1>1, <2>1, <2>2 DEF Stored
<1>6. CASE PersistChunks(v)
  <2>1. tx[v].item # None /\ tx[v] \in Session
    BY <1>6 DEF PersistChunks, SessionWrites
  <2>2. tx'[v].item = tx[v].item
    BY <1>6, <2>1 DEF PersistChunks, Session
  <2> QED
    BY <2>1, <2>2
<1>7. CASE PersistFails(v)
  BY <1>7 DEF PersistFails
<1>8. CASE Finish(v)
  <2>1. tx'[v].item = tx[v].item
    BY <1>8 DEF Finish, WriteRow, Session
  <2>2. cur' = cur /\ result' = result /\ pc[v] = "finish"
    BY <1>8 DEF Finish
  <2> QED
    BY <1>1, <2>1, <2>2
<1>9. CASE Commit(v) \/ Unexpected(v) \/ Return(v) \/ Crash(v)
  BY <1>9 DEF Commit, Unexpected, Return, Crash
<1>10. CASE ~ \E w \in Worker : Receive(w) \/ Run(w) \/ Crash(w)
  <2>1. Untouched(v)
    BY <1>10 DEF Next, Publish, VisibilityTimeout, DeadLetter, Ingest, ExpireKey, Recategorise,
         vars, Untouched
  <2> QED
    BY <1>2, <2>1
<1> QED
  BY <1>2, <1>3, <1>4, <1>5, <1>6, <1>7, <1>8, <1>9, <1>10, OthersUntouched DEF Run

(* The record in hand is of an article that was delivered.                 *)
LEMMA OnlyRecord ==
  ASSUME IInv, Handed, NEW m \in Message, Once(m), NEW w \in Worker,
         cur[w] \in Message, ItemAt(w) = ItemOf[m]
  PROVE  /\ cur[w] = m /\ received[m] = 1 /\ m \notin todo[w]
         /\ \A v \in Worker \ {w} : m \notin todo[v] /\ cur[v] # m
<1>1. received[cur[w]] > 0 /\ cur[w] \notin todo[w]
  BY NoneIsNoValue DEF Handed, Carried
<1>2. cur[w] = m
  BY <1>1 DEF Once, ItemAt
<1>3. received[m] \in Nat /\ received[m] <= 1
  BY Bounds DEF IInv, TypeOK, Once
<1>4. ASSUME NEW v \in Worker \ {w}, m \in Carried(v) PROVE FALSE
  <2>1. m \in Carried(w)
    BY <1>2, NoneIsNoValue DEF Carried
  <2> QED
    BY <1>3, <1>4, <2>1 DEF Handed
<1> QED
  BY <1>1, <1>2, <1>3, <1>4, NoneIsNoValue DEF Carried

(* The steps of other records than that of m, and of the world, that leave *)
(* what the first delivery of m is about.                                  *)
LEMMA FirstDeliveryFrame ==
  ASSUME NEW m \in Message, Once(m), FirstDelivery(m), Kept(m) => Kept(m)',
         received'[m] = received[m],
         ItemOf[m] \in reserved' => ItemOf[m] \in reserved,
         delivery'[m] = "deleted" => delivery[m] = "deleted" \/ Kept(m)',
         \A v \in Worker :
           /\ m \in todo'[v] => m \in todo[v]
           /\ m \in done'[v] => m \in done[v] \/ Kept(m)'
           /\ cur'[v] = m /\ pc'[v] \in {"mark", "dedup"} =>
                \/ cur[v] = m /\ pc[v] \in {"mark", "dedup"}
                \/ m \in todo[v]
           /\ cur'[v] = m /\ pc'[v] \in {"finish", "commit"} =>
                \/ result'[v] # "duplicate"
                \/ cur[v] = m /\ pc[v] \in {"finish", "commit"} /\ result'[v] = result[v]
  PROVE  FirstDelivery(m)'
BY DEF FirstDelivery

(* The record whose commit is acknowledged is stored or given up.          *)
LEMMA CommitKeeps ==
  ASSUME IInv, NEW w \in Worker, Commit(w), StoredIsThere(w), NEW m \in Message, cur[w] = m,
         FirstDelivery(m), result[w] # "failed"
  PROVE  Kept(m)'
<1>1. ItemAt(w) = ItemOf[m] /\ result[w] \in Outcome /\ result[w] # "duplicate"
  BY DEF IInv, RecordInHand, Commit, FirstDelivery, ItemAt
<1>2. CASE result[w] = "discarded"
  BY <1>1, <1>2 DEF Commit, Kept
<1>3. CASE result[w] = "stored"
  <2>1. CASE Stored(ItemAt(w))
    BY <1>1, <2>1 DEF Commit, Kept, Stored
  <2>2. CASE tx[w].item # None
    <3>1. tx[w].item \in Schema
      BY <2>2 DEF IInv, TypeOK, Session
    <3>2. <<ItemAt(w), tx[w].item>> \in items'
      BY <2>2 DEF Commit
    <3> QED
      BY <1>1, <3>1, <3>2 DEF Kept, Stored
  <2> QED
    BY <1>3, <2>1, <2>2 DEF StoredIsThere, Commit
<1> QED
  BY <1>1, <1>2, <1>3 DEF Outcome

LEMMA NextFirstDelivery ==
  ASSUME DeliveryInv, IInv, [Next]_vars, NEW m \in Message, Once(m)'
  PROVE  FirstDelivery(m)'
<1>1. Once(m) /\ FirstDelivery(m)
  BY OnceBefore DEF DeliveryInv
<1>2. Kept(m) => Kept(m)'
  BY KeptStays DEF IInv
<1> USE NoneIsNoValue DEF Goto, Decide, Leave, queueVars, eventVars
<1>3. ASSUME NEW w \in Worker, Receive(w) PROVE FirstDelivery(m)'
  <2>1. PICK batch \in SUBSET Message :
          /\ \A n \in batch : delivery[n] = "visible"
          /\ delivery' = [n \in Message |-> IF n \in batch THEN "inflight" ELSE delivery[n]]
          /\ received' = [n \in Message |-> IF n \in batch THEN received[n] + 1 ELSE received[n]]
          /\ todo' = [todo EXCEPT ![w] = batch]
    BY <1>3 DEF Receive
  <2>2. UNCHANGED <<reserved, done, cur, result>> /\ pc' = [pc EXCEPT ![w] = "next"]
    BY <1>3 DEF Receive
  <2>3. received[m] \in Nat /\ pc \in [Worker -> Stage] /\ todo \in [Worker -> SUBSET Message]
    BY Bounds DEF IInv, TypeOK
  <2>4. CASE m \notin batch
    <3>1. delivery'[m] = delivery[m] /\ received'[m] = received[m]
      BY <2>1, <2>4
    <3>2. \A v \in Worker :
            /\ m \in todo'[v] => m \in todo[v]
            /\ pc'[v] \in {"mark", "dedup", "finish", "commit"} => pc'[v] = pc[v]
      BY <2>1, <2>2, <2>3, <2>4
    <3> QED
      BY <1>1, <1>2, <2>2, <3>1, <3>2, FirstDeliveryFrame
  <2>5. CASE m \in batch
    <3>1. received[m] = 0
      BY <2>1, <2>3, <2>5 DEF Once
    <3>2. \A v \in Worker : m \notin Carried(v)
      BY <3>1 DEF DeliveryInv, Handed
    <3>3. ItemOf[m] \notin reserved /\ delivery'[m] = "inflight"
      BY <1>1, <2>1, <2>5, <3>1 DEF FirstDelivery
    <3> QED
      BY <2>2, <3>2, <3>3 DEF FirstDelivery, Carried
  <2> QED
    BY <2>4, <2>5
<1>4. ASSUME NEW w \in Worker, Run(w) \/ Crash(w),
             ItemOf[m] \in reserved' => ItemOf[m] \in reserved,
             delivery'[m] = "deleted" => delivery[m] = "deleted" \/ Kept(m)',
             m \in todo'[w] => m \in todo[w],
             m \in done'[w] => m \in done[w] \/ Kept(m)',
             cur'[w] = m /\ pc'[w] \in {"mark", "dedup"} =>
               \/ cur[w] = m /\ pc[w] \in {"mark", "dedup"}
               \/ m \in todo[w],
             cur'[w] = m /\ pc'[w] \in {"finish", "commit"} =>
               \/ result'[w] # "duplicate"
               \/ cur[w] = m /\ pc[w] \in {"finish", "commit"} /\ result'[w] = result[w]
      PROVE  FirstDelivery(m)'
  <2>1. received' = received
    BY <1>4, OwnCarried DEF DeliveryInv
  <2>2. ASSUME NEW v \in Worker \ {w}
        PROVE  /\ todo'[v] = todo[v] /\ done'[v] = done[v] /\ cur'[v] = cur[v]
               /\ pc'[v] = pc[v] /\ result'[v] = result[v]
    BY <1>4, OthersCarry, OthersUntouched DEF Untouched, IInv
  <2> QED
    BY <1>1, <1>2, <1>4, <2>1, <2>2, FirstDeliveryFrame
<1>5. ASSUME NEW w \in Worker, TakeRecord(w) PROVE FirstDelivery(m)'
  <2>1. PICK n \in todo[w] :
          /\ todo' = [todo EXCEPT ![w] = todo[w] \ {n}]
          /\ \/ UNCHANGED <<pc, cur>>
             \/ pc' = [pc EXCEPT ![w] = "mark"] /\ cur' = [cur EXCEPT ![w] = n]
    BY <1>5 DEF TakeRecord
  <2>2. UNCHANGED <<delivery, reserved, done, result>> /\ pc[w] = "next"
    BY <1>5 DEF TakeRecord
  <2>3. todo \in [Worker -> SUBSET Message] /\ pc \in [Worker -> Stage]
        /\ cur \in [Worker -> Message \cup {None}]
    BY DEF IInv, TypeOK
  <2> QED
    BY <1>4, <1>5, <2>1, <2>2, <2>3 DEF Run
<1>6. ASSUME NEW w \in Worker, Dedup(w) PROVE FirstDelivery(m)'
  <2>1. /\ pc[w] = "dedup" /\ cur[w] \in Message
        /\ UNCHANGED <<delivery, received, todo, done, cur>>
        /\ reserved' \subseteq reserved \cup {ItemAt(w)}
        /\ pc'[w] \in {"steps", "finish"}
        /\ result'[w] = "duplicate" /\ pc'[w] = "finish" => ItemAt(w) \in reserved
    BY <1>6 DEF Dedup, IInv, TypeOK, RecordInHand
  <2>2. CASE ItemAt(w) = ItemOf[m]
    <3>1. /\ cur[w] = m /\ received[m] = 1 /\ m \notin todo[w]
          /\ \A v \in Worker \ {w} : m \notin todo[v] /\ cur[v] # m
      BY <1>1, <2>1, <2>2, OnlyRecord DEF DeliveryInv
    <3>2. ItemAt(w) \notin reserved
      BY <1>1, <2>1, <2>2, <3>1 DEF FirstDelivery
    <3> QED
      BY <1>1, <1>2, <2>1, <3>1, <3>2 DEF FirstDelivery
  <2>3. CASE ItemAt(w) # ItemOf[m]
    BY <1>4, <1>6, <2>1, <2>3 DEF Run, ItemAt
  <2> QED
    BY <2>2, <2>3
<1>7. ASSUME NEW w \in Worker,
             \/ MarkProcessing(w) \/ RunSteps(w) \/ PersistItem(w) \/ PersistChunks(w)
             \/ PersistFails(w) \/ Finish(w)
      PROVE  FirstDelivery(m)'
  <2>1. UNCHANGED <<delivery, reserved, todo, done, cur>>
    BY <1>7 DEF MarkProcessing, RunSteps, PersistItem, PersistChunks, PersistFails, Finish
  <2>2. pc \in [Worker -> Stage] /\ result \in [Worker -> Outcome \cup {None}]
    BY DEF IInv, TypeOK
  <2>3. \/ pc[w] = "mark" /\ pc'[w] = "dedup"
        \/ pc'[w] \in {"persist", "embed"}
        \/ pc'[w] = "finish" /\ result'[w] \in {"discarded", "failed", "stored"}
        \/ pc[w] = "finish" /\ pc'[w] = "commit" /\ result' = result
    BY <1>7, <2>2 DEF MarkProcessing, RunSteps, PersistItem, PersistChunks, PersistFails, Finish
  <2> QED
    BY <1>4, <1>7, <2>1, <2>3 DEF Run
<1>8. ASSUME NEW w \in Worker, Commit(w) \/ Unexpected(w) PROVE FirstDelivery(m)'
  <2>1. /\ UNCHANGED <<delivery, reserved, todo>>
        /\ pc'[w] = "next"
        /\ \/ done'[w] = done[w]
           \/ Commit(w) /\ result[w] # "failed" /\ done'[w] = done[w] \cup {cur[w]}
    BY <1>8 DEF Commit, Unexpected, IInv, TypeOK
  <2>2. Commit(w) /\ result[w] # "failed" /\ cur[w] = m => Kept(m)'
    BY <1>1, CommitKeeps DEF DeliveryInv
  <2> QED
    BY <1>4, <1>8, <2>1, <2>2 DEF Run
<1>9. ASSUME NEW w \in Worker, Return(w) \/ Crash(w) PROVE FirstDelivery(m)'
  <2>1. /\ reserved' = reserved /\ todo'[w] \subseteq todo[w] /\ done'[w] = {} /\ pc'[w] = "idle"
        /\ delivery'[m] = delivery[m] \/ m \in done[w]
    BY <1>9 DEF Return, Crash, IInv, TypeOK
  <2>2. m \in done[w] => Kept(m)'
    BY <1>1, <1>2 DEF FirstDelivery
  <2> QED
    BY <1>4, <1>9, <2>1, <2>2 DEF Run
<1>10. ASSUME \/ \E n \in Message : \/ Publish(n) \/ VisibilityTimeout(n) \/ DeadLetter(n)
              \/ \E i \in Item : Ingest(i) \/ ExpireKey(i)
              \/ \E i \in Item, s \in Schema : Recategorise(i, s)
              \/ UNCHANGED vars
       PROVE  FirstDelivery(m)'
  <2>1. /\ UNCHANGED <<received, todo, done, cur, pc, result>> /\ reserved' \subseteq reserved
        /\ delivery'[m] = "deleted" => delivery[m] = "deleted"
    BY <1>10 DEF Publish, VisibilityTimeout, DeadLetter, Ingest, ExpireKey, Recategorise, vars,
         IInv, TypeOK
  <2> QED
    BY <1>1, <1>2, <2>1, FirstDeliveryFrame
<1> QED
  BY <1>3, <1>5, <1>6, <1>7, <1>8, <1>9, <1>10 DEF Next, Run

(* An article that SQS delivers once is not lost, however its invocation   *)
(* ends: what acknowledges it has stored it or given it up on its merits.  *)
THEOREM DeliveredOnceIsKept == Spec => []SingleDeliveryNeverLoses
<1>1. Init => DeliveryInv
  BY NoneIsNoValue DEF Init, DeliveryInv, Handed, Carried, FirstDelivery, StoredIsThere
<1>2. IInv /\ IInv' /\ DeliveryInv /\ [Next]_vars => DeliveryInv'
  <2> SUFFICES ASSUME IInv, IInv', DeliveryInv, [Next]_vars PROVE DeliveryInv'
    OBVIOUS
  <2>1. Handed'
    BY NextHanded DEF DeliveryInv
  <2>2. \A m \in Message : Once(m)' => FirstDelivery(m)'
    BY NextFirstDelivery
  <2>3. \A v \in Worker : StoredIsThere(v)'
    BY NextStored DEF DeliveryInv
  <2> QED
    BY <2>1, <2>2, <2>3 DEF DeliveryInv
<1>3. DeliveryInv => SingleDeliveryNeverLoses
  BY DEF DeliveryInv, FirstDelivery, SingleDeliveryNeverLoses, Once, Kept
<1> QED
  BY <1>1, <1>2, <1>3, Inductive, PTL DEF Spec

(* The processor implements the article store.                             *)
THEOREM StoreImplemented == Spec => StoreSpec
<1>1. Init => Store!Init
  BY DEF Init, Store!Init
<1>2. IInv /\ [Next]_vars => [Store!Next]_(Store!vars)
  <2> SUFFICES ASSUME IInv, [Next]_vars PROVE [Store!Next]_(Store!vars)
    OBVIOUS
  <2> USE DEF Store!vars, Store!Next, IInv, TypeOK, ChunksWithItems
  <2>1. ASSUME NEW i \in Item, Ingest(i) PROVE Store!Next
    BY <2>1 DEF Ingest, Store!Ingest
  <2>2. ASSUME NEW w \in Worker, Commit(w) PROVE [Store!Next]_(Store!vars)
    <3>1. CASE UNCHANGED dbVars
      BY <3>1 DEF dbVars
    <3>2. CASE /\ row[ItemAt(w)] # "ABSENT"
               /\ UNCHANGED <<items, chunks>>
               /\ \E outcome \in {"PROCESSED", "FAILED"} :
                    row' = [row EXCEPT ![ItemAt(w)] = outcome]
      BY <3>2, <2>2, CommitShows DEF Store!Settle
    <3>3. ASSUME row[ItemAt(w)] # "ABSENT",
                 row' = [row EXCEPT ![ItemAt(w)] = "PROCESSED"],
                 NEW s \in Schema, items' = items \cup {<<ItemAt(w), s>>},
                 chunks' = chunks \cup {<<ItemAt(w), s>>}
          PROVE  Store!Next
      <4>1. ItemAt(w) \in Item
        BY <2>2, CommitShows
      <4>2. CASE <<ItemAt(w), s>> \in items
        BY <3>3, <4>1, <4>2 DEF Store!Settle
      <4>3. CASE <<ItemAt(w), s>> \notin items
        <5>1. items' \cap chunks' = (items \cap chunks) \cup {<<ItemAt(w), s>>}
          BY <3>3
        <5>2. <<ItemAt(w), s>> \notin items \cap chunks
          BY <4>3
        <5>3. Store!Store(ItemAt(w), s)
          BY <3>3, <5>1, <5>2 DEF Store!Store
        <5> QED
          BY <5>3, <4>1
      <4> QED
        BY <4>2, <4>3
    <3> QED
      BY <2>2, <3>1, <3>2, <3>3, CommitShows
  <2>3. CASE UNCHANGED dbVars
    BY <2>3 DEF dbVars
  <2> QED
    BY <2>1, <2>2, <2>3, OnlyCommitsShow
<1> QED
  BY <1>1, <1>2, Inductive, PTL DEF Spec, StoreSpec, Store!Spec
=============================================================================
