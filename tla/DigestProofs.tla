---------------------------- MODULE DigestProofs ----------------------------
(***************************************************************************)
(* Theorems about DigestGeneration, for any number of calls and            *)
(* recipients.  All of them rest on the inductive invariant IInv, which    *)
(* holds however the sessions overlap; that the digest of a period is a    *)
(* DigestBoard needs sessions that do not.                                 *)
(***************************************************************************)
EXTENDS DigestGeneration, TLAPS

(* Whatever a session can do.                                              *)
Step(s) == Begin(s) \/ Run(s) \/ Abort(s)

(* A call has one task, and it is not its request.                         *)
LEMMA Tasks ==
  /\ \A s \in Session : TaskOf(s) \in Session /\ IsTask(TaskOf(s))
  /\ \A s, r \in Session :
       ~IsTask(s) /\ ~IsTask(r) /\ TaskOf(s) = TaskOf(r) => s = r
<1>1. ASSUME NEW s \in Session PROVE TaskOf(s) \in Session /\ IsTask(TaskOf(s))
  BY DEF Session, TaskOf, IsTask
<1>2. ASSUME NEW s \in Session, NEW r \in Session,
             ~IsTask(s), ~IsTask(r), TaskOf(s) = TaskOf(r)
      PROVE  s = r
  <2>1. s[1] = r[1] /\ s[2] = "request" /\ r[2] = "request"
    BY <1>2 DEF Session, TaskOf, IsTask
  <2>2. s = <<s[1], s[2]>> /\ r = <<r[1], r[2]>>
    BY DEF Session
  <2> QED
    BY <2>1, <2>2
<1> QED
  BY <1>1, <1>2

(* A session without writes has no log rows and makes nothing READY.       *)
LEMMA NoWritesFacts == NoWrites.logs = {} /\ NoWrites.status # "READY"
BY NoneIsNoValue DEF NoWrites, Status

(* The initial states satisfy the inductive invariant.                     *)
LEMMA InitIInv == Init => IInv
<1> SUFFICES ASSUME Init PROVE IInv
  OBVIOUS
<1> USE NoneIsNoValue
<1>1. NoWrites \in Writes
  BY DEF NoWrites, Writes
<1>2. TypeOK
  BY <1>1 DEF Init, TypeOK, Stage, Running, Ended
<1>3. LocksAreHeld
  BY DEF Init, LocksAreHeld
<1>4. ASSUME NEW s \in Session
      PROVE  ScheduledOnce(s) /\ SessionObjects(s)
  BY Tasks DEF Init, ScheduledOnce, SessionObjects, Open, Running
<1>5. ASSUME NEW s \in Session
      PROVE  NotifiesUnderLock(s) /\ TriedIsLogged(s) /\ PublishesItsSections(s)
  <2>1. tx[s].logs = {} /\ tx[s].status # "READY"
    BY NoWritesFacts DEF Init
  <2> QED
    BY <2>1 DEF Init, NotifiesUnderLock, TriedIsLogged, PublishesItsSections
<1>6. AtMostOnceNotified
  BY DEF Init, AtMostOnceNotified
<1> QED
  BY <1>2, <1>3, <1>4, <1>5, <1>6 DEF IInv

(* Writing one field of an uncommitted session leaves it well typed.       *)
LEMMA WritesUpdate ==
  ASSUME NEW s \in Session, tx \in [Session -> Writes],
         \/ \E new \in Status : tx' = [tx EXCEPT ![s].status = new]
         \/ \E gone \in SUBSET Session : tx' = [tx EXCEPT ![s].removed = gone]
         \/ tx' = [tx EXCEPT ![s].added = TRUE]
         \/ \E u \in Recipient :
              tx' = [tx EXCEPT ![s].logs = tx[s].logs \cup {u}]
         \/ UNCHANGED tx
  PROVE  /\ tx' \in [Session -> Writes]
         /\ \A r \in Session \ {s} : tx'[r] = tx[r]
<1>0. tx[s] \in Writes
  OBVIOUS
<1>1. ASSUME NEW new \in Status, tx' = [tx EXCEPT ![s].status = new]
      PROVE  tx' \in [Session -> Writes] /\ \A r \in Session \ {s} : tx'[r] = tx[r]
  <2>1. [tx[s] EXCEPT !.status = new] \in Writes
    BY <1>0 DEF Writes
  <2>2. tx' = [tx EXCEPT ![s] = [tx[s] EXCEPT !.status = new]]
    BY <1>1, Zenon
  <2> QED
    BY <2>1, <2>2
<1>2. ASSUME NEW gone \in SUBSET Session, tx' = [tx EXCEPT ![s].removed = gone]
      PROVE  tx' \in [Session -> Writes] /\ \A r \in Session \ {s} : tx'[r] = tx[r]
  <2>1. [tx[s] EXCEPT !.removed = gone] \in Writes
    BY <1>0 DEF Writes
  <2>2. tx' = [tx EXCEPT ![s] = [tx[s] EXCEPT !.removed = gone]]
    BY <1>2, Zenon
  <2> QED
    BY <2>1, <2>2
<1>3. ASSUME tx' = [tx EXCEPT ![s].added = TRUE]
      PROVE  tx' \in [Session -> Writes] /\ \A r \in Session \ {s} : tx'[r] = tx[r]
  <2>1. [tx[s] EXCEPT !.added = TRUE] \in Writes
    BY <1>0 DEF Writes
  <2>2. tx' = [tx EXCEPT ![s] = [tx[s] EXCEPT !.added = TRUE]]
    BY <1>3, Zenon
  <2> QED
    BY <2>1, <2>2
<1>4. ASSUME NEW u \in Recipient,
             tx' = [tx EXCEPT ![s].logs = tx[s].logs \cup {u}]
      PROVE  tx' \in [Session -> Writes] /\ \A r \in Session \ {s} : tx'[r] = tx[r]
  <2>1. tx[s].logs \cup {u} \in SUBSET Recipient
    BY <1>0 DEF Writes
  <2>2. [tx[s] EXCEPT !.logs = tx[s].logs \cup {u}] \in Writes
    BY <1>0, <2>1 DEF Writes
  <2>3. tx' = [tx EXCEPT ![s] = [tx[s] EXCEPT !.logs = tx[s].logs \cup {u}]]
    BY <1>4, Zenon
  <2> QED
    BY <2>2, <2>3
<1> QED
  BY <1>1, <1>2, <1>3, <1>4

(* The step of a session is one of its actions.                            *)
LEMMA Steps ==
  ASSUME [Next]_vars
  PROVE  UNCHANGED vars \/ \E s \in Session : Step(s)
BY DEF Next, Step

(* Every step keeps the variables in their types.                          *)
LEMMA NextTypeOK ==
  ASSUME IInv, NEW s \in Session, Step(s)
  PROVE  TypeOK'
<1> USE NoneIsNoValue DEF Goto, dbVars, ormVars
<1>0. TypeOK /\ (digest[s] # None => digest[s] \in Session)
  BY DEF IInv, TypeOK
<1>1. \A x \in Running \cup Ended \cup {"idle", "scheduled"} : x \in Stage
  BY DEF Stage
<1>2. ASSUME NEW end \in Ended, Close(s, end),
             status' \in [Session -> Status \cup {"ABSENT"}],
             sections' \in [Session -> SUBSET Session],
             logs' \in SUBSET (Session \X Recipient)
      PROVE  TypeOK'
  <2>1. NoWrites \in Writes
    BY DEF NoWrites, Writes
  <2> QED
    BY <1>0, <1>2, <2>1 DEF TypeOK, Close, Stage
<1>3. ASSUME NEW end \in Ended, Rollback(s, end) PROVE TypeOK'
  BY <1>0, <1>2, <1>3 DEF Rollback, TypeOK
<1>4. ASSUME NEW new \in Status, UpdateRow(s, new), UNCHANGED <<dbVars, digest,
             target, tried>>, pc' \in [Session -> Stage]
      PROVE  TypeOK'
  <2>1. tx' \in [Session -> Writes]
    BY <1>0, <1>4, WritesUpdate DEF UpdateRow, TypeOK
  <2> QED
    BY <1>0, <1>4, <2>1 DEF UpdateRow, TypeOK
<1>5. CASE Begin(s)
  BY <1>0, <1>5 DEF Begin, TypeOK, Stage, Running
<1>6. CASE Create(s)
  <2>1. "GENERATING" \in Status
    BY DEF Status
  <2>2. tx' \in [Session -> Writes]
    BY <1>0, <1>6, <2>1, WritesUpdate DEF Create, TypeOK
  <2>3. pc' \in [Session -> Stage]
    BY <1>0, <1>6 DEF Create, WithDigest, TypeOK, Stage, Running
  <2> QED
    BY <1>0, <1>6, <2>1, <2>2, <2>3 DEF Create, TypeOK
<1>7. CASE Load(s)
  <2>1. PICK d \in Session : /\ Exists(d)
                             /\ digest' = [digest EXCEPT ![s] = d]
                             /\ loaded' = [loaded EXCEPT ![s] = status[d]]
    BY <1>7 DEF Load
  <2>2. status[d] \in Status
    BY <1>0, <2>1 DEF TypeOK, Exists
  <2>3. pc' \in [Session -> Stage]
    BY <1>0, <1>7 DEF Load, TypeOK, Stage, Running
  <2> QED
    BY <1>0, <1>7, <2>1, <2>2, <2>3 DEF Load, TypeOK
<1>8. CASE FindRaises(s) \/ Raise(s) \/ Abort(s)
  BY <1>8, <1>3 DEF FindRaises, Raise, Abort, Ended
<1>9. CASE DeleteStarts(s)
  <2>1. digest[s] \in Session => sections[digest[s]] \in SUBSET Session
    BY <1>0 DEF TypeOK
  <2>2. digest[s] \in Session
    BY <1>9, <1>0 DEF IInv, SessionObjects, DeleteStarts, Open, Running
  <2> QED
    BY <1>0, <1>9, <2>1, <2>2 DEF DeleteStarts, TypeOK, Stage, Running
<1>10. CASE DeleteEnds(s)
  <2>1. target[s] \cap sections[digest[s]] \in SUBSET Session
    BY <1>0 DEF TypeOK
  <2>2. tx' \in [Session -> Writes]
    BY <1>0, <1>10, <2>1, WritesUpdate DEF DeleteEnds, TypeOK
  <2> QED
    BY <1>0, <1>10, <2>2 DEF DeleteEnds, TypeOK, Stage, Running
<1>11. CASE Reset(s)
  <2>1. pc' \in [Session -> Stage]
    BY <1>0, <1>11 DEF Reset, WithDigest, TypeOK, Stage, Running
  <2>2. CASE UpdateRow(s, "GENERATING")
    BY <1>4, <1>11, <2>1, <2>2 DEF Reset, Status
  <2>3. CASE UNCHANGED <<tx, rowLock, loaded>>
    BY <1>0, <1>11, <2>1, <2>3 DEF Reset, TypeOK
  <2> QED
    BY <1>11, <2>2, <2>3 DEF Reset
<1>12. CASE Schedule(s)
  BY <1>0, <1>12 DEF Schedule, TypeOK, Stage, Running
<1>13. CASE WriteSections(s)
  <2>1. tx' \in [Session -> Writes]
    BY <1>0, <1>13, WritesUpdate DEF WriteSections, TypeOK
  <2> QED
    BY <1>0, <1>13, <2>1 DEF WriteSections, TypeOK, Stage, Running
<1>14. CASE MarkReady(s) \/ HandleFailure(s)
  <2>1. pc' \in [Session -> Stage]
    BY <1>0, <1>14 DEF MarkReady, HandleFailure, TypeOK, Stage, Running
  <2> QED
    BY <1>4, <1>14, <2>1 DEF MarkReady, HandleFailure, Status
<1>15. ASSUME NEW u \in Recipient, Notify(s, u) PROVE TypeOK'
  <2>1. tx' \in [Session -> Writes]
    BY <1>0, <1>15, WritesUpdate DEF Notify, TypeOK
  <2>2. digest[s] \in Session
    BY <1>15, <1>0 DEF IInv, SessionObjects, Notify, Open, Running
  <2>3. tried' \in SUBSET (Session \X Session \X Recipient)
    BY <1>0, <1>15, <2>2 DEF Notify, TypeOK
  <2> QED
    BY <1>0, <1>15, <2>1, <2>3 DEF Notify, TypeOK
<1>16. CASE AllNotified(s) \/ Fails(s)
  BY <1>0, <1>16 DEF AllNotified, Fails, TypeOK, Stage, Running
<1>17. CASE Commit(s)
  <2>1. digest[s] \in Session /\ tx[s] \in Writes
    BY <1>17, <1>0 DEF IInv, SessionObjects, Commit, Open, Running, TypeOK
  <2>2. status' \in [Session -> Status \cup {"ABSENT"}]
    BY <1>0, <1>17, <2>1 DEF Commit, TypeOK, Writes
  <2>3. sections' \in [Session -> SUBSET Session]
    <3>1. (sections[digest[s]] \ tx[s].removed)
            \cup (IF tx[s].added THEN {s} ELSE {}) \in SUBSET Session
      BY <1>0, <2>1 DEF TypeOK
    <3> QED
      BY <1>0, <1>17, <3>1 DEF Commit, TypeOK
  <2>4. logs' \in SUBSET (Session \X Recipient)
    BY <1>0, <1>17, <2>1 DEF Commit, TypeOK, Writes
  <2> QED
    BY <1>2, <1>17, <2>2, <2>3, <2>4 DEF Commit, Ended
<1> QED
  BY <1>5, <1>6, <1>7, <1>8, <1>9, <1>10, <1>11, <1>12, <1>13, <1>14, <1>15,
     <1>16, <1>17 DEF Step, Run

(* A step of one session leaves the writes, the digest and the locks of    *)
(* the others alone; at most it schedules an idle task.                    *)
LEMMA OthersUntouched ==
  ASSUME IInv, NEW s \in Session, Step(s), NEW r \in Session, r # s
  PROVE  /\ tx'[r] = tx[r]
         /\ digest'[r] = digest[r]
         /\ pc'[r] = pc[r] \/ (pc[r] = "idle" /\ pc'[r] = "scheduled")
         /\ \A d \in Session : rowLock'[d] = r <=> rowLock[d] = r
<1> USE NoneIsNoValue DEF TypeOK, Goto, dbVars, ormVars
<1>0. TypeOK
  BY DEF IInv
<1> DEFINE Kept == /\ tx'[r] = tx[r]
                   /\ digest'[r] = digest[r]
                   /\ pc'[r] = pc[r] \/ (pc[r] = "idle" /\ pc'[r] = "scheduled")
                   /\ \A d \in Session : rowLock'[d] = r <=> rowLock[d] = r
<1>1. ASSUME NEW end, Close(s, end) PROVE Kept
  BY <1>0, <1>1 DEF Close
<1>2. ASSUME NEW new \in Status, UpdateRow(s, new), UNCHANGED digest,
             pc'[r] = pc[r], digest[s] \in Session
      PROVE  Kept
  <2>1. tx'[r] = tx[r]
    BY <1>0, <1>2, WritesUpdate DEF UpdateRow
  <2> QED
    BY <1>0, <1>2, <2>1 DEF UpdateRow
<1>3. CASE Begin(s) \/ DeleteStarts(s) \/ AllNotified(s) \/ Fails(s) \/ Load(s)
  BY <1>0, <1>3 DEF Begin, DeleteStarts, AllNotified, Fails, Load
<1>4. CASE FindRaises(s) \/ Raise(s) \/ Abort(s) \/ Commit(s)
  BY <1>1, <1>4 DEF FindRaises, Raise, Abort, Commit, Rollback
<1>5. CASE Create(s)
  <2>1. tx'[r] = tx[r]
    BY <1>0, <1>5, WritesUpdate DEF Create, Status
  <2> QED
    BY <1>0, <1>5, <2>1 DEF Create
<1>6. CASE DeleteEnds(s)
  <2>1. target[s] \cap sections[digest[s]] \in SUBSET Session
    BY <1>0
  <2>2. tx'[r] = tx[r]
    BY <1>0, <1>6, <2>1, WritesUpdate DEF DeleteEnds
  <2> QED
    BY <1>0, <1>6, <2>2 DEF DeleteEnds
<1>7. CASE WriteSections(s)
  <2>1. tx'[r] = tx[r]
    BY <1>0, <1>7, WritesUpdate DEF WriteSections
  <2> QED
    BY <1>0, <1>7, <2>1 DEF WriteSections
<1>8. ASSUME NEW u \in Recipient, Notify(s, u) PROVE Kept
  <2>1. tx'[r] = tx[r]
    BY <1>0, <1>8, WritesUpdate DEF Notify
  <2> QED
    BY <1>0, <1>8, <2>1 DEF Notify
<1>9. CASE Reset(s) \/ MarkReady(s) \/ HandleFailure(s)
  <2>1. digest[s] \in Session
    BY <1>0, <1>9 DEF IInv, SessionObjects, Reset, MarkReady, HandleFailure,
       Open, Running
  <2>2. pc'[r] = pc[r] /\ UNCHANGED digest
    BY <1>0, <1>9 DEF Reset, MarkReady, HandleFailure
  <2>3. \/ \E new \in Status : UpdateRow(s, new)
        \/ UNCHANGED <<tx, rowLock, loaded>>
    BY <1>9 DEF Reset, MarkReady, HandleFailure, Status
  <2> QED
    BY <1>2, <2>1, <2>2, <2>3
<1>10. CASE Schedule(s)
  <2>1. ~IsTask(s) /\ pc[TaskOf(s)] = "idle"
    BY <1>10 DEF IInv, ScheduledOnce, Schedule
  <2>2. pc'[r] = IF r = TaskOf(s) THEN "scheduled" ELSE pc[r]
    BY <1>0, <1>10 DEF Schedule
  <2> QED
    BY <1>10, <2>1, <2>2 DEF Schedule
<1> QED
  BY <1>3, <1>4, <1>5, <1>6, <1>7, <1>8, <1>9, <1>10 DEF Step, Run

(* Only a commit writes the tables, and only a notification tries anyone.  *)
LEMMA WhoWrites ==
  ASSUME NEW s \in Session, Step(s)
  PROVE  /\ Commit(s) \/ UNCHANGED dbVars
         /\ (\E u \in Recipient : Notify(s, u)) \/ UNCHANGED tried
BY DEF Step, Run, Begin, Create, Load, FindRaises, DeleteStarts, DeleteEnds,
   Reset, Schedule, WriteSections, MarkReady, AllNotified, Fails,
   HandleFailure, Raise, Abort, Rollback, Close, Commit, Notify

(* What the step of a session does to its own objects: it closes, it takes *)
(* up a digest, or it keeps the one it has.                                *)
LEMMA OwnObjects ==
  ASSUME IInv, NEW s \in Session, Step(s)
  PROVE  \/ /\ pc'[s] \in Ended \cup {"find"}
            /\ digest'[s] = None /\ tx'[s] = NoWrites
            /\ \A d \in Session : rowLock'[d] # s
         \/ /\ pc[s] = "find"
            /\ pc'[s] \in {"write", "schedule", "delete"}
            /\ digest'[s] \in Session
            /\ tx'[s].logs = {} /\ tx'[s].status # "READY"
            /\ UNCHANGED rowLock
         \/ /\ pc[s] \in Running \ {"find"}
            /\ pc'[s] \in Running \ {"find"}
            /\ digest'[s] = digest[s]
            /\ \A d \in Session :
                 rowLock'[d] = s => rowLock[d] = s \/ d = digest[s]
            /\ \A d \in Session : rowLock[d] = s => rowLock'[d] = s
<1> USE NoneIsNoValue DEF Goto, dbVars, ormVars, TypeOK
<1>0. TypeOK /\ SessionObjects(s) /\ LocksAreHeld
  BY DEF IInv
<1> DEFINE Closes == /\ pc'[s] \in Ended \cup {"find"}
                     /\ digest'[s] = None /\ tx'[s] = NoWrites
                     /\ \A d \in Session : rowLock'[d] # s
           Keeps == /\ pc[s] \in Running \ {"find"}
                    /\ pc'[s] \in Running \ {"find"}
                    /\ digest'[s] = digest[s]
                    /\ \A d \in Session :
                         rowLock'[d] = s => rowLock[d] = s \/ d = digest[s]
                    /\ \A d \in Session : rowLock[d] = s => rowLock'[d] = s
<1>1. CASE Begin(s)
  <2>1. ~Open(s)
    BY <1>1 DEF Begin, Open, Running
  <2>2. digest[s] = None /\ tx[s] = NoWrites
    BY <1>0, <2>1 DEF SessionObjects
  <2>3. \A d \in Session : rowLock[d] # s
    BY <1>0, <2>1 DEF LocksAreHeld
  <2>4. Closes
    BY <1>0, <1>1, <2>2, <2>3 DEF Begin
  <2> QED
    BY <2>4
<1>2. CASE FindRaises(s) \/ Raise(s) \/ Abort(s) \/ Commit(s)
  <2>1. PICK end \in Ended : Close(s, end)
    BY <1>2 DEF FindRaises, Raise, Abort, Commit, Rollback, Ended
  <2>2. Closes
    BY <1>0, <2>1 DEF Close
  <2> QED
    BY <2>2
<1>3. CASE Create(s) \/ Load(s)
  <2>1. tx[s] = NoWrites
    BY <1>0, <1>3 DEF SessionObjects, Create, Load, Open, Running
  <2>2. tx'[s].logs = {} /\ tx'[s].status # "READY"
    <3>1. CASE Load(s)
      BY <2>1, <3>1, NoWritesFacts DEF Load
    <3>2. CASE Create(s)
      <4>1. tx'[s] = [NoWrites EXCEPT !.status = "GENERATING"]
        BY <1>0, <2>1, <3>2 DEF Create
      <4> QED
        BY <4>1 DEF NoWrites
    <3> QED
      BY <1>3, <3>1, <3>2
  <2>3. digest'[s] \in Session
    BY <1>0, <1>3 DEF Create, Load
  <2>4. pc[s] = "find" /\ pc'[s] \in {"write", "schedule", "delete"}
    BY <1>0, <1>3 DEF Create, Load, WithDigest
  <2> QED
    BY <1>3, <2>2, <2>3, <2>4 DEF Create, Load
<1>4. CASE DeleteStarts(s) \/ DeleteEnds(s) \/ Schedule(s) \/ WriteSections(s)
           \/ AllNotified(s) \/ Fails(s)
           \/ \E u \in Recipient : Notify(s, u)
  <2>1. UNCHANGED rowLock /\ digest'[s] = digest[s]
    BY <1>4 DEF DeleteStarts, DeleteEnds, Schedule, WriteSections, AllNotified,
       Fails, Notify
  <2>2. pc[s] \in Running \ {"find"}
    BY <1>4 DEF DeleteStarts, DeleteEnds, Schedule, WriteSections, AllNotified,
       Fails, Notify, Running
  <2>3. CASE Schedule(s)
    <3>1. TaskOf(s) # s
      BY <2>3, Tasks DEF IInv, ScheduledOnce, Schedule
    <3>2. pc'[s] = "commit"
      BY <1>0, <2>3, <3>1 DEF Schedule
    <3> QED
      BY <2>1, <2>2, <3>2 DEF Running
  <2>4. CASE ~Schedule(s)
    <3>1. pc'[s] \in {"deleting", "reset", "ready", "commit", "failing", "notify"}
      BY <1>0, <1>4, <2>4 DEF DeleteStarts, DeleteEnds, WriteSections,
         AllNotified, Fails, Notify
    <3> QED
      BY <2>1, <2>2, <3>1 DEF Running
  <2> QED
    BY <2>3, <2>4
<1>5. CASE Reset(s) \/ MarkReady(s) \/ HandleFailure(s)
  <2>1. /\ pc[s] \in Running \ {"find"}
        /\ pc'[s] \in Running \ {"find"}
        /\ digest'[s] = digest[s]
    BY <1>0, <1>5 DEF Reset, MarkReady, HandleFailure, WithDigest, Running
  <2>2. \/ \E new \in Status : UpdateRow(s, new)
        \/ UNCHANGED rowLock
    BY <1>5 DEF Reset, MarkReady, HandleFailure, Status
  <2>3. /\ \A d \in Session :
             rowLock'[d] = s => rowLock[d] = s \/ d = digest[s]
        /\ \A d \in Session : rowLock[d] = s => rowLock'[d] = s
    BY <1>0, <2>2 DEF UpdateRow
  <2> QED
    BY <2>1, <2>3
<1> QED
  BY <1>1, <1>2, <1>3, <1>4, <1>5 DEF Step, Run

(* What the step of a session does to its own writes.                      *)
LEMMA OwnWrites ==
  ASSUME IInv, NEW s \in Session, Step(s)
  PROVE  \/ digest'[s] = None /\ tx'[s] = NoWrites
         \/ /\ \/ tx'[s].logs = tx[s].logs
               \/ \E u \in Recipient :
                    Notify(s, u) /\ tx'[s].logs = tx[s].logs \cup {u}
            /\ tx[s].added => tx'[s].added
            /\ \/ tx'[s].status = tx[s].status
               \/ tx'[s].status # "READY"
               \/ MarkReady(s)
<1> USE DEF TypeOK, Goto, dbVars, ormVars
<1>0. TypeOK /\ tx[s] \in Writes
  BY DEF IInv
<1> DEFINE Goal == \/ digest'[s] = None /\ tx'[s] = NoWrites
                   \/ /\ \/ tx'[s].logs = tx[s].logs
                         \/ \E u \in Recipient :
                              /\ Notify(s, u)
                              /\ tx'[s].logs = tx[s].logs \cup {u}
                      /\ tx[s].added => tx'[s].added
                      /\ \/ tx'[s].status = tx[s].status
                         \/ tx'[s].status # "READY"
                         \/ MarkReady(s)
<1>1. ASSUME NEW new \in Status, tx' = [tx EXCEPT ![s].status = new],
             new = "READY" => MarkReady(s)
      PROVE  Goal
  <2>1. tx'[s] = [tx[s] EXCEPT !.status = new]
    BY <1>0, <1>1
  <2>2. tx'[s].logs = tx[s].logs /\ tx'[s].added = tx[s].added
        /\ tx'[s].status = new
    BY <1>0, <2>1 DEF Writes
  <2> QED
    BY <1>1, <2>2
<1>2. CASE UNCHANGED tx
  BY <1>2
<1>3. CASE Begin(s) \/ Load(s) \/ DeleteStarts(s) \/ Schedule(s)
           \/ AllNotified(s) \/ Fails(s)
  BY <1>2, <1>3 DEF Begin, Load, DeleteStarts, Schedule, AllNotified, Fails
<1>4. CASE FindRaises(s) \/ Raise(s) \/ Abort(s) \/ Commit(s)
  BY <1>0, <1>4 DEF FindRaises, Raise, Abort, Commit, Rollback, Close
<1>5. CASE Create(s)
  BY <1>1, <1>5 DEF Create, Status
<1>6. CASE Reset(s) \/ HandleFailure(s)
  BY <1>1, <1>2, <1>6 DEF Reset, HandleFailure, UpdateRow, Status
<1>7. CASE MarkReady(s)
  BY <1>1, <1>7 DEF MarkReady, UpdateRow, Status
<1>8. CASE DeleteEnds(s)
  <2>1. PICK gone : tx'[s] = [tx[s] EXCEPT !.removed = gone]
    BY <1>0, <1>8 DEF DeleteEnds
  <2>2. tx'[s].logs = tx[s].logs /\ tx'[s].added = tx[s].added
        /\ tx'[s].status = tx[s].status
    BY <1>0, <2>1 DEF Writes
  <2> QED
    BY <2>2
<1>9. CASE WriteSections(s)
  <2>1. tx'[s] = [tx[s] EXCEPT !.added = TRUE]
    BY <1>0, <1>9 DEF WriteSections
  <2>2. tx'[s].logs = tx[s].logs /\ tx'[s].added
        /\ tx'[s].status = tx[s].status
    BY <1>0, <2>1 DEF Writes
  <2> QED
    BY <2>2
<1>10. ASSUME NEW u \in Recipient, Notify(s, u) PROVE Goal
  <2>1. tx'[s] = [tx[s] EXCEPT !.logs = @ \cup {u}]
    BY <1>0, <1>10 DEF Notify
  <2>2. tx'[s].logs = tx[s].logs \cup {u} /\ tx'[s].added = tx[s].added
        /\ tx'[s].status = tx[s].status
    BY <1>0, <2>1 DEF Writes
  <2> QED
    BY <1>10, <2>2
<1> QED
  BY <1>3, <1>4, <1>5, <1>6, <1>7, <1>8, <1>9, <1>10 DEF Step, Run

(* Locks stay with open sessions at work on the locked digest.             *)
LEMMA NextLocks ==
  ASSUME IInv, NEW s \in Session, Step(s)
  PROVE  LocksAreHeld'
<1> SUFFICES ASSUME NEW r \in Session, NEW d \in Session, rowLock'[d] = r
             PROVE  pc'[r] \in Running /\ digest'[r] = d
  BY DEF LocksAreHeld, Open
<1>0. LocksAreHeld /\ SessionObjects(s) /\ TypeOK
  BY DEF IInv
<1>1. CASE r = s
  <2>1. pc[s] = "find" => \A e \in Session : rowLock[e] # s
    BY <1>0, NoneIsNoValue DEF LocksAreHeld, SessionObjects
  <2> QED
    BY <1>0, <1>1, <2>1, OwnObjects DEF LocksAreHeld, Open
<1>2. CASE r # s
  <2>1. rowLock[d] = r /\ digest'[r] = digest[r]
        /\ (pc'[r] = pc[r] \/ pc[r] = "idle")
    BY <1>2, OthersUntouched
  <2> QED
    BY <1>0, <2>1 DEF LocksAreHeld, Open, Running
<1> QED
  BY <1>1, <1>2

(* No task is scheduled twice, or before it is to start.                   *)
LEMMA NextScheduled ==
  ASSUME IInv, NEW s \in Session, Step(s), NEW r \in Session
  PROVE  ScheduledOnce(r)'
<1> DEFINE Before == {"idle", "find", "delete", "deleting", "reset", "schedule"}
<1>0. TypeOK /\ \A q \in Session : ScheduledOnce(q)
  BY DEF IInv
<1>1. CASE r = s
  <2>1. pc'[s] \in Before => pc[s] \in Before \cup {"scheduled"}
    BY <1>0 DEF Step, Run, Begin, Create, Load, FindRaises, DeleteStarts,
       DeleteEnds, Reset, Schedule, WriteSections, MarkReady, AllNotified,
       Fails, HandleFailure, Raise, Abort, Rollback, Close, Commit, Notify,
       Goto, WithDigest, TypeOK, Open, Running, Ended
  <2>2. pc'[s] = "schedule" => ~IsTask(s)
    BY <1>0, Tasks DEF Step, Run, Begin, Create, Load, FindRaises, DeleteStarts,
       DeleteEnds, Reset, Schedule, WriteSections, MarkReady, AllNotified,
       Fails, HandleFailure, Raise, Abort, Rollback, Close, Commit, Notify,
       Goto, WithDigest, TypeOK, ScheduledOnce
  <2>3. pc[s] = "scheduled" /\ pc'[s] \in Before => IsTask(s)
    BY <1>0 DEF Step, Run, Begin, Create, Load, FindRaises, DeleteStarts,
       DeleteEnds, Reset, Schedule, WriteSections, MarkReady, AllNotified,
       Fails, HandleFailure, Raise, Abort, Commit, Notify, Open, Running
  <2>4. ASSUME pc'[s] \in Before, ~IsTask(s) PROVE pc'[TaskOf(s)] = "idle"
    <3>1. pc[TaskOf(s)] = "idle" /\ TaskOf(s) # s /\ TaskOf(s) \in Session
      BY <1>0, <2>1, <2>3, <2>4, Tasks DEF ScheduledOnce
    <3>2. ~Schedule(s)
      BY <1>0, <2>4, <3>1 DEF Schedule, TypeOK
    <3>3. pc'[TaskOf(s)] = pc[TaskOf(s)]
      BY <1>0, <3>1, <3>2 DEF Step, Run, Begin, Create, Load, FindRaises,
         DeleteStarts, DeleteEnds, Reset, WriteSections, MarkReady,
         AllNotified, Fails, HandleFailure, Raise, Abort, Rollback, Close,
         Commit, Notify, Goto, TypeOK
    <3> QED
      BY <3>1, <3>3
  <2> QED
    BY <1>1, <2>2, <2>4 DEF ScheduledOnce
<1>2. CASE r # s
  <2>1. pc'[r] = pc[r] \/ (pc[r] = "idle" /\ pc'[r] = "scheduled")
    BY <1>2, OthersUntouched
  <2>2. pc'[r] = "schedule" => ~IsTask(r)
    BY <1>0, <2>1 DEF ScheduledOnce
  <2>3. ASSUME pc'[r] \in Before, ~IsTask(r) PROVE pc'[TaskOf(r)] = "idle"
    <3>1. pc[TaskOf(r)] = "idle" /\ TaskOf(r) \in Session /\ IsTask(TaskOf(r))
      BY <1>0, <2>1, <2>3, Tasks DEF ScheduledOnce
    <3>2. TaskOf(r) # s
      BY <3>1 DEF Step, Run, Begin, Create, Load, FindRaises,
         DeleteStarts, DeleteEnds, Reset, Schedule, WriteSections, MarkReady,
         AllNotified, Fails, HandleFailure, Raise, Abort, Commit, Notify, Open,
         Running
    <3>3. ASSUME pc'[TaskOf(r)] = "scheduled" PROVE FALSE
      <4>1. Schedule(s)
        BY <1>0, <3>1, <3>2, <3>3 DEF Step, Run, Begin, Create, Load,
           FindRaises, DeleteStarts, DeleteEnds, Reset, WriteSections,
           MarkReady, AllNotified, Fails, HandleFailure, Raise, Abort,
           Rollback, Close, Commit, Notify, Goto, TypeOK
      <4>2. TaskOf(r) = TaskOf(s) /\ ~IsTask(s)
        BY <1>0, <3>1, <3>2, <3>3, <4>1 DEF Schedule, ScheduledOnce, TypeOK
      <4> QED
        BY <1>2, <2>3, <4>2, Tasks
    <3> QED
      BY <3>1, <3>2, <3>3, OthersUntouched
  <2> QED
    BY <2>2, <2>3 DEF ScheduledOnce
<1> QED
  BY <1>1, <1>2

(* Digests and writes come and go with their session.                      *)
LEMMA NextObjects ==
  ASSUME IInv, NEW s \in Session, Step(s), NEW r \in Session
  PROVE  SessionObjects(r)'
<1>0. SessionObjects(r)
  BY DEF IInv
<1>1. CASE r = s
  <2>1. digest[s] \in Session \cup {None}
    BY DEF IInv, TypeOK
  <2> QED
    BY <1>0, <1>1, <2>1, OwnObjects, NoneIsNoValue
       DEF SessionObjects, Open, Running, Ended
<1>2. CASE r # s
  <2>1. /\ tx'[r] = tx[r] /\ digest'[r] = digest[r]
        /\ pc'[r] = pc[r] \/ (pc[r] = "idle" /\ pc'[r] = "scheduled")
    BY <1>2, OthersUntouched
  <2> QED
    BY <1>0, <2>1 DEF SessionObjects, Open, Running
<1> QED
  BY <1>1, <1>2

(* Between its first notification and its end a task keeps the row, so no  *)
(* other session logs one for the same digest.                             *)
LEMMA NextNotifies ==
  ASSUME IInv, NEW s \in Session, Step(s), NEW r \in Session
  PROVE  NotifiesUnderLock(r)'
<1> USE NoneIsNoValue
<1>0. /\ TypeOK /\ LocksAreHeld
      /\ \A q \in Session : NotifiesUnderLock(q) /\ SessionObjects(q)
  BY DEF IInv
<1>1. CASE r = s
  <2>1. CASE Commit(s)
    <3>1. tx'[s].logs = {} /\ pc'[s] # "notify"
      BY <1>0, <2>1, NoWritesFacts DEF Commit, Close, Goto, TypeOK
    <3> QED
      BY <1>1, <3>1 DEF NotifiesUnderLock
  <2>2. ASSUME NEW u \in Recipient, Notify(s, u)
        PROVE  NotifiesUnderLock(s)'
    <3>1. tx'[s].logs = tx[s].logs \cup {u} /\ <<digest[s], u>> \notin logs
      <4>1. tx'[s] = [tx[s] EXCEPT !.logs = @ \cup {u}]
        BY <1>0, <2>2 DEF Notify, TypeOK
      <4>2. tx[s] \in Writes
        BY <1>0 DEF TypeOK
      <4> QED
        BY <2>2, <4>1, <4>2 DEF Notify, Logged, Writes
    <3>2. rowLock[digest[s]] = s
      BY <1>0, <2>2 DEF Notify, NotifiesUnderLock
    <3> QED
      BY <1>0, <2>2, <3>1, <3>2
         DEF Notify, NotifiesUnderLock, dbVars, ormVars
  <2>3. CASE MarkReady(s)
    <3>1. digest[s] \in Session
      BY <1>0, <2>3 DEF SessionObjects, MarkReady, Open, Running, TypeOK
    <3>2. rowLock'[digest[s]] = s
      BY <1>0, <2>3, <3>1 DEF MarkReady, UpdateRow, TypeOK
    <3>3. tx'[s].logs = tx[s].logs
      <4>1. tx'[s] = [tx[s] EXCEPT !.status = "READY"]
        BY <1>0, <2>3 DEF MarkReady, UpdateRow, TypeOK
      <4>2. tx[s] \in Writes
        BY <1>0 DEF TypeOK
      <4> QED
        BY <4>1, <4>2 DEF Writes
    <3> QED
      BY <1>0, <1>1, <2>3, <3>2, <3>3 DEF MarkReady, NotifiesUnderLock, dbVars
  <2>4. CASE ~Commit(s) /\ ~MarkReady(s) /\ ~\E u \in Recipient : Notify(s, u)
    <3>1. tx'[s].logs \in {{}, tx[s].logs}
      BY <2>4, OwnWrites, NoWritesFacts
    <3>2. pc'[s] # "notify"
      BY <1>0, <2>4 DEF Step, Run, Begin, Create, Load, FindRaises,
         DeleteStarts, DeleteEnds, Reset, Schedule, WriteSections, AllNotified,
         Fails, HandleFailure, Raise, Abort, Rollback, Close, Goto, WithDigest,
         TypeOK
    <3>3. UNCHANGED logs
      BY <2>4, WhoWrites DEF dbVars
    <3>4. tx'[s].logs # {} =>
            /\ digest'[s] = digest[s]
            /\ \A d \in Session : rowLock[d] = s => rowLock'[d] = s
            /\ digest[s] \in Session
      BY <1>0, OwnObjects, NoWritesFacts DEF SessionObjects, Open, TypeOK
    <3> QED
      BY <1>0, <3>1, <3>2, <3>3, <3>4, <1>1 DEF NotifiesUnderLock
  <2> QED
    BY <1>1, <2>1, <2>2, <2>3, <2>4
<1>2. CASE r # s
  <2>1. /\ tx'[r] = tx[r] /\ digest'[r] = digest[r]
        /\ pc'[r] = pc[r] \/ (pc[r] = "idle" /\ pc'[r] = "scheduled")
        /\ \A d \in Session : rowLock'[d] = r <=> rowLock[d] = r
    BY <1>2, OthersUntouched
  <2>2. pc[r] = "notify" \/ tx[r].logs # {} => digest[r] \in Session
    BY <1>0, NoWritesFacts DEF SessionObjects, TypeOK, Open, Running
  <2>3. ASSUME NEW u \in tx[r].logs PROVE <<digest[r], u>> \notin logs'
    <3>1. rowLock[digest[r]] = r /\ <<digest[r], u>> \notin logs
      BY <1>0 DEF NotifiesUnderLock
    <3>2. CASE Commit(s)
      <4>1. tx[s].logs # {} => rowLock[digest[s]] = s
        BY <1>0 DEF NotifiesUnderLock
      <4>2. <<digest[r], u>> \in {digest[s]} \X tx[s].logs => digest[r] = digest[s]
        OBVIOUS
      <4> QED
        BY <1>2, <3>1, <3>2, <4>1, <4>2 DEF Commit
    <3>3. CASE UNCHANGED dbVars
      BY <3>1, <3>3 DEF dbVars
    <3> QED
      BY <3>2, <3>3, WhoWrites
  <2> QED
    BY <1>0, <2>1, <2>2, <2>3 DEF NotifiesUnderLock
<1> QED
  BY <1>1, <1>2

(* What was tried stays logged.                                            *)
LEMMA NextTried ==
  ASSUME IInv, NEW s \in Session, Step(s), NEW r \in Session
  PROVE  TriedIsLogged(r)'
<1> USE NoneIsNoValue
<1>0. /\ TypeOK
      /\ \A q \in Session : TriedIsLogged(q) /\ SessionObjects(q)
  BY DEF IInv
<1>1. SUFFICES ASSUME NEW d \in Session, NEW u \in Recipient,
                      <<r, d, u>> \in tried'
               PROVE  /\ pc'[r] = "committed" => <<d, u>> \in logs'
                      /\ digest'[r] # None => d = digest'[r] /\ u \in tx'[r].logs
                      /\ pc'[r] \notin {"idle", "scheduled", "find"}
  BY DEF TriedIsLogged
<1>2. logs \subseteq logs'
  BY WhoWrites DEF dbVars, Commit
<1>3. ASSUME NEW v \in Recipient, Notify(s, v), <<r, d, u>> = <<s, digest[s], v>>
      PROVE  /\ pc'[r] = "committed" => <<d, u>> \in logs'
             /\ digest'[r] # None => d = digest'[r] /\ u \in tx'[r].logs
             /\ pc'[r] \notin {"idle", "scheduled", "find"}
  <2>1. r = s /\ d = digest[s] /\ u = v
    BY <1>3
  <2>2. tx'[s] = [tx[s] EXCEPT !.logs = @ \cup {v}] /\ tx[s] \in Writes
    BY <1>0, <1>3 DEF Notify, TypeOK
  <2>3. u \in tx'[s].logs
    BY <2>1, <2>2 DEF Writes
  <2> QED
    BY <1>3, <2>1, <2>3 DEF Notify, ormVars
<1>4. CASE <<r, d, u>> \in tried
  <2>0. /\ pc[r] = "committed" => <<d, u>> \in logs
        /\ digest[r] # None => d = digest[r] /\ u \in tx[r].logs
        /\ pc[r] \notin {"idle", "scheduled", "find"}
    BY <1>0, <1>4 DEF TriedIsLogged
  <2>1. CASE r # s
    BY <1>2, <2>0, <2>1, OthersUntouched
  <2>2. CASE r = s /\ Commit(s)
    <3>1. digest[s] # None
      BY <1>0, <2>2 DEF SessionObjects, Commit, Open, Running
    <3>2. <<d, u>> \in logs'
      BY <2>0, <2>2, <3>1 DEF Commit
    <3>3. digest'[s] = None /\ pc'[s] = "committed"
      BY <1>0, <2>2 DEF Commit, Close, Goto, TypeOK
    <3> QED
      BY <2>2, <3>2, <3>3
  <2>3. CASE r = s /\ ~Commit(s)
    <3>1. ~Begin(s)
      BY <2>0, <2>3 DEF Begin
    <3>2. pc'[s] # "committed" /\ pc'[s] \notin {"idle", "scheduled", "find"}
      BY <1>0, <2>3, <3>1, Tasks DEF Step, Run, Create, Load, FindRaises,
         DeleteStarts, DeleteEnds, Reset, Schedule, WriteSections, MarkReady,
         AllNotified, Fails, HandleFailure, Raise, Abort, Rollback, Close,
         Notify, Goto, WithDigest, TypeOK, Open, Running, IInv, ScheduledOnce
    <3>3. ASSUME digest'[s] # None
          PROVE  digest'[s] = digest[s] /\ digest[s] # None
      BY <1>0, <2>0, <2>3, <3>3, OwnObjects DEF SessionObjects, Open
    <3>4. ASSUME digest'[s] # None, u \in tx[s].logs PROVE u \in tx'[s].logs
      BY <3>4, OwnWrites
    <3> QED
      BY <2>0, <2>3, <3>2, <3>3, <3>4
  <2> QED
    BY <2>1, <2>2, <2>3
<1> QED
  BY <1>1, <1>3, <1>4, WhoWrites DEF Notify

(* Sections are flushed before READY is, and committed with it.            *)
LEMMA NextPublishes ==
  ASSUME IInv, NEW s \in Session, Step(s), NEW r \in Session
  PROVE  PublishesItsSections(r)'
<1> USE NoneIsNoValue
<1>0. /\ TypeOK
      /\ \A q \in Session : PublishesItsSections(q) /\ SessionObjects(q)
  BY DEF IInv
<1>1. ASSUME NEW d \in Session, r \in sections'[d] PROVE pc'[r] = "committed"
  <2>1. CASE r \in sections[d]
    <3>1. pc[r] = "committed"
      BY <1>0, <2>1 DEF PublishesItsSections
    <3>2. r # s
      BY <3>1 DEF Step, Run, Begin, Create, Load, FindRaises, DeleteStarts,
         DeleteEnds, Reset, Schedule, WriteSections, MarkReady, AllNotified,
         Fails, HandleFailure, Raise, Abort, Commit, Notify, Open, Running
    <3> QED
      BY <3>1, <3>2, OthersUntouched
  <2>2. CASE r \notin sections[d]
    <3>1. Commit(s)
      BY <1>1, <2>2, WhoWrites DEF dbVars
    <3>2. r = s
      BY <1>0, <1>1, <2>2, <3>1 DEF Commit, TypeOK
    <3> QED
      BY <1>0, <3>1, <3>2 DEF Commit, Close, Goto, TypeOK
  <2> QED
    BY <2>1, <2>2
<1>2. pc'[r] = "ready" \/ tx'[r].status = "READY" => tx'[r].added
  <2>0. pc[r] = "ready" \/ tx[r].status = "READY" => tx[r].added
    BY <1>0 DEF PublishesItsSections
  <2>1. CASE r # s
    BY <2>0, <2>1, OthersUntouched
  <2>2. CASE r = s
    <3>0. tx[s] \in Writes
      BY <1>0 DEF TypeOK
    <3>1. CASE WriteSections(s)
      <4>1. tx'[s] = [tx[s] EXCEPT !.added = TRUE]
        BY <1>0, <3>1 DEF WriteSections, TypeOK
      <4> QED
        BY <2>2, <3>0, <4>1 DEF Writes
    <3>2. CASE MarkReady(s)
      <4>1. tx'[s] = [tx[s] EXCEPT !.status = "READY"] /\ tx[s].added
        BY <1>0, <2>0, <2>2, <3>2 DEF MarkReady, UpdateRow, TypeOK
      <4> QED
        BY <2>2, <3>0, <4>1 DEF Writes
    <3>3. CASE ~WriteSections(s) /\ ~MarkReady(s)
      <4>1. pc'[s] # "ready"
        BY <1>0, <3>3 DEF Step, Run, Begin, Create, Load, FindRaises,
           DeleteStarts, DeleteEnds, Reset, Schedule, AllNotified, Fails,
           HandleFailure, Raise, Abort, Rollback, Close, Commit, Notify, Goto,
           WithDigest, TypeOK
      <4> QED
        BY <2>0, <2>2, <3>3, <4>1, OwnWrites, NoWritesFacts
    <3> QED
      BY <3>1, <3>2, <3>3
  <2> QED
    BY <2>1, <2>2
<1> QED
  BY <1>1, <1>2 DEF PublishesItsSections

(* A commit that logs a recipient is the first one to.                     *)
LEMMA NextOnce ==
  ASSUME IInv, NEW s \in Session, Step(s)
  PROVE  AtMostOnceNotified'
<1> USE NoneIsNoValue
<1>0. /\ TypeOK /\ AtMostOnceNotified
      /\ \A q \in Session :
           TriedIsLogged(q) /\ SessionObjects(q) /\ NotifiesUnderLock(q)
  BY DEF IInv
<1>1. SUFFICES ASSUME NEW x \in tried', NEW y \in tried',
                      x[2] = y[2], x[3] = y[3],
                      pc'[x[1]] = "committed", pc'[y[1]] = "committed"
               PROVE  x[1] = y[1]
  BY DEF AtMostOnceNotified
<1>2. CASE Commit(s)
  <2>1. UNCHANGED tried /\ digest[s] # None
    BY <1>0, <1>2 DEF Commit, Close, SessionObjects, Open, Running
  <2>2. ASSUME NEW z \in tried
        PROVE  /\ z[1] \in Session /\ z[2] \in Session /\ z[3] \in Recipient
               /\ <<z[1], z[2], z[3]>> \in tried
               /\ z[1] # s /\ pc'[z[1]] = "committed" =>
                    pc[z[1]] = "committed" /\ <<z[2], z[3]>> \in logs
               /\ z[1] = s => <<z[2], z[3]>> \notin logs
    <3>1. /\ z[1] \in Session /\ z[2] \in Session /\ z[3] \in Recipient
          /\ z = <<z[1], z[2], z[3]>>
      BY <1>0 DEF TypeOK
    <3>2. z[1] # s /\ pc'[z[1]] = "committed" => pc[z[1]] = "committed"
      BY <3>1, OthersUntouched
    <3>3. z[1] # s /\ pc'[z[1]] = "committed" => <<z[2], z[3]>> \in logs
      BY <1>0, <3>1, <3>2 DEF TriedIsLogged
    <3>4. z[1] = s => <<z[2], z[3]>> \notin logs
      BY <1>0, <2>1, <3>1 DEF TriedIsLogged, NotifiesUnderLock
    <3> QED
      BY <3>1, <3>2, <3>3, <3>4
  <2> QED
    BY <1>0, <1>1, <2>1, <2>2 DEF AtMostOnceNotified
<1>3. CASE ~Commit(s)
  <2>1. pc'[s] # "committed"
    BY <1>0, <1>3, Tasks DEF Step, Run, Begin, Create, Load, FindRaises,
       DeleteStarts, DeleteEnds, Reset, Schedule, WriteSections, MarkReady,
       AllNotified, Fails, HandleFailure, Raise, Abort, Rollback, Close,
       Notify, Goto, WithDigest, TypeOK, IInv, ScheduledOnce
  <2>2. ASSUME NEW z \in tried', pc'[z[1]] = "committed"
        PROVE  z \in tried /\ pc[z[1]] = "committed"
    <3>1. z \in tried
      BY <2>1, <2>2, WhoWrites DEF Notify
    <3>2. z[1] \in Session
      BY <1>0, <3>1 DEF TypeOK
    <3> QED
      BY <2>1, <2>2, <3>1, <3>2, OthersUntouched
  <2> QED
    BY <1>0, <1>1, <2>2 DEF AtMostOnceNotified
<1> QED
  BY <1>2, <1>3

(* The inductive invariant of digest generation.                           *)
THEOREM Inductive == Spec => []IInv
<1>1. Init => IInv
  BY InitIInv
<1>2. IInv /\ [Next]_vars => IInv'
  <2>1. ASSUME IInv, NEW s \in Session, Step(s) PROVE IInv'
    BY <2>1, NextTypeOK, NextLocks, NextScheduled, NextObjects, NextNotifies,
       NextTried, NextPublishes, NextOnce DEF IInv
  <2>2. ASSUME IInv, UNCHANGED vars PROVE IInv'
    BY <2>2 DEF IInv, TypeOK, LocksAreHeld, ScheduledOnce, SessionObjects,
       NotifiesUnderLock, TriedIsLogged, PublishesItsSections,
       AtMostOnceNotified, Open, vars, dbVars, ormVars
  <2> QED
    BY <2>1, <2>2, Steps
<1> QED
  BY <1>1, <1>2, PTL DEF Spec

(* Of the generations that commit, at most one notifies a recipient about  *)
(* a digest, however many tasks run at once.                               *)
THEOREM AtMostOnceAlways == Spec => []AtMostOnceNotified
<1>1. IInv => AtMostOnceNotified
  BY DEF IInv
<1> QED
  BY <1>1, Inductive, PTL

(* A digest turns READY only together with new sections.                   *)
THEOREM ReadyAlwaysComplete == Spec => ReadyComesWithSections
<1> DEFINE Complete == \A d \in Session :
                         status'[d] = "READY" /\ status[d] # "READY"
                           => ~(sections'[d] \subseteq sections[d])
<1>1. IInv /\ [Next]_vars => [Complete]_vars
  <2> SUFFICES ASSUME IInv, [Next]_vars, ~UNCHANGED vars,
                      NEW d \in Session,
                      status'[d] = "READY", status[d] # "READY"
               PROVE  ~(sections'[d] \subseteq sections[d])
    OBVIOUS
  <2>1. PICK s \in Session : Step(s)
    BY Steps
  <2>2. Commit(s)
    BY <2>1, WhoWrites DEF dbVars
  <2>3. /\ TypeOK /\ PublishesItsSections(s)
    BY DEF IInv
  <2>4. d = digest[s] /\ tx[s].status = "READY"
    BY <2>2, <2>3 DEF Commit, TypeOK
  <2>5. s \in sections'[d]
    BY <2>2, <2>3, <2>4 DEF Commit, TypeOK, PublishesItsSections
  <2>6. s \notin sections[d]
    BY <2>2, <2>3 DEF Commit, PublishesItsSections
  <2> QED
    BY <2>5, <2>6
<1> QED
  BY <1>1, Inductive, PTL DEF Spec, ReadyComesWithSections

-----------------------------------------------------------------------------
(* Sessions that do not overlap.                                           *)

(* What an open session has read of its digest, and what it will commit.   *)
Prepared(s) ==
  /\ pc[s] \in Running \ {"find"} => \A d \in Session : Exists(d) => d = digest[s]
  /\ pc[s] \in {"delete", "deleting", "reset"} =>
       /\ Exists(digest[s]) /\ loaded[s] = status[digest[s]]
       /\ tx[s].status = None /\ ~tx[s].added
  /\ pc[s] = "deleting" => target[s] = sections[digest[s]]
  /\ pc[s] \in {"reset", "schedule", "write", "ready", "notify", "commit"} =>
       tx[s].removed = sections[digest[s]]
  /\ pc[s] \in {"schedule", "write"} \/ (pc[s] = "commit" /\ ~IsTask(s)) =>
       /\ tx[s].status \in {None, "GENERATING"} /\ ~tx[s].added
       /\ tx[s].status = None => status[digest[s]] = "GENERATING"
  /\ pc[s] \in {"write", "ready", "notify"} => IsTask(s)
  /\ pc[s] = "ready" => tx[s].added
  /\ pc[s] = "notify" \/ (pc[s] = "commit" /\ IsTask(s)) =>
       tx[s].status = "READY" /\ tx[s].added

SerialInv ==
  /\ \A r, s \in Session : Open(r) /\ Open(s) => r = s
  /\ \A d \in Session : ~Exists(d) => sections[d] = {}
  /\ OneDigestPerPeriod
  /\ \A s \in Session : Prepared(s)

(* The digests as their readers see them.                                  *)
Shown == {<<status[d], sections[d]>> : d \in {e \in Session : Exists(e)}}

(* One field of what a session has written.                                *)
LEMMA OwnField ==
  ASSUME TypeOK, NEW s \in Session, NEW x
  PROVE  /\ tx' = [tx EXCEPT ![s].status = x] =>
              tx'[s].status = x /\ tx'[s].removed = tx[s].removed /\ tx'[s].added = tx[s].added
         /\ tx' = [tx EXCEPT ![s].removed = x] =>
              tx'[s].status = tx[s].status /\ tx'[s].removed = x /\ tx'[s].added = tx[s].added
         /\ tx' = [tx EXCEPT ![s].added = x] =>
              tx'[s].status = tx[s].status /\ tx'[s].removed = tx[s].removed /\ tx'[s].added = x
         /\ tx' = [tx EXCEPT ![s].logs = x] =>
              tx'[s].status = tx[s].status /\ tx'[s].removed = tx[s].removed
              /\ tx'[s].added = tx[s].added
<1>1. tx \in [Session -> Writes] /\ tx[s] \in Writes
  BY DEF TypeOK
<1>2. ASSUME tx' = [tx EXCEPT ![s].status = x]
      PROVE  tx'[s].status = x /\ tx'[s].removed = tx[s].removed /\ tx'[s].added = tx[s].added
  BY <1>1, <1>2 DEF Writes
<1>3. ASSUME tx' = [tx EXCEPT ![s].removed = x]
      PROVE  tx'[s].status = tx[s].status /\ tx'[s].removed = x /\ tx'[s].added = tx[s].added
  BY <1>1, <1>3 DEF Writes
<1>4. ASSUME tx' = [tx EXCEPT ![s].added = x]
      PROVE  tx'[s].status = tx[s].status /\ tx'[s].removed = tx[s].removed /\ tx'[s].added = x
  BY <1>1, <1>4 DEF Writes
<1>5. ASSUME tx' = [tx EXCEPT ![s].logs = x]
      PROVE  /\ tx'[s].status = tx[s].status /\ tx'[s].removed = tx[s].removed
             /\ tx'[s].added = tx[s].added
  BY <1>1, <1>5 DEF Writes
<1> QED
  BY <1>2, <1>3, <1>4, <1>5

(* Who takes a step is alone, before and after.                            *)
LEMMA Alone ==
  ASSUME IInv, SerialInv, ~Overlap, NEW s \in Session, Step(s)
  PROVE  \A r \in Session \ {s} : ~Open(r) /\ ~Open(r)'
<1>1. Begin(s) \/ Open(s)
  BY DEF Step, Run, Create, Load, FindRaises, DeleteStarts, DeleteEnds, Reset, Schedule,
     WriteSections, MarkReady, AllNotified, Notify, Fails, HandleFailure, Raise, Commit, Abort,
     Open, Running
<1>2. \A r \in Session \ {s} : ~Open(r)
  BY <1>1 DEF SerialInv, Begin
<1> QED
  BY <1>2, OthersUntouched DEF Open, Running

(* A step that leaves the tables alone has only to prepare its own commit. *)
LEMMA SerialStep ==
  ASSUME IInv, SerialInv, ~Overlap, NEW s \in Session, Step(s), UNCHANGED dbVars, Prepared(s)'
  PROVE  SerialInv'
<1>1. \A r \in Session \ {s} : ~Open(r)'
  BY Alone
<1>2. \A r \in Session : Prepared(r)'
  BY <1>1 DEF Prepared, Open, Running
<1> QED
  BY <1>1, <1>2 DEF SerialInv, dbVars, OneDigestPerPeriod, Exists

(* A commit replaces what readers saw by one digest: emptied, or with the  *)
(* sections of this generation.                                            *)
LEMMA SerialCommit ==
  ASSUME IInv, SerialInv, ~Overlap, NEW s \in Session, Commit(s)
  PROVE  SerialInv' /\ Board!Next
<1> DEFINE d == digest[s]
           x == IF IsTask(s) THEN <<"READY", {s}>> ELSE <<"GENERATING", {}>>
<1>1. /\ pc[s] = "commit" /\ d \in Session /\ TypeOK /\ tx[s] \in Writes /\ Prepared(s)
      /\ Step(s)
  BY NoneIsNoValue DEF IInv, TypeOK, Commit, SessionObjects, Open, Running, Step, Run, SerialInv
<1>2. /\ tx[s].removed = sections[d]
      /\ IsTask(s) => tx[s].status = "READY" /\ tx[s].added
      /\ ~IsTask(s) => /\ tx[s].status \in {None, "GENERATING"} /\ ~tx[s].added
                       /\ tx[s].status = None => status[d] = "GENERATING"
      /\ \A e \in Session : Exists(e) => e = d
  BY <1>1 DEF Prepared, Running
<1>3. /\ status' = IF tx[s].status = None THEN status ELSE [status EXCEPT ![d] = tx[s].status]
      /\ sections' = [sections EXCEPT ![d] =
                        (@ \ tx[s].removed) \cup IF tx[s].added THEN {s} ELSE {}]
      /\ pc' = [pc EXCEPT ![s] = "committed"]
  BY DEF Commit, Close, Goto
<1> HIDE DEF d
<1>4. <<status'[d], sections'[d]>> = x
  BY <1>1, <1>2, <1>3, NoneIsNoValue DEF TypeOK, Status
<1>5. \A e \in Session \ {d} : status'[e] = status[e] /\ sections'[e] = sections[e]
  BY <1>1, <1>3 DEF TypeOK
<1>6. status'[d] # "ABSENT" /\ \A e \in Session \ {d} : status'[e] = "ABSENT"
  BY <1>2, <1>4, <1>5 DEF Exists
<1>7. SerialInv'
  <2>1. \A r \in Session : ~Open(r)'
    BY <1>1, <1>3, Alone DEF Open, Running, TypeOK
  <2>2. \A r \in Session : Prepared(r)'
    BY <2>1 DEF Prepared, Open, Running
  <2>3. OneDigestPerPeriod'
    BY <1>6 DEF OneDigestPerPeriod, Exists
  <2>4. \A e \in Session : ~Exists(e)' => sections'[e] = {}
    BY <1>5, <1>6 DEF Exists, SerialInv
  <2> QED
    BY <2>1, <2>2, <2>3, <2>4 DEF SerialInv
<1>8. Shown' = {x}
  BY <1>1, <1>4, <1>6 DEF Shown, Exists
<1>9. CASE IsTask(s)
  <2>1. Board!Publish(s)
    BY <1>8, <1>9 DEF Board!Publish, Shown
  <2> QED
    BY <1>7, <2>1 DEF Board!Next
<1>10. CASE ~IsTask(s)
  <2>1. Board!Restart
    BY <1>8, <1>10 DEF Board!Restart, Shown
  <2> QED
    BY <1>7, <2>1 DEF Board!Next
<1> QED
  BY <1>7, <1>9, <1>10

LEMMA NextPrepared ==
  ASSUME IInv, SerialInv, ~Overlap, NEW s \in Session, Step(s), ~Commit(s)
  PROVE  Prepared(s)'
<1> USE DEF Goto, dbVars, ormVars
<1>0. /\ TypeOK /\ tx[s] \in Writes /\ Prepared(s) /\ SessionObjects(s) /\ PublishesItsSections(s)
      /\ \A r \in Session \ {s} : ~Open(r)
  BY Alone DEF IInv, SerialInv, TypeOK
<1>1. UNCHANGED <<status, sections>>
  BY WhoWrites
<1>2. \A e \in Session \cup {digest[s]} : Exists(e)' <=> Exists(e)
  BY <1>1 DEF Exists
<1>3. CASE Begin(s) \/ FindRaises(s) \/ Raise(s) \/ Abort(s) \/ Fails(s) \/ HandleFailure(s)
  <2>1. CASE Fails(s) \/ HandleFailure(s)
    <3>1. pc[s] \in Running \ {"find"} /\ digest'[s] = digest[s] /\ pc'[s] \in {"failing", "raised"}
      BY <1>0, <2>1 DEF Fails, HandleFailure, Running, TypeOK
    <3> QED
      BY <1>0, <1>2, <3>1 DEF Prepared, Running
  <2>2. CASE Begin(s) \/ FindRaises(s) \/ Raise(s) \/ Abort(s)
    <3>1. pc'[s] \in Ended \cup {"find"}
      BY <1>0, <2>2 DEF Begin, FindRaises, Raise, Abort, Rollback, Close, TypeOK, Ended
    <3> QED
      BY <3>1 DEF Prepared, Running, Ended
  <2> QED
    BY <1>3, <2>1, <2>2
<1>4. CASE Create(s)
  <2>1. /\ pc'[s] = WithDigest(s) /\ digest'[s] = s /\ tx[s] = NoWrites
        /\ tx' = [tx EXCEPT ![s].status = "GENERATING"]
        /\ \A e \in Session : ~Exists(e)
    BY <1>0, <1>4 DEF Create, TypeOK, SessionObjects
  <2>2. tx'[s].status = "GENERATING" /\ tx'[s].removed = {} /\ tx'[s].added = FALSE
    <3>1. /\ tx'[s].status = "GENERATING" /\ tx'[s].removed = tx[s].removed
          /\ tx'[s].added = tx[s].added
      BY <1>0, <2>1, OwnField
    <3>2. NoWrites.removed = {} /\ NoWrites.added = FALSE
      BY DEF NoWrites
    <3> QED
      BY <2>1, <3>1, <3>2
  <2>3. sections'[s] = {}
    BY <1>1, <2>1 DEF SerialInv
  <2> QED
    BY <1>2, <2>1, <2>2, <2>3, NoneIsNoValue DEF Prepared, WithDigest, Status
<1>5. CASE Load(s)
  <2>1. PICK d \in Session : /\ Exists(d) /\ \A e \in Session \ {d} : ~Exists(e)
                             /\ digest' = [digest EXCEPT ![s] = d]
                             /\ loaded' = [loaded EXCEPT ![s] = status[d]]
    BY <1>5 DEF Load
  <2>2. /\ pc[s] = "find" /\ pc'[s] = "delete" /\ digest'[s] = d /\ loaded'[s] = status[d]
        /\ tx' = tx
    BY <1>0, <1>5, <2>1 DEF Load, TypeOK
  <2>3. tx[s].status = None /\ tx[s].added = FALSE
    BY <1>0, <2>2 DEF SessionObjects, NoWrites
  <2> QED
    BY <1>1, <1>2, <2>1, <2>2, <2>3 DEF Prepared
<1>6. CASE DeleteStarts(s)
  <2>1. /\ pc[s] = "delete" /\ pc'[s] = "deleting" /\ UNCHANGED <<digest, loaded, tx>>
        /\ target'[s] = sections[digest[s]]
    BY <1>0, <1>6 DEF DeleteStarts, TypeOK
  <2> QED
    BY <1>0, <1>1, <1>2, <2>1 DEF Prepared, Running
<1>7. CASE DeleteEnds(s)
  <2>1. /\ pc[s] = "deleting" /\ pc'[s] = "reset" /\ UNCHANGED <<digest, loaded>>
        /\ tx' = [tx EXCEPT ![s].removed = target[s] \cap sections[digest[s]]]
    BY <1>0, <1>7 DEF DeleteEnds, TypeOK
  <2>2. target[s] \cap sections[digest[s]] = sections[digest[s]]
    BY <1>0, <2>1 DEF Prepared
  <2>3. /\ tx'[s].status = tx[s].status /\ tx'[s].added = tx[s].added
        /\ tx'[s].removed = sections[digest[s]]
    BY <1>0, <2>1, <2>2, OwnField
  <2> QED
    BY <1>0, <1>1, <1>2, <2>1, <2>3 DEF Prepared, Running
<1>8. CASE Reset(s)
  <2>1. pc[s] = "reset" /\ pc'[s] = WithDigest(s) /\ digest' = digest
    BY <1>0, <1>8 DEF Reset, TypeOK
  <2>2. /\ tx'[s].removed = tx[s].removed /\ tx'[s].added = tx[s].added
        /\ \/ tx'[s].status = "GENERATING"
           \/ tx'[s].status = tx[s].status /\ loaded[s] = "GENERATING"
    BY <1>0, <1>8, OwnField DEF Reset, UpdateRow
  <2> QED
    BY <1>0, <1>1, <1>2, <2>1, <2>2, NoneIsNoValue DEF Prepared, WithDigest, Running, Status
<1>9. CASE Schedule(s)
  <2>1. ~IsTask(s)
    BY <1>9 DEF Schedule, IInv, ScheduledOnce
  <2>2. TaskOf(s) # s
    BY <2>1, Tasks
  <2>3. pc[s] = "schedule" /\ pc'[s] = "commit" /\ UNCHANGED <<digest, tx>>
    BY <1>0, <1>9, <2>2 DEF Schedule, TypeOK
  <2> QED
    BY <1>0, <1>1, <1>2, <2>1, <2>3 DEF Prepared, Running
<1>10. CASE WriteSections(s)
  <2>1. /\ pc[s] = "write" /\ pc'[s] = "ready" /\ digest' = digest
        /\ tx' = [tx EXCEPT ![s].added = TRUE]
    BY <1>0, <1>10 DEF WriteSections, TypeOK
  <2>2. /\ tx'[s].status = tx[s].status /\ tx'[s].removed = tx[s].removed
        /\ tx'[s].added = TRUE
    BY <1>0, <2>1, OwnField
  <2> QED
    BY <1>0, <1>1, <1>2, <2>1, <2>2 DEF Prepared, Running
<1>11. CASE MarkReady(s)
  <2>1. /\ pc[s] = "ready" /\ pc'[s] = "notify" /\ digest' = digest
        /\ tx' = [tx EXCEPT ![s].status = "READY"]
    BY <1>0, <1>11 DEF MarkReady, UpdateRow, TypeOK
  <2>2. /\ tx'[s].status = "READY" /\ tx'[s].removed = tx[s].removed
        /\ tx'[s].added = tx[s].added
    BY <1>0, <2>1, OwnField
  <2> QED
    BY <1>0, <1>1, <1>2, <2>1, <2>2 DEF Prepared, Running
<1>12. CASE AllNotified(s) \/ \E u \in Recipient : Notify(s, u)
  <2>1. /\ pc[s] = "notify" /\ pc'[s] \in {"notify", "commit"} /\ digest' = digest
        /\ tx' = tx \/ \E y : tx' = [tx EXCEPT ![s].logs = y]
    BY <1>0, <1>12 DEF AllNotified, Notify, TypeOK
  <2>2. /\ tx'[s].status = tx[s].status /\ tx'[s].removed = tx[s].removed
        /\ tx'[s].added = tx[s].added
    BY <1>0, <2>1, OwnField
  <2> QED
    BY <1>0, <1>1, <1>2, <2>1, <2>2 DEF Prepared, Running
<1> QED
  BY <1>3, <1>4, <1>5, <1>6, <1>7, <1>8, <1>9, <1>10, <1>11, <1>12 DEF Step, Run

LEMMA NextSerial ==
  ASSUME IInv, SerialInv, ~Overlap, [Next]_vars
  PROVE  SerialInv' /\ (Board!Next \/ Shown' = Shown)
<1>1. ASSUME UNCHANGED vars PROVE SerialInv' /\ Shown' = Shown
  BY <1>1 DEF vars, dbVars, ormVars, SerialInv, Prepared, OneDigestPerPeriod, Shown, Exists, Open
<1>2. ASSUME NEW s \in Session, Commit(s) PROVE SerialInv' /\ Board!Next
  BY <1>2, SerialCommit
<1>3. ASSUME NEW s \in Session, Step(s), ~Commit(s) PROVE SerialInv' /\ Shown' = Shown
  <2>1. UNCHANGED dbVars
    BY <1>3, WhoWrites
  <2>2. SerialInv'
    BY <1>3, <2>1, NextPrepared, SerialStep
  <2> QED
    BY <2>1, <2>2 DEF Shown, Exists, dbVars
<1> QED
  BY <1>1, <1>2, <1>3, Steps

(* As long as the sessions on a period do not overlap, readers see at most *)
(* one digest: a generation that starts empties it, and it turns READY in  *)
(* one step, with the sections of one generation and of no other, whatever *)
(* fails or aborts in between.                                             *)
THEOREM BoardShown == ASSUME ~Overlap PROVE Spec => BoardSpec
<1>1. Init => SerialInv /\ Board!Init
  <2> SUFFICES ASSUME Init PROVE SerialInv /\ Board!Init
    OBVIOUS
  <2>1. Shown = {}
    BY DEF Init, Shown, Exists
  <2>2. SerialInv
    BY DEF Init, SerialInv, OneDigestPerPeriod, Exists, Prepared, Open, Running
  <2> QED
    BY <2>1, <2>2 DEF Board!Init, Shown
<1>2. IInv /\ SerialInv /\ [Next]_vars => SerialInv'
  BY NextSerial
<1>3. IInv /\ SerialInv /\ [Next]_vars =>
        [Board!Next]_{<<status[d], sections[d]>> : d \in {e \in Session : Exists(e)}}
  BY NextSerial DEF Shown
<1> QED
  BY <1>1, <1>2, <1>3, Inductive, PTL DEF Spec, BoardSpec, Board!Spec
=============================================================================
