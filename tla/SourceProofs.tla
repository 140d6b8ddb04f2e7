---------------------------- MODULE SourceProofs ----------------------------
(***************************************************************************)
(* The bookkeeping of a source, for any number of collectors and admins,   *)
(* any threshold and any interleaving of their sessions.                   *)
(***************************************************************************)
EXTENDS SourceLifecycle, TLAPS

(* The empty object and the empty write are well typed.                    *)
LEMMA Empty == NoWrite \in Write /\ NoObject \in Object
BY DEF NoWrite, NoObject, Write, Object

(* The initial state satisfies the inductive invariant.                    *)
LEMMA InitIInv == Init => IInv
<1> SUFFICES ASSUME Init PROVE IInv
  OBVIOUS
<1>1. TypeOK
  <2>1. pc \in [Actor -> Stage] /\ seen \in [Actor -> Object] /\ tx \in [Actor -> Write]
    BY Empty DEF Init, Stage
  <2>2. /\ attempt \in [Collector -> 0..Attempts]
        /\ feed \in [Collector -> SUBSET Article]
        /\ got \in [Collector -> SUBSET Article]
    BY Limits DEF Init
  <2>3. status \in State /\ errors \in Nat /\ faults \in 0..MaxFaults
    BY Limits DEF Init, State, Status
  <2> QED
    BY <2>1, <2>2, <2>3 DEF Init, TypeOK
<1>2. WritersHoldTheRow
  BY NoneIsNoValue DEF Init, WritersHoldTheRow, Writing
<1>3. \A c \in Collector : FlushedByCollector(c) /\ Accounted(c)
  BY NoneIsNoValue DEF Init, FlushedByCollector, Accounted, Actor, NoWrite,
                      State, Status
<1>4. SuccessMeansPublished
  BY DEF Init, SuccessMeansPublished
<1> QED
  BY <1>1, <1>2, <1>3, <1>4 DEF IInv

-----------------------------------------------------------------------------
(* What the parts the actions share do to the variables.                   *)

LEMMA ForgetType ==
  ASSUME TypeOK, NEW s \in Actor, NEW next, Forget(s, next)
  PROVE  /\ attempt' \in [Collector -> 0..Attempts]
         /\ feed' \in [Collector -> SUBSET Article]
         /\ got' \in [Collector -> SUBSET Article]
BY Limits DEF TypeOK, Forget, run

LEMMA CloseType ==
  ASSUME TypeOK, NEW s \in Actor, NEW next \in Stage, Close(s, next)
  PROVE  /\ pc' \in [Actor -> Stage]
         /\ attempt' \in [Collector -> 0..Attempts]
         /\ feed' \in [Collector -> SUBSET Article]
         /\ got' \in [Collector -> SUBSET Article]
         /\ seen' \in [Actor -> Object]
         /\ tx' \in [Actor -> Write]
         /\ lock' \in Actor \cup {None}
<1>1. Forget(s, next)
  BY DEF Close
<1> QED
  BY <1>1, ForgetType, Empty DEF TypeOK, Close, Goto

LEMMA OpenType ==
  ASSUME TypeOK, NEW s \in Actor, NEW loaded \in Stage, NEW ghost \in Stage,
         Open(s, loaded, ghost)
  PROVE  TypeOK'
<1>1. CASE status = "DELETED"
  <2>1. Forget(s, ghost)
    BY <1>1 DEF Open
  <2> QED
    BY <1>1, <2>1, ForgetType DEF TypeOK, Open, Goto, row
<1>2. CASE status # "DELETED"
  <2>1. [status |-> status, errors |-> errors] \in Object
    BY <1>2 DEF TypeOK, Object, State
  <2> QED
    BY <1>2, <2>1 DEF TypeOK, Open, Goto, row, run
<1> QED
  BY <1>1, <1>2

LEMMA FlushType ==
  ASSUME TypeOK, NEW s \in Actor, NEW write \in Write, NEW commit \in Stage,
         Flush(s, write, commit)
  PROVE  TypeOK'
BY DEF TypeOK, Flush, Goto, row, run

LEMMA StaleType ==
  ASSUME TypeOK, NEW s \in Actor, NEW next \in Stage, Stale(s, next)
  PROVE  TypeOK'
BY CloseType DEF TypeOK, Stale, row

LEMMA ChangesType ==
  ASSUME NEW s \in Actor, NEW newStatus \in State \cup {None}, NEW newErrors \in Nat
  PROVE  Changes(s, newStatus, newErrors) \in Write
BY DEF Changes, Write

LEMMA CommitRowType ==
  ASSUME TypeOK, NEW s \in Actor, CommitRow(s)
  PROVE  status' \in State /\ errors' \in Nat
<1>1. tx[s] \in Write
  BY DEF TypeOK
<1> QED
  BY <1>1 DEF TypeOK, CommitRow, Write

(* Every step keeps the variables in their types.                          *)
LEMMA NextTypeOK == TypeOK /\ [Next]_vars => TypeOK'
<1> SUFFICES ASSUME TypeOK, [Next]_vars PROVE TypeOK'
  OBVIOUS
<1>0. \A s \in Actor : seen[s] \in Object
  BY DEF TypeOK
<1>1. ASSUME NEW c \in Collector, Collect(c)
      PROVE  TypeOK'
  <2>0. c \in Actor
    BY DEF Actor
  <2>1. CASE LoadActive(c)
    BY <2>0, <2>1, Limits DEF TypeOK, LoadActive, Goto, row, Stage
  <2>2. CASE FetchFails(c)
    BY <2>0, <2>2, Limits DEF TypeOK, FetchFails, Goto, row, Stage
  <2>3. CASE TimesOut(c)
    <3>1. Forget(c, "idle")
      BY <2>3 DEF TimesOut
    <3> QED
      BY <2>0, <2>3, <3>1, ForgetType DEF TypeOK, TimesOut, Goto, row, Stage
  <2>4. CASE Fetches(c)
    BY <2>0, <2>4 DEF TypeOK, Fetches, Goto, row, Stage
  <2>5. CASE Publishes(c)
    BY <2>0, <2>5 DEF TypeOK, Publishes, row
  <2>6. CASE PublishFails(c)
    BY <2>0, <2>6 DEF TypeOK, PublishFails, Goto, row, run, Stage
  <2>7. CASE OpenSuccess(c)
    BY <2>0, <2>7, OpenType DEF OpenSuccess, Stage
  <2>8. CASE ApplySuccess(c)
    <3>1. Changes(c, seen[c].status, 0) \in Write
      BY <1>0, <2>0, ChangesType DEF Object, State
    <3> QED
      BY <2>0, <2>8, <3>1, FlushType, StaleType DEF ApplySuccess, Stage
  <2>9. CASE CommitSuccess(c)
    <3>1. Close(c, "idle") /\ CommitRow(c)
      BY <2>9 DEF CommitSuccess
    <3>2. "idle" \in Stage
      BY DEF Stage
    <3>3. covered' \in SUBSET Article
      BY <2>9 DEF TypeOK, CommitSuccess
    <3> QED
      BY <2>0, <2>9, <3>1, <3>2, <3>3, CloseType, CommitRowType DEF TypeOK, CommitSuccess
  <2>10. CASE OpenFailure(c)
    BY <2>0, <2>10, OpenType DEF OpenFailure, Stage
  <2>11. CASE ApplyFailure(c)
    <3> DEFINE n == seen[c].errors + 1
               new == IF n >= Threshold THEN "ERROR" ELSE seen[c].status
    <3>1. n \in Nat /\ new \in State \cup {None}
      BY <1>0, <2>0 DEF Object, State, Status
    <3>2. Changes(c, new, n) \in Write
      BY <2>0, <3>1, ChangesType
    <3>3. Flush(c, Changes(c, new, n), "commitFailure") \/ Stale(c, "idle")
      BY <2>11 DEF ApplyFailure
    <3> HIDE DEF n, new
    <3> QED
      BY <2>0, <3>2, <3>3, FlushType, StaleType DEF Stage
  <2>12. CASE CommitFailure(c)
    <3>1. Close(c, "idle") /\ CommitRow(c)
      BY <2>12 DEF CommitFailure
    <3>2. "idle" \in Stage
      BY DEF Stage
    <3> QED
      BY <2>0, <2>12, <3>1, <3>2, CloseType, CommitRowType DEF TypeOK, CommitFailure
  <2> QED
    BY <1>1, <2>1, <2>2, <2>3, <2>4, <2>5, <2>6, <2>7, <2>8, <2>9, <2>10, <2>11,
       <2>12 DEF Collect
<1>2. ASSUME NEW a \in Admin, Administrate(a)
      PROVE  TypeOK'
  <2>0. a \in Actor /\ "done" \in Stage
    BY DEF Actor, Stage
  <2>1. CASE OpenAdmin(a)
    BY <2>0, <2>1, OpenType DEF OpenAdmin, Stage
  <2>2. CASE Patch(a)
    <3>1. PICK new \in Status :
             \/ Close(a, "done") /\ UNCHANGED <<row, queue, covered, faults>>
             \/ Flush(a, Changes(a, new, IF seen[a].status = "ERROR" /\ new = "ACTIVE"
                                         THEN 0 ELSE seen[a].errors), "commit")
      BY <2>2 DEF Patch
    <3>2. CASE Close(a, "done") /\ UNCHANGED <<row, queue, covered, faults>>
      BY <2>0, <3>2, CloseType DEF TypeOK, row
    <3>3. CASE Flush(a, Changes(a, new, IF seen[a].status = "ERROR" /\ new = "ACTIVE"
                                         THEN 0 ELSE seen[a].errors), "commit")
      <4> DEFINE n == IF seen[a].status = "ERROR" /\ new = "ACTIVE"
                      THEN 0 ELSE seen[a].errors
      <4>1. n \in Nat /\ new \in State \cup {None}
        BY <1>0, <2>0 DEF Object, State
      <4> HIDE DEF n
      <4>2. Changes(a, new, n) \in Write
        BY <2>0, <4>1, ChangesType
      <4>3. Flush(a, Changes(a, new, n), "commit") /\ "commit" \in Stage
        BY <3>3 DEF n, Stage
      <4> QED
        BY <2>0, <4>2, <4>3, FlushType
    <3> QED
      BY <3>1, <3>2, <3>3
  <2>3. CASE Delete(a)
    <3>1. [status |-> "DELETED", errors |-> None] \in Write
      BY DEF Write, State
    <3> QED
      BY <2>0, <2>3, <3>1, FlushType DEF Delete, Stage
  <2>4. CASE AdminStale(a)
    BY <2>0, <2>4, StaleType DEF AdminStale
  <2>5. CASE CommitAdmin(a)
    <3>1. Close(a, "done") /\ CommitRow(a)
      BY <2>5 DEF CommitAdmin
    <3> QED
      BY <2>0, <2>5, <3>1, CloseType, CommitRowType DEF TypeOK, CommitAdmin
  <2> QED
    BY <1>2, <2>1, <2>2, <2>3, <2>4, <2>5 DEF Administrate
<1>3. ASSUME NEW s \in Actor, SessionFails(s) \/ Crash(s)
      PROVE  TypeOK'
  <2>1. PICK next \in Stage : Close(s, next)
    BY <1>3 DEF SessionFails, Crash, Stage
  <2>2. faults' \in 0..MaxFaults /\ UNCHANGED <<row, queue, covered>>
    BY <1>3, Limits DEF TypeOK, SessionFails, Crash
  <2> QED
    BY <2>1, <2>2, CloseType DEF TypeOK, row
<1>4. CASE UNCHANGED vars
  BY <1>4 DEF TypeOK, vars, row, run
<1> QED
  BY <1>1, <1>2, <1>3, <1>4 DEF Next, Actor

-----------------------------------------------------------------------------
(* A step is one of four things to the row: none, the SELECT, the flush or *)
(* the end of a session, with or without a commit.                         *)

SessionStage == {"loaded", "loadedFailure", "commit", "commitFailure"}

Local(s) ==
  /\ ~InSession(s)
  /\ \E stage \in Stage \ SessionStage : pc' = [pc EXCEPT ![s] = stage]
  /\ UNCHANGED <<row, seen, tx, lock>>

Opens(s) ==
  /\ ~InSession(s)
  /\ Overlap \/ \A r \in Actor : ~InSession(r)
  /\ status # "DELETED"
  /\ \E stage \in {"loaded", "loadedFailure"} : pc' = [pc EXCEPT ![s] = stage]
  /\ seen' = [seen EXCEPT ![s] = [status |-> status, errors |-> errors]]
  /\ UNCHANGED <<row, tx, lock>>

ParksOnly(write) ==
  /\ write.status \in {None, "ERROR"}
  /\ write.status = "ERROR" => write.errors \in Nat /\ write.errors >= Threshold

Flushes(s) ==
  \E write \in Write, stage \in {"commit", "commitFailure"} :
    Flush(s, write, stage) /\ (s \in Collector => ParksOnly(write))

Ends(s) ==
  /\ \E stage \in {"idle", "done", "failed"} : Close(s, stage)
  /\ \/ UNCHANGED row
     \/ Writing(s) /\ CommitRow(s)

Step(s) ==
  \/ s \in Collector /\ Collect(s)
  \/ s \in Admin /\ Administrate(s)
  \/ SessionFails(s)
  \/ s \in Collector /\ Crash(s)

LEMMA Steps ==
  ASSUME [Next]_vars
  PROVE  UNCHANGED vars \/ \E s \in Actor : Step(s)
BY DEF Next, Step, Actor

LEMMA OpenShape ==
  ASSUME NEW s \in Actor, NEW loaded \in {"loaded", "loadedFailure"},
         NEW ghost \in Stage \ SessionStage, ~InSession(s), Open(s, loaded, ghost)
  PROVE  Local(s) \/ Opens(s)
BY DEF Open, Local, Opens, Goto

LEMMA StaleEnds ==
  ASSUME NEW s \in Actor, NEW stage \in {"idle", "done", "failed"}, Stale(s, stage)
  PROVE  Ends(s)
BY DEF Stale, Ends, row

LEMMA CollectShape ==
  ASSUME TypeOK, NEW c \in Collector, Collect(c)
  PROVE  Local(c) \/ Opens(c) \/ Flushes(c) \/ Ends(c)
<1>0. c \in Actor /\ seen[c] \in Object
  BY DEF Actor, TypeOK
<1>1. CASE LoadActive(c) \/ TimesOut(c) \/ Fetches(c) \/ PublishFails(c)
  BY <1>1 DEF LoadActive, TimesOut, Fetches, PublishFails, Local, InSession, Goto,
              Stage, SessionStage
<1>2. CASE FetchFails(c) \/ Publishes(c)
  <2>1. pc' = [pc EXCEPT ![c] = pc[c]] \/ pc' = [pc EXCEPT ![c] = "failed"]
    BY <1>0, <1>2 DEF TypeOK, FetchFails, Publishes, Goto
  <2> QED
    BY <1>0, <1>2, <2>1 DEF FetchFails, Publishes, Local, InSession, Stage, SessionStage
<1>3. CASE OpenSuccess(c) \/ OpenFailure(c)
  BY <1>0, <1>3, OpenShape
     DEF OpenSuccess, OpenFailure, InSession, Stage, SessionStage
<1>4. CASE ApplySuccess(c)
  <2> DEFINE write == Changes(c, seen[c].status, 0)
  <2>1. write \in Write /\ ParksOnly(write)
    BY <1>0, NoneIsNoValue DEF Changes, Write, Object, ParksOnly, State, Status
  <2>2. Flush(c, write, "commit") \/ Stale(c, "failed")
    BY <1>4 DEF ApplySuccess
  <2> HIDE DEF write
  <2> QED
    BY <1>0, <2>1, <2>2, StaleEnds DEF Flushes
<1>5. CASE ApplyFailure(c)
  <2> DEFINE n == seen[c].errors + 1
             new == IF n >= Threshold THEN "ERROR" ELSE seen[c].status
             write == Changes(c, new, n)
  <2>1. write \in Write /\ ParksOnly(write)
    BY <1>0, Limits, NoneIsNoValue
       DEF Changes, Write, Object, ParksOnly, State, Status
  <2>2. Flush(c, write, "commitFailure") \/ Stale(c, "idle")
    BY <1>5 DEF ApplyFailure
  <2> HIDE DEF write
  <2> QED
    BY <1>0, <2>1, <2>2, StaleEnds DEF Flushes
<1>6. CASE CommitSuccess(c) \/ CommitFailure(c)
  BY <1>6 DEF CommitSuccess, CommitFailure, Ends, Writing
<1> QED
  BY <1>1, <1>2, <1>3, <1>4, <1>5, <1>6 DEF Collect

LEMMA Shape ==
  ASSUME TypeOK, NEW s \in Actor, Step(s)
  PROVE  Local(s) \/ Opens(s) \/ Flushes(s) \/ Ends(s)
<1>1. CASE s \in Admin /\ Administrate(s)
  <2>0. s \notin Collector /\ "done" \in Stage \ SessionStage
    BY <1>1, Actors DEF Stage, SessionStage
  <2>1. CASE OpenAdmin(s)
    BY <2>0, <2>1, OpenShape DEF OpenAdmin, InSession
  <2>2. CASE Patch(s)
    <3>1. seen[s] \in Object
      BY DEF TypeOK
    <3>2. PICK new \in Status, n \in Nat :
             \/ Close(s, "done") /\ UNCHANGED row
             \/ Flush(s, Changes(s, new, n), "commit")
      BY <2>2, <3>1 DEF Patch, Object
    <3>3. Changes(s, new, n) \in Write
      BY ChangesType DEF State
    <3> QED
      BY <2>0, <3>2, <3>3 DEF Flushes, Ends
  <2>3. CASE Delete(s)
    <3>1. [status |-> "DELETED", errors |-> None] \in Write
      BY DEF Write, State
    <3> QED
      BY <2>0, <2>3, <3>1 DEF Delete, Flushes
  <2>4. CASE AdminStale(s)
    BY <2>0, <2>4, StaleEnds DEF AdminStale
  <2>5. CASE CommitAdmin(s)
    BY <2>0, <2>5 DEF CommitAdmin, Ends, Writing
  <2> QED
    BY <1>1, <2>1, <2>2, <2>3, <2>4, <2>5 DEF Administrate
<1>2. CASE SessionFails(s) \/ (s \in Collector /\ Crash(s))
  BY <1>2 DEF SessionFails, Crash, Ends, row
<1> QED
  BY <1>1, <1>2, CollectShape DEF Step

(* The row has one writer at a time.                                       *)
LEMMA NextWriters ==
  ASSUME TypeOK, WritersHoldTheRow, NEW s \in Actor, Step(s)
  PROVE  WritersHoldTheRow'
<1>0. None \notin Actor
  BY NoneIsNoValue
<1>1. CASE Local(s) \/ Opens(s)
  BY <1>0, <1>1 DEF TypeOK, Local, Opens, WritersHoldTheRow, Writing, InSession,
                    SessionStage
<1>2. CASE Flushes(s)
  BY <1>0, <1>2 DEF TypeOK, Flushes, Flush, Goto, WritersHoldTheRow, Writing
<1>3. CASE Ends(s)
  BY <1>0, <1>3 DEF TypeOK, Ends, Close, Goto, WritersHoldTheRow, Writing
<1> QED
  BY <1>1, <1>2, <1>3, Shape

(* What a collector has flushed never reactivates or passivates.           *)
LEMMA NextFlushed ==
  ASSUME TypeOK, NEW s \in Actor, Step(s),
         NEW c \in Collector, FlushedByCollector(c)
  PROVE  FlushedByCollector(c)'
<1>0. c \in Actor
  BY DEF Actor
<1>1. CASE Local(s) \/ Opens(s)
  BY <1>0, <1>1 DEF Local, Opens, FlushedByCollector
<1>2. CASE Flushes(s)
  BY <1>0, <1>2 DEF TypeOK, Flushes, Flush, FlushedByCollector, ParksOnly
<1>3. CASE Ends(s)
  BY <1>0, <1>3, NoneIsNoValue
     DEF TypeOK, Ends, Close, FlushedByCollector, NoWrite, State, Status
<1> QED
  BY <1>1, <1>2, <1>3, Shape

(* A step leaves the other runs alone and takes nothing out of the queue.  *)
LEMMA OthersUntouched ==
  ASSUME TypeOK, NEW s \in Actor, Step(s)
  PROVE  /\ queue \subseteq queue'
         /\ \A c \in Collector \ {s} :
              pc'[c] = pc[c] /\ got'[c] = got[c] /\ feed'[c] \subseteq feed[c]
                             /\ feed[c] \subseteq feed'[c]
<1>0. \A c \in Collector : c \in Actor
  BY DEF Actor
<1>1. CASE (Local(s) \/ Opens(s)) /\ s \in Collector /\ Collect(s)
  BY <1>0, <1>1 DEF TypeOK, Local, Opens, Collect, LoadActive, FetchFails, TimesOut,
     Fetches, Publishes, PublishFails, OpenSuccess, ApplySuccess, CommitSuccess,
     OpenFailure, ApplyFailure, CommitFailure, Open, Flush, Stale, Close, Forget, run
<1>2. CASE (Local(s) \/ Opens(s)) /\ ~(s \in Collector /\ Collect(s))
  BY <1>0, <1>2 DEF TypeOK, Local, Opens, Step, Administrate, OpenAdmin, Patch, Delete,
     AdminStale, CommitAdmin, SessionFails, Crash, Open, Flush, Stale, Close,
     Forget, run
<1>3. CASE Flushes(s)
  BY <1>0, <1>3 DEF TypeOK, Flushes, Flush, Goto, run
<1>4. CASE Ends(s)
  <2>1. \A c \in Collector \ {s} : pc'[c] = pc[c] /\ got'[c] = got[c] /\ feed'[c] = feed[c]
    BY <1>0, <1>4 DEF TypeOK, Ends, Close, Goto, Forget, run
  <2>2. queue \subseteq queue'
    BY DEF Step, Collect, Administrate, LoadActive, FetchFails, TimesOut,
       Fetches, Publishes, PublishFails, OpenSuccess, ApplySuccess, CommitSuccess,
       OpenFailure, ApplyFailure, CommitFailure, OpenAdmin, Patch, Delete,
       AdminStale, CommitAdmin, SessionFails, Crash, Open, Flush, Stale
  <2> QED
    BY <2>1, <2>2
<1> QED
  BY <1>1, <1>2, <1>3, <1>4, Shape

(* A run publishes what it fetched, or fails.                              *)
LEMMA NextAccounted ==
  ASSUME TypeOK, NEW s \in Actor, Step(s), NEW c \in Collector, Accounted(c)
  PROVE  Accounted(c)'
<1>0. c \in Actor /\ c \notin Admin
  BY Actors DEF Actor
<1>1. CASE c # s
  BY <1>1, OthersUntouched DEF Accounted
<1>2. CASE c = s /\ Collect(c)
  <2>1. CASE LoadActive(c) \/ FetchFails(c) \/ TimesOut(c) \/ PublishFails(c)
    BY <1>0, <2>1
       DEF TypeOK, Accounted, LoadActive, FetchFails, TimesOut, PublishFails, Goto
  <2>2. CASE Fetches(c)
    BY <1>0, <2>2 DEF TypeOK, Accounted, Fetches, Goto
  <2>3. CASE Publishes(c)
    BY <1>0, <2>3 DEF TypeOK, Accounted, Publishes
  <2>4. CASE OpenSuccess(c) \/ OpenFailure(c)
    BY <1>0, <2>4
       DEF TypeOK, Accounted, OpenSuccess, OpenFailure, Open, Goto, run
  <2>5. CASE ApplySuccess(c)
    BY <1>0, <2>5
       DEF TypeOK, Accounted, ApplySuccess, Flush, Stale, Close, Goto, run
  <2>6. CASE ApplyFailure(c)
    BY <1>0, <2>6
       DEF TypeOK, Accounted, ApplyFailure, Flush, Stale, Close, Goto, run
  <2>7. CASE CommitSuccess(c) \/ CommitFailure(c)
    BY <1>0, <2>7 DEF TypeOK, Accounted, CommitSuccess, CommitFailure, Close, Goto
  <2> QED
    BY <1>2, <2>1, <2>2, <2>3, <2>4, <2>5, <2>6, <2>7 DEF Collect
<1>3. CASE c = s /\ (SessionFails(c) \/ Crash(c))
  BY <1>0, <1>3 DEF TypeOK, Accounted, SessionFails, Crash, Close, Goto
<1> QED
  BY <1>0, <1>1, <1>2, <1>3 DEF Step

(* Only the commit of a success adds to covered.                           *)
LEMMA NextCovered ==
  ASSUME TypeOK, SuccessMeansPublished, NEW s \in Actor, Step(s),
         \A c \in Collector : Accounted(c)
  PROVE  SuccessMeansPublished'
<1>1. CASE s \in Collector /\ CommitSuccess(s)
  BY <1>1 DEF CommitSuccess, Accounted, SuccessMeansPublished
<1>2. CASE ~(s \in Collector /\ CommitSuccess(s))
  <2>1. covered' = covered
    BY <1>2 DEF Step, Collect, Administrate, LoadActive, FetchFails, TimesOut,
       Fetches, Publishes, PublishFails, OpenSuccess, ApplySuccess,
       OpenFailure, ApplyFailure, CommitFailure, OpenAdmin, Patch, Delete,
       AdminStale, CommitAdmin, SessionFails, Crash, Open, Flush, Stale
  <2> QED
    BY <2>1, OthersUntouched DEF SuccessMeansPublished
<1> QED
  BY <1>1, <1>2

-----------------------------------------------------------------------------
(* The theorems.                                                           *)

(* IInv is inductive: it holds in every reachable state.                   *)
THEOREM Inductive == Spec => []IInv
<1>1. IInv /\ [Next]_vars => IInv'
  <2> SUFFICES ASSUME IInv, [Next]_vars PROVE IInv'
    OBVIOUS
  <2>1. TypeOK'
    BY NextTypeOK DEF IInv
  <2>2. CASE UNCHANGED vars
    BY <2>1, <2>2 DEF IInv, vars, row, run, WritersHoldTheRow, Writing,
       FlushedByCollector, Accounted, SuccessMeansPublished
  <2>3. ASSUME NEW s \in Actor, Step(s)
        PROVE  IInv'
    <3>1. WritersHoldTheRow'
      BY <2>3, NextWriters DEF IInv
    <3>2. \A c \in Collector : FlushedByCollector(c)' /\ Accounted(c)'
      BY <2>3, NextFlushed, NextAccounted DEF IInv
    <3>3. SuccessMeansPublished'
      BY <2>3, NextCovered DEF IInv
    <3> QED
      BY <2>1, <3>1, <3>2, <3>3 DEF IInv
  <2> QED
    BY <2>2, <2>3, Steps
<1> QED
  BY <1>1, InitIInv, PTL DEF Spec

(* A success on record (last_fetched_at) has published what it fetched.    *)
THEOREM SuccessAlwaysPublished == Spec => []SuccessMeansPublished
<1>1. IInv => SuccessMeansPublished
  BY DEF IInv
<1> QED
  BY <1>1, Inductive, PTL

(* However a run overlaps with other runs and with admins, it moves the    *)
(* status of a source in one way only: to ERROR, at the threshold.         *)
THEOREM CollectorsAlwaysOnlyPark == Spec => CollectorsOnlyPark
<1> DEFINE Parks == status' # status /\ lock \notin Admin
                      => status' = "ERROR" /\ errors' >= Threshold
<1>1. IInv /\ [Next]_vars => [Parks]_vars
  <2> SUFFICES ASSUME IInv, [Next]_vars, status' # status, lock \notin Admin
               PROVE  status' = "ERROR" /\ errors' >= Threshold
    BY DEF vars
  <2>1. PICK s \in Actor : Step(s)
    BY Steps DEF vars, row
  <2>2. Writing(s) /\ CommitRow(s)
    BY <2>1, Shape DEF IInv, Local, Opens, Flushes, Flush, Ends, row
  <2>3. s \in Collector
    BY <2>2 DEF IInv, WritersHoldTheRow, Actor
  <2>4. tx[s].status = "ERROR"
    BY <2>2, <2>3 DEF IInv, CommitRow, FlushedByCollector
  <2> QED
    BY <2>2, <2>3, <2>4, NoneIsNoValue DEF IInv, CommitRow, FlushedByCollector, State, Status
<1> QED
  BY <1>1, Inductive, PTL DEF Spec, CollectorsOnlyPark
-----------------------------------------------------------------------------
(* Sessions that do not overlap implement the bookkeeping of SourceHealth. *)

(* What a session is about to commit, in terms of the object it loaded.    *)
Success(s) ==
  s \in Collector /\ pc[s] = "commit" /\ tx[s] = Changes(s, seen[s].status, 0)

Failure(s) ==
  /\ s \in Collector
  /\ pc[s] = "commitFailure"
  /\ tx[s] = Changes(s, IF seen[s].errors + 1 >= Threshold
                        THEN "ERROR" ELSE seen[s].status, seen[s].errors + 1)

PatchTo(s, new) ==
  /\ s \in Admin
  /\ tx[s] = Changes(s, new, IF seen[s].status = "ERROR" /\ new = "ACTIVE"
                             THEN 0 ELSE seen[s].errors)

Deletion(s) == s \in Admin /\ tx[s] = [status |-> "DELETED", errors |-> None]

Meant(s) ==
  Writing(s) => Success(s) \/ Failure(s) \/ Deletion(s)
                \/ \E new \in Status : PatchTo(s, new)

(* An open session is the only one, and its object is the row.             *)
Fresh ==
  /\ \A r, s \in Actor : InSession(r) /\ InSession(s) => r = s
  /\ \A s \in Actor : InSession(s) =>
       status # "DELETED" /\ seen[s] = [status |-> status, errors |-> errors]

(* The actions that flush, told by the row's lock.                         *)
LEMMA Flushers ==
  ASSUME TypeOK, NEW s \in Actor, Step(s), Flushes(s)
  PROVE  \/ s \in Collector /\ (ApplySuccess(s) \/ ApplyFailure(s))
         \/ s \in Admin /\ (Patch(s) \/ Delete(s))
<1>1. lock = None /\ lock' # None
  BY NoneIsNoValue DEF Flushes, Flush
<1>2. ~Close(s, "idle") /\ ~Close(s, "done") /\ ~Close(s, "failed")
  BY <1>1 DEF Close
<1>3. /\ ~LoadActive(s) /\ ~FetchFails(s) /\ ~TimesOut(s) /\ ~Fetches(s)
      /\ ~Publishes(s) /\ ~PublishFails(s)
  BY <1>1 DEF LoadActive, FetchFails, TimesOut, Fetches, Publishes, PublishFails
<1>4. ~OpenSuccess(s) /\ ~OpenFailure(s) /\ ~OpenAdmin(s)
  BY <1>1 DEF OpenSuccess, OpenFailure, OpenAdmin, Open
<1>5. /\ ~CommitSuccess(s) /\ ~CommitFailure(s) /\ ~CommitAdmin(s)
      /\ ~AdminStale(s) /\ ~SessionFails(s) /\ ~Crash(s)
  BY <1>2 DEF CommitSuccess, CommitFailure, CommitAdmin, AdminStale, Stale,
              SessionFails, Crash
<1> QED
  BY <1>3, <1>4, <1>5 DEF Step, Collect, Administrate

LEMMA NextFresh ==
  ASSUME TypeOK, Overlap = FALSE, Fresh, NEW s \in Actor, Step(s)
  PROVE  Fresh'
<1>1. CASE Local(s)
  <2>1. \A r \in Actor : InSession(r)' => InSession(r)
    BY <1>1 DEF TypeOK, Local, InSession, SessionStage
  <2> QED
    BY <1>1, <2>1 DEF Local, Fresh, row
<1>2. CASE Opens(s)
  <2>1. \A r \in Actor : InSession(r)' => r = s
    BY <1>2 DEF TypeOK, Opens, InSession
  <2> QED
    BY <1>2, <2>1 DEF TypeOK, Opens, Fresh, row
<1>3. CASE Flushes(s)
  <2>1. InSession(s)
    BY <1>3, Flushers DEF ApplySuccess, ApplyFailure, Patch, Delete, InSession
  <2>2. \A r \in Actor : InSession(r)' => InSession(r)
    BY <1>3, <2>1 DEF TypeOK, Flushes, Flush, Goto, InSession
  <2> QED
    BY <1>3, <2>2 DEF Flushes, Flush, Fresh, row
<1>4. CASE Ends(s)
  <2>1. \A r \in Actor : InSession(r)' => InSession(r) /\ r # s /\ seen'[r] = seen[r]
    BY <1>4 DEF TypeOK, Ends, Close, Goto, InSession
  <2>2. CASE UNCHANGED row
    BY <2>1, <2>2 DEF Fresh, row
  <2>3. CASE Writing(s)
    <3>1. \A r \in Actor : ~InSession(r)'
      BY <2>1, <2>3 DEF Fresh, Writing, InSession
    <3> QED
      BY <3>1 DEF Fresh
  <2> QED
    BY <1>4, <2>2, <2>3 DEF Ends
<1> QED
  BY <1>1, <1>2, <1>3, <1>4, Shape

LEMMA NextMeant ==
  ASSUME TypeOK, NEW s \in Actor, Step(s), NEW r \in Actor, Meant(r)
  PROVE  Meant(r)'
<1>1. CASE r # s
  <2>1. pc'[r] = pc[r] /\ tx'[r] = tx[r] /\ seen'[r] = seen[r]
    <3>1. CASE Local(s) \/ Opens(s)
      BY <1>1, <3>1 DEF TypeOK, Local, Opens
    <3>2. CASE Flushes(s) \/ Ends(s)
      BY <1>1, <3>2 DEF TypeOK, Flushes, Flush, Ends, Close, Goto
    <3> QED
      BY <3>1, <3>2, Shape
  <2> QED
    BY <2>1 DEF Meant, Writing, Success, Failure, Deletion, PatchTo, Changes
<1>2. CASE r = s /\ (Local(s) \/ Opens(s) \/ Ends(s))
  <2>1. ~Writing(s)'
    BY <1>2 DEF TypeOK, Local, Opens, Ends, Close, Goto, Writing, SessionStage
  <2> QED
    BY <1>2, <2>1 DEF Meant
<1>3. CASE r = s /\ Flushes(s)
  <2>0. /\ \E write \in Write, stage \in {"commit", "commitFailure"} : Flush(s, write, stage)
        /\ s \in Collector <=> s \notin Admin
    BY <1>3, Actors DEF Flushes, Actor
  <2>1. CASE s \in Collector /\ ApplySuccess(s)
    BY <1>3, <2>0, <2>1 DEF TypeOK, ApplySuccess, Flush, Stale, Goto, Meant, Success,
       Changes
  <2>2. CASE s \in Collector /\ ApplyFailure(s)
    BY <1>3, <2>0, <2>2 DEF TypeOK, ApplyFailure, Flush, Stale, Goto, Meant, Failure,
       Changes
  <2>3. CASE s \in Admin /\ Patch(s)
    BY <1>3, <2>0, <2>3 DEF TypeOK, Patch, Flush, Close, Goto, Meant, PatchTo, Changes
  <2>4. CASE s \in Admin /\ Delete(s)
    BY <1>3, <2>0, <2>4 DEF TypeOK, Delete, Flush, Goto, Meant, Deletion
  <2> QED
    BY <1>3, <2>1, <2>2, <2>3, <2>4, Flushers
<1> QED
  BY <1>1, <1>2, <1>3, Shape

(* The step of a session that ends with a commit is one of SourceHealth.   *)
LEMMA CommitStep ==
  ASSUME TypeOK, Fresh, NEW s \in Actor, Meant(s), Writing(s), CommitRow(s)
  PROVE  Health!Next
<1>0. /\ status # "DELETED" /\ status \in Status /\ errors \in Nat
      /\ seen[s] = [status |-> status, errors |-> errors]
      /\ None \notin State /\ None \notin Nat
  BY NoneIsNoValue DEF TypeOK, Fresh, Writing, InSession, State
<1>1. ASSUME NEW new \in Status, NEW n \in Nat, tx[s] = Changes(s, new, n)
      PROVE  status' = new /\ errors' = n
  BY <1>0, <1>1 DEF CommitRow, Changes, State
<1>2. CASE Success(s)
  BY <1>0, <1>1, <1>2 DEF Success, Health!Next, Health!Succeed
<1>3. CASE Failure(s)
  <2> DEFINE n == errors + 1
             new == IF n >= Threshold THEN "ERROR" ELSE status
  <2>1. new \in Status /\ n \in Nat /\ tx[s] = Changes(s, new, n)
    BY <1>0, <1>3 DEF Failure, Status
  <2>2. status' = new /\ errors' = n
    BY <1>1, <2>1
  <2> QED
    BY <1>0, <2>2 DEF Health!Next, Health!Fail
<1>4. ASSUME NEW new \in Status, PatchTo(s, new)
      PROVE  Health!Next
  <2> DEFINE n == IF status = "ERROR" /\ new = "ACTIVE" THEN 0 ELSE errors
  <2>1. n \in Nat /\ tx[s] = Changes(s, new, n)
    BY <1>0, <1>4 DEF PatchTo
  <2>2. status' = new /\ errors' = n
    BY <1>1, <2>1
  <2> QED
    BY <1>0, <2>2 DEF Health!Next, Health!Patch, Status
<1>5. CASE Deletion(s)
  BY <1>0, <1>5 DEF Deletion, CommitRow, State, Health!Next, Health!Delete
<1> QED
  BY <1>2, <1>3, <1>4, <1>5 DEF Meant

(* As long as a session waits for the one before it, every update counts.  *)
THEOREM HealthImplemented == Overlap = FALSE => (Spec => HealthSpec)
<1> SUFFICES ASSUME Overlap = FALSE PROVE Spec => HealthSpec
  OBVIOUS
<1> DEFINE Inv == TypeOK /\ Fresh /\ \A r \in Actor : Meant(r)
<1>1. Init => Inv
  <2> SUFFICES ASSUME Init PROVE Inv
    OBVIOUS
  <2>1. TypeOK
    BY InitIInv DEF IInv
  <2>2. \A s \in Actor : ~InSession(s) /\ ~Writing(s)
    BY DEF Init, InSession, Writing
  <2> QED
    BY <2>1, <2>2 DEF Fresh, Meant
<1>2. Inv /\ [Next]_vars => Inv'
  <2> SUFFICES ASSUME Inv, [Next]_vars PROVE Inv'
    OBVIOUS
  <2>1. TypeOK'
    BY NextTypeOK
  <2>2. CASE UNCHANGED vars
    BY <2>1, <2>2 DEF vars, row, Fresh, Meant, InSession, Writing, Success,
       Failure, PatchTo, Deletion, Changes
  <2>3. ASSUME NEW s \in Actor, Step(s)
        PROVE  Inv'
    BY <2>1, <2>3, NextFresh, NextMeant
  <2> QED
    BY <2>2, <2>3, Steps
<1>3. Init => Health!Init
  BY DEF Init, Health!Init
<1>4. Inv /\ [Next]_vars => [Health!Next]_(Health!vars)
  <2> SUFFICES ASSUME Inv, [Next]_vars, ~UNCHANGED row
               PROVE  Health!Next
    BY DEF Health!vars, row
  <2>1. PICK s \in Actor : Step(s)
    BY Steps DEF vars
  <2>2. Writing(s) /\ CommitRow(s)
    BY <2>1, Shape DEF Local, Opens, Flushes, Flush, Ends
  <2> QED
    BY <2>2, CommitStep
<1> QED
  BY <1>1, <1>2, <1>3, <1>4, PTL DEF Spec, HealthSpec, Health!Spec
=============================================================================
