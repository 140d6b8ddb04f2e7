-------------------------- MODULE SourceLifecycle ---------------------------
(***************************************************************************)
(* One source between the collector Lambdas and the admins.  A Lambda      *)
(* loads the ACTIVE sources, fetches with retries, publishes the articles  *)
(* and then records success or failure in a short session of its own; an   *)
(* admin's PATCH or DELETE is another session on the same row.             *)
(*                                                                         *)
(* Abstractions.  The row is its status and error_count; last_fetched_at   *)
(* is the history variable covered.  Log lines and the audit rows nobody   *)
(* reads back are left out.  PostgreSQL runs READ COMMITTED and the ORM    *)
(* writes the columns whose value differs from the one it loaded.          *)
(***************************************************************************)
EXTENDS Naturals

CONSTANTS
  Collector,   \* collector Lambdas that may run at the same time
  Admin,       \* PATCH .../status and DELETE calls on the source
  Article,     \* what its feed may carry
  Invalid,     \* articles BaseCollector.validate rejects
  Threshold,   \* ERROR_COUNT_THRESHOLD
  Attempts,    \* MAX_RETRIES + 1
  Reachable,   \* can a fetch succeed?
  Hanging,     \* does a fetch fail by its timeout only?
  Fits,        \* fetch timeouts that fit into the Lambda's own timeout
  Overlap,     \* may a session begin while another one is open?
  MaxFaults,   \* bound on crashes, lost connections and failed commits
  None         \* no value

ASSUME Articles == Invalid \subseteq Article
ASSUME Limits == Threshold \in Nat \ {0} /\ Attempts \in Nat \ {0}
                 /\ Fits \in Nat /\ MaxFaults \in Nat
ASSUME Switches == {Reachable, Hanging, Overlap} \subseteq BOOLEAN
ASSUME Actors == Collector \cap Admin = {}

Actor == Collector \cup Admin

VARIABLES
  status,      \* committed sources.status, DELETED without the row
  errors,      \* committed sources.error_count
  queue,       \* articles published to SQS
  covered,     \* history: articles of the collections recorded as successes
  pc,          \* what each actor does next
  attempt,     \* fetches a collector has tried
  feed,        \* articles a collector has still to publish
  got,         \* articles its fetch returned
  seen,        \* the Source object of the session, as loaded
  tx,          \* the session's flushed, uncommitted UPDATE
  lock,        \* the session that holds the row
  faults       \* faults so far

row == <<status, errors>>
run == <<attempt, feed, got>>
vars == <<row, queue, covered, pc, run, seen, tx, lock, faults>>

Status == {"ACTIVE", "INACTIVE", "ERROR"}
State == Status \cup {"DELETED"}
Stage == {"idle", "fetch", "publish", "failed", "loaded", "loadedFailure",
          "commit", "commitFailure", "done"}

ASSUME NoneIsNoValue == None \notin Actor \cup State \cup Nat

Object == [status : Status \cup {None}, errors : Nat]
Write == [status : State \cup {None}, errors : Nat \cup {None}]

NoWrite == [status |-> None, errors |-> None]
NoObject == [status |-> None, errors |-> 0]

InSession(s) == pc[s] \in {"loaded", "loadedFailure", "commit", "commitFailure"}

Init ==
  /\ status = "ACTIVE"
  /\ errors = 0
  /\ queue = {}
  /\ covered = {}
  /\ pc = [s \in Actor |-> "idle"]
  /\ attempt = [c \in Collector |-> 0]
  /\ feed = [c \in Collector |-> {}]
  /\ got = [c \in Collector |-> {}]
  /\ seen = [s \in Actor |-> NoObject]
  /\ tx = [s \in Actor |-> NoWrite]
  /\ lock = None
  /\ faults = 0

Goto(s, stage) == pc' = [pc EXCEPT ![s] = stage]

-----------------------------------------------------------------------------
(* Sessions on the source's row.                                           *)

(* A run that is over leaves nothing behind.                               *)
Forget(s, next) ==
  IF next = "idle"
  THEN /\ attempt' = [attempt EXCEPT ![s] = 0]
       /\ feed' = [feed EXCEPT ![s] = {}]
       /\ got' = [got EXCEPT ![s] = {}]
  ELSE UNCHANGED run

(* SELECT the row; ghost is where the caller goes when it is not there.    *)
Open(s, loaded, ghost) ==
  /\ Overlap \/ \A r \in Actor : ~InSession(r)
  /\ IF status = "DELETED"
     THEN Goto(s, ghost) /\ Forget(s, ghost) /\ UNCHANGED seen
     ELSE /\ Goto(s, loaded)
          /\ seen' = [seen EXCEPT ![s] = [status |-> status, errors |-> errors]]
          /\ UNCHANGED run
  /\ UNCHANGED <<row, queue, covered, tx, lock, faults>>

(* The columns an UPDATE sets: those that differ from the loaded ones.     *)
Changes(s, newStatus, newErrors) ==
  [status |-> IF newStatus = seen[s].status THEN None ELSE newStatus,
   errors |-> IF newErrors = seen[s].errors THEN None ELSE newErrors]

(* The flush waits for the row; without a row the ORM raises.              *)
Flush(s, write, commit) ==
  /\ lock = None
  /\ status # "DELETED"
  /\ lock' = s
  /\ tx' = [tx EXCEPT ![s] = write]
  /\ Goto(s, commit)
  /\ UNCHANGED <<row, queue, covered, run, seen, faults>>

Close(s, next) ==
  /\ Goto(s, next)
  /\ Forget(s, next)
  /\ seen' = [seen EXCEPT ![s] = NoObject]
  /\ tx' = [tx EXCEPT ![s] = NoWrite]
  /\ lock' = IF lock = s THEN None ELSE lock

(* The row was deleted after it was loaded: an UPDATE raises StaleDataError, *)
(* a second DELETE changes nothing.                                        *)
Stale(s, next) ==
  /\ lock = None
  /\ status = "DELETED"
  /\ Close(s, next)
  /\ UNCHANGED <<row, queue, covered, faults>>

CommitRow(s) ==
  /\ status' = IF tx[s].status = None THEN status ELSE tx[s].status
  /\ errors' = IF tx[s].errors = None THEN errors ELSE tx[s].errors

-----------------------------------------------------------------------------
(* The collector Lambda.                                                   *)

(* load_active_sources: what it returns is not read again before the run.  *)
LoadActive(c) ==
  /\ pc[c] = "idle"
  /\ status = "ACTIVE"
  /\ Goto(c, "fetch")
  /\ attempt' = [attempt EXCEPT ![c] = 1]
  /\ UNCHANGED <<row, queue, covered, feed, got, seen, tx, lock, faults>>

(* Mutant of FetchFails: one attempt too many.                             *)
FetchFailsTooLate(c) ==
  /\ pc[c] = "fetch"
  /\ ~Hanging \/ attempt[c] <= Fits
  /\ IF attempt[c] <= Attempts
     THEN attempt' = [attempt EXCEPT ![c] = @ + 1] /\ UNCHANGED pc
     ELSE Goto(c, "failed") /\ UNCHANGED attempt
  /\ UNCHANGED <<row, queue, covered, feed, got, seen, tx, lock, faults>>

(* with_retry around collect().                                            *)
FetchFails(c) ==
  /\ pc[c] = "fetch"
  /\ ~Hanging \/ attempt[c] <= Fits
  /\ IF attempt[c] < Attempts
     THEN attempt' = [attempt EXCEPT ![c] = @ + 1] /\ UNCHANGED pc
     ELSE Goto(c, "failed") /\ UNCHANGED attempt
  /\ UNCHANGED <<row, queue, covered, feed, got, seen, tx, lock, faults>>

(* The Lambda's timeout ends the invocation in the middle of an attempt.   *)
TimesOut(c) ==
  /\ pc[c] = "fetch"
  /\ Hanging
  /\ attempt[c] > Fits
  /\ Goto(c, "idle")
  /\ Forget(c, "idle")
  /\ UNCHANGED <<row, queue, covered, seen, tx, lock, faults>>

Fetches(c) ==
  /\ pc[c] = "fetch"
  /\ Reachable
  /\ \E articles \in SUBSET Article :
       /\ feed' = [feed EXCEPT ![c] = articles]
       /\ got' = [got EXCEPT ![c] = articles]
  /\ Goto(c, "publish")
  /\ UNCHANGED <<row, queue, covered, attempt, seen, tx, lock, faults>>

(* process_articles, one article after the other.  The collectors are      *)
(* registered without a Redis client: dedup_check never finds a duplicate. *)
Publishes(c) ==
  /\ pc[c] = "publish"
  /\ \E a \in feed[c] :
       /\ feed' = [feed EXCEPT ![c] = @ \ {a}]
       /\ queue' = IF a \in Invalid THEN queue ELSE queue \cup {a}
  /\ UNCHANGED <<row, covered, pc, attempt, got, seen, tx, lock, faults>>

(* Mutant of PublishFails: a publish that fails ends the loop quietly.     *)
PublishGivesUp(c) ==
  /\ pc[c] = "publish"
  /\ feed[c] \ Invalid # {}
  /\ feed' = [feed EXCEPT ![c] = {}]
  /\ UNCHANGED <<row, queue, covered, pc, attempt, got, seen, tx, lock, faults>>

(* An article that cannot be published makes the whole run a failure.      *)
PublishFails(c) ==
  /\ pc[c] = "publish"
  /\ feed[c] \ Invalid # {}
  /\ Goto(c, "failed")
  /\ UNCHANGED <<row, queue, covered, run, seen, tx, lock, faults>>

(* record_success in a session of its own.                                 *)
OpenSuccess(c) ==
  /\ pc[c] = "publish"
  /\ feed[c] = {}
  /\ Open(c, "loaded", "idle")

(* Mutant of ApplySuccess: a collection that works reactivates the source. *)
ApplySuccessReactivates(c) ==
  /\ pc[c] = "loaded" /\ c \in Collector
  /\ Flush(c, Changes(c, "ACTIVE", 0), "commit") \/ Stale(c, "failed")

ApplySuccess(c) ==
  /\ pc[c] = "loaded" /\ c \in Collector
  /\ Flush(c, Changes(c, seen[c].status, 0), "commit") \/ Stale(c, "failed")

CommitSuccess(c) ==
  /\ pc[c] = "commit" /\ c \in Collector
  /\ CommitRow(c)
  /\ covered' = covered \cup got[c]
  /\ Close(c, "idle")
  /\ UNCHANGED <<queue, faults>>

(* record_failure, in the except clause of the run.                        *)
OpenFailure(c) ==
  /\ pc[c] = "failed"
  /\ Open(c, "loadedFailure", "idle")

(* Mutant of ApplyFailure: the count starts at one every time.             *)
ApplyFailureRestarts(c) ==
  /\ pc[c] = "loadedFailure"
  /\ \/ Flush(c, Changes(c, IF 1 >= Threshold THEN "ERROR" ELSE seen[c].status, 1),
              "commitFailure")
     \/ Stale(c, "idle")

ApplyFailure(c) ==
  LET n == seen[c].errors + 1 IN
  /\ pc[c] = "loadedFailure"
  /\ \/ Flush(c, Changes(c, IF n >= Threshold THEN "ERROR" ELSE seen[c].status, n),
              "commitFailure")
     \/ Stale(c, "idle")

CommitFailure(c) ==
  /\ pc[c] = "commitFailure"
  /\ CommitRow(c)
  /\ Close(c, "idle")
  /\ UNCHANGED <<queue, covered, faults>>

-----------------------------------------------------------------------------
(* The admin.                                                              *)

OpenAdmin(a) ==
  /\ pc[a] = "idle" /\ a \in Admin
  /\ Open(a, "loaded", "done")

(* Mutant of Patch: the count is cleared by no transition.                 *)
PatchWithoutReset(a) ==
  /\ pc[a] = "loaded" /\ a \in Admin
  /\ \E new \in Status :
       Flush(a, Changes(a, new, seen[a].errors), "commit")

(* patch_source_status; the status the object has already changes nothing. *)
Patch(a) ==
  /\ pc[a] = "loaded" /\ a \in Admin
  /\ \E new \in Status :
       IF new = seen[a].status
       THEN Close(a, "done") /\ UNCHANGED <<row, queue, covered, faults>>
       ELSE Flush(a, Changes(a, new, IF seen[a].status = "ERROR" /\ new = "ACTIVE"
                                     THEN 0 ELSE seen[a].errors), "commit")

Delete(a) ==
  /\ pc[a] = "loaded" /\ a \in Admin
  /\ Flush(a, [status |-> "DELETED", errors |-> None], "commit")

AdminStale(a) ==
  /\ pc[a] = "loaded" /\ a \in Admin
  /\ Stale(a, "done")

CommitAdmin(a) ==
  /\ pc[a] = "commit" /\ a \in Admin
  /\ CommitRow(a)
  /\ Close(a, "done")
  /\ UNCHANGED <<queue, covered, faults>>

-----------------------------------------------------------------------------
(* Faults.                                                                 *)

(* A session that fails: record_success turns into record_failure, the     *)
(* other calls give up.                                                    *)
SessionFails(s) ==
  /\ InSession(s)
  /\ faults < MaxFaults
  /\ faults' = faults + 1
  /\ Close(s, IF s \in Admin THEN "done"
              ELSE IF pc[s] \in {"loaded", "commit"} THEN "failed" ELSE "idle")
  /\ UNCHANGED <<row, queue, covered>>

(* The Lambda is killed or times out.                                      *)
Crash(c) ==
  /\ pc[c] # "idle"
  /\ faults < MaxFaults
  /\ faults' = faults + 1
  /\ Close(c, "idle")
  /\ UNCHANGED <<row, queue, covered>>

-----------------------------------------------------------------------------

Collect(c) ==
  \/ LoadActive(c) \/ FetchFails(c) \/ TimesOut(c) \/ Fetches(c)
  \/ Publishes(c) \/ PublishFails(c)
  \/ OpenSuccess(c) \/ ApplySuccess(c) \/ CommitSuccess(c)
  \/ OpenFailure(c) \/ ApplyFailure(c) \/ CommitFailure(c)

Administrate(a) ==
  \/ OpenAdmin(a) \/ Patch(a) \/ Delete(a) \/ AdminStale(a) \/ CommitAdmin(a)

Next ==
  \/ \E c \in Collector : Collect(c) \/ Crash(c)
  \/ \E a \in Admin : Administrate(a)
  \/ \E s \in Actor : SessionFails(s)

Spec == Init /\ [][Next]_vars

(* EventBridge keeps starting collectors, and a call that has begun ends.  *)
Fairness ==
  /\ \A c \in Collector : WF_vars(Collect(c))
  /\ \A a \in Admin : WF_vars(pc[a] # "idle" /\ Administrate(a))

FairSpec == Spec /\ Fairness

-----------------------------------------------------------------------------
(* Properties.                                                             *)

TypeOK ==
  /\ status \in State
  /\ errors \in Nat
  /\ queue \in SUBSET Article
  /\ covered \in SUBSET Article
  /\ pc \in [Actor -> Stage]
  /\ attempt \in [Collector -> 0..Attempts]
  /\ feed \in [Collector -> SUBSET Article]
  /\ got \in [Collector -> SUBSET Article]
  /\ seen \in [Actor -> Object]
  /\ tx \in [Actor -> Write]
  /\ lock \in Actor \cup {None}
  /\ faults \in 0..MaxFaults

(* The collectors move status in one direction only: whatever an admin does *)
(* between their SELECT and their UPDATE, a collector never writes ACTIVE   *)
(* or INACTIVE, and writes ERROR only together with a count that reached    *)
(* the threshold.                                                           *)
CollectorsOnlyPark ==
  [][status' # status /\ lock \notin Admin
       => status' = "ERROR" /\ errors' >= Threshold]_vars

(* A collection recorded as a success has published every valid article it *)
(* fetched, although publishing can fail in the middle of the list and the *)
(* success itself can fail to be recorded.                                 *)
SuccessMeansPublished == covered \ Invalid \subseteq queue

(* Every update of the row counts as long as no session comes between the  *)
(* SELECT and the commit of another: the sessions of overlapping runs and  *)
(* of the admins then implement the bookkeeping of SourceHealth.           *)
Health == INSTANCE SourceHealth WITH state <- status, count <- errors

HealthSpec == Health!Spec

(* A source whose runs stop succeeding ends up parked, although overlapping *)
(* runs overwrite one another's counts: either collections keep being      *)
(* recorded as successes, or from some point on the source is not ACTIVE.  *)
(* An update may be lost, but no run can go on loading a count below the   *)
(* threshold for ever.                                                     *)
FailingSourceIsParked ==
  []<><<\E c \in Collector : CommitSuccess(c)>>_vars \/ <>[](status # "ACTIVE")

-----------------------------------------------------------------------------
(* The inductive invariant behind the theorems of SourceProofs.            *)

Writing(s) == pc[s] \in {"commit", "commitFailure"}

(* Who is about to commit holds the row, so no two are.                    *)
WritersHoldTheRow == \A s \in Actor : Writing(s) <=> lock = s

(* What a collector has flushed never moves the status but to ERROR.       *)
FlushedByCollector(c) ==
  /\ tx[c].status \in {None, "ERROR"}
  /\ tx[c].status = "ERROR" => tx[c].errors \in Nat /\ tx[c].errors >= Threshold

(* What a run has fetched is published or still to be published.           *)
Accounted(c) ==
  /\ pc[c] = "publish" => got[c] \ Invalid \subseteq queue \cup feed[c]
  /\ pc[c] \in {"loaded", "commit"} => got[c] \ Invalid \subseteq queue

IInv ==
  /\ TypeOK
  /\ WritersHoldTheRow
  /\ \A c \in Collector : FlushedByCollector(c) /\ Accounted(c)
  /\ SuccessMeansPublished

-----------------------------------------------------------------------------
(* What the documents say and the code does not keep.                      *)

(* "error_count 3'e ulastiginda source otomatik olarak status = error'a    *)
(* gecer" (Docs/01, Source): a source at the threshold is not ACTIVE.  The *)
(* count is cleared by ERROR to ACTIVE only, not by ERROR to INACTIVE to   *)
(* ACTIVE, and the next failure then parks the source at once.             *)
ActiveBelowThreshold == status = "ACTIVE" => errors < Threshold

(* The state machine of Docs/01, 5.1 enters error from active only.  A run *)
(* that began before an admin passivated the source parks it in ERROR.     *)
OnlyActiveIsParked ==
  [][status # "ACTIVE" /\ lock \notin Admin => status' = status]_vars
=============================================================================
