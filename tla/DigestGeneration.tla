-------------------------- MODULE DigestGeneration --------------------------
(***************************************************************************)
(* Digest generation for one digest type and period.  POST                 *)
(* /digests/generate finds or creates the digest in the session of the     *)
(* request, starts a background task with asyncio.create_task and only     *)
(* then commits; the task finds or creates the digest again in a session   *)
(* of its own, writes the sections, marks the digest READY, notifies the   *)
(* recipients and commits once, at the end.                                *)
(*                                                                         *)
(* Abstractions.  Nothing of a digest but its status and the generations   *)
(* its sections come from; articles, templates and LLM answers are a       *)
(* success or a failure.  PostgreSQL runs READ COMMITTED: a statement sees *)
(* what is committed when it starts, an UPDATE or DELETE waits for the     *)
(* session that holds the row.                                             *)
(***************************************************************************)
EXTENDS Naturals, FiniteSets

CONSTANTS
  Post,        \* calls of POST /digests/generate for the period
  Recipient,   \* user and channel pairs that are to be notified
  Overlap,     \* may a session begin while another one is open?
  None         \* no value

ASSUME OverlapIsSwitch == Overlap \in BOOLEAN

(* A call has the session of its request and that of its task.             *)
Session == Post \X {"request", "task"}

IsTask(s) == s[2] = "task"
TaskOf(s) == <<s[1], "task">>

VARIABLES
  status,      \* committed digests.status, by the session that inserted it
  sections,    \* committed digest_sections: the sessions that wrote them
  logs,        \* committed notification_logs: <<digest, recipient>>
  pc,          \* what each session does next
  digest,      \* its Digest object
  loaded,      \* the status the ORM believes the object has
  target,      \* the sections its DELETE statement saw
  tx,          \* its flushed, uncommitted writes
  rowLock,     \* the session that holds each digests row
  tried        \* history: <<session, digest, recipient>> handed to the mail
               \* or push service

dbVars == <<status, sections, logs>>
ormVars == <<digest, loaded, target>>
vars == <<dbVars, pc, ormVars, tx, rowLock, tried>>

Status == {"GENERATING", "READY", "FAILED"}
Running == {"find", "delete", "deleting", "reset", "schedule", "write",
            "ready", "notify", "failing", "raised", "commit"}
Ended == {"committed", "failed", "aborted"}
Stage == {"idle", "scheduled"} \cup Running \cup Ended

Writes == [status : Status \cup {None}, removed : SUBSET Session,
           added : BOOLEAN, logs : SUBSET Recipient]

ASSUME NoneIsNoValue == None \notin Session \cup Status

NoWrites == [status |-> None, removed |-> {}, added |-> FALSE, logs |-> {}]

Exists(d) == status[d] # "ABSENT"
Open(s) == pc[s] \in Running

Init ==
  /\ status = [d \in Session |-> "ABSENT"]
  /\ sections = [d \in Session |-> {}]
  /\ logs = {}
  /\ pc = [s \in Session |-> "idle"]
  /\ digest = [s \in Session |-> None]
  /\ loaded = [s \in Session |-> None]
  /\ target = [s \in Session |-> {}]
  /\ tx = [s \in Session |-> NoWrites]
  /\ rowLock = [d \in Session |-> None]
  /\ tried = {}

Goto(s, stage) == pc' = [pc EXCEPT ![s] = stage]

(* UPDATE digests SET status: waits for the row, then holds it.            *)
UpdateRow(s, newStatus) ==
  /\ rowLock[digest[s]] \in {s, None}
  /\ rowLock' = [rowLock EXCEPT ![digest[s]] = s]
  /\ tx' = [tx EXCEPT ![s].status = newStatus]
  /\ loaded' = [loaded EXCEPT ![s] = newStatus]

(* A session that ends gives up its locks, its writes and its objects.     *)
Close(s, end) ==
  /\ Goto(s, end)
  /\ tx' = [tx EXCEPT ![s] = NoWrites]
  /\ rowLock' = [d \in Session |-> IF rowLock[d] = s THEN None ELSE rowLock[d]]
  /\ digest' = [digest EXCEPT ![s] = None]
  /\ loaded' = [loaded EXCEPT ![s] = None]
  /\ target' = [target EXCEPT ![s] = {}]
  /\ UNCHANGED tried

Rollback(s, end) == Close(s, end) /\ UNCHANGED dbVars

-----------------------------------------------------------------------------
(* Request and task.                                                       *)

(* A request arrives, or the event loop runs a scheduled task.             *)
Begin(s) ==
  /\ pc[s] = IF IsTask(s) THEN "scheduled" ELSE "idle"
  /\ Overlap \/ \A r \in Session : ~Open(r)
  /\ Goto(s, "find")
  /\ UNCHANGED <<dbVars, ormVars, tx, rowLock, tried>>

(* Where a session goes with its emptied digest.                           *)
WithDigest(s) == IF IsTask(s) THEN "write" ELSE "schedule"

(* find_for_period, then create_generating when there is no digest: the    *)
(* new row is flushed, and nobody else sees it.  scalar_one_or_none raises *)
(* when there are several.                                                 *)
Create(s) ==
  /\ pc[s] = "find"
  /\ \A d \in Session : ~Exists(d)
  /\ digest' = [digest EXCEPT ![s] = s]
  /\ loaded' = [loaded EXCEPT ![s] = "GENERATING"]
  /\ tx' = [tx EXCEPT ![s].status = "GENERATING"]
  /\ Goto(s, WithDigest(s))
  /\ UNCHANGED <<dbVars, target, rowLock, tried>>

Load(s) ==
  /\ pc[s] = "find"
  /\ \E d \in Session :
       /\ Exists(d)
       /\ \A e \in Session \ {d} : ~Exists(e)
       /\ digest' = [digest EXCEPT ![s] = d]
       /\ loaded' = [loaded EXCEPT ![s] = status[d]]
  /\ Goto(s, "delete")
  /\ UNCHANGED <<dbVars, target, tx, rowLock, tried>>

FindRaises(s) ==
  /\ pc[s] = "find"
  /\ \E d, e \in Session : d # e /\ Exists(d) /\ Exists(e)
  /\ Rollback(s, "failed")

(* reset_for_regeneration deletes the sections the statement sees, waiting *)
(* for another session that is deleting one of them ...                    *)
DeleteStarts(s) ==
  /\ pc[s] = "delete"
  /\ target' = [target EXCEPT ![s] = sections[digest[s]]]
  /\ Goto(s, "deleting")
  /\ UNCHANGED <<dbVars, digest, loaded, tx, rowLock, tried>>

(* Mutant of DeleteEnds: a reset that leaves the sections to the cascade.  *)
DeletesNothing(s) ==
  /\ pc[s] = "deleting"
  /\ target' = [target EXCEPT ![s] = {}]
  /\ Goto(s, "reset")
  /\ UNCHANGED <<dbVars, digest, loaded, tx, rowLock, tried>>

DeleteEnds(s) ==
  /\ pc[s] = "deleting"
  /\ \A r \in Session \ {s} : tx[r].removed \cap target[s] = {}
  /\ tx' = [tx EXCEPT ![s].removed = target[s] \cap sections[digest[s]]]
  /\ target' = [target EXCEPT ![s] = {}]
  /\ Goto(s, "reset")
  /\ UNCHANGED <<dbVars, digest, loaded, rowLock, tried>>

(* ... and sets the status, for which the ORM issues an UPDATE only when   *)
(* it believes the status to be another one.                               *)
Reset(s) ==
  /\ pc[s] = "reset"
  /\ \/ /\ loaded[s] # "GENERATING"
        /\ UpdateRow(s, "GENERATING")
     \/ /\ loaded[s] = "GENERATING"
        /\ UNCHANGED <<tx, rowLock, loaded>>
  /\ Goto(s, WithDigest(s))
  /\ UNCHANGED <<dbVars, digest, target, tried>>

(* asyncio.create_task: the task may run before the request commits.       *)
Schedule(s) ==
  /\ pc[s] = "schedule"
  /\ pc' = [pc EXCEPT ![s] = "commit", ![TaskOf(s)] = "scheduled"]
  /\ UNCHANGED <<dbVars, ormVars, tx, rowLock, tried>>

(* Mutant of WriteSections: templates that fail are passed over, all of    *)
(* them if need be.                                                        *)
WriteWhatSucceeds(s) ==
  /\ pc[s] = "write"
  /\ \E some \in BOOLEAN : tx' = [tx EXCEPT ![s].added = some]
  /\ Goto(s, "ready")
  /\ UNCHANGED <<dbVars, ormVars, rowLock, tried>>

(* Articles, templates, LLM and parser all succeeded: add_sections.        *)
WriteSections(s) ==
  /\ pc[s] = "write"
  /\ tx' = [tx EXCEPT ![s].added = TRUE]
  /\ Goto(s, "ready")
  /\ UNCHANGED <<dbVars, ormVars, rowLock, tried>>

(* Mutant of MarkReady: the status is left for the commit to flush, so the *)
(* row is not locked while the recipients are notified.                    *)
MarkReadyUnflushed(s) ==
  /\ pc[s] = "ready"
  /\ tx' = [tx EXCEPT ![s].status = "READY"]
  /\ Goto(s, "notify")
  /\ UNCHANGED <<dbVars, ormVars, rowLock, tried>>

MarkReady(s) ==
  /\ pc[s] = "ready"
  /\ UpdateRow(s, "READY")
  /\ Goto(s, "notify")
  /\ UNCHANGED <<dbVars, digest, target, tried>>

Logged(s) == {u \in Recipient : <<digest[s], u>> \in logs} \cup tx[s].logs

(* Mutant of Notify: no exists_for_digest_channel.                         *)
NotifyUnchecked(s, u) ==
  /\ pc[s] = "notify"
  /\ u \notin tx[s].logs
  /\ tx' = [tx EXCEPT ![s].logs = @ \cup {u}]
  /\ tried' = tried \cup {<<s, digest[s], u>>}
  /\ UNCHANGED <<dbVars, pc, ormVars, rowLock>>

(* send_digest_ready: a recipient with a log row, SENT or FAILED, is       *)
(* skipped; the others are sent to and logged, before the commit.          *)
Notify(s, u) ==
  /\ pc[s] = "notify"
  /\ u \notin Logged(s)
  /\ tx' = [tx EXCEPT ![s].logs = @ \cup {u}]
  /\ tried' = tried \cup {<<s, digest[s], u>>}
  /\ UNCHANGED <<dbVars, pc, ormVars, rowLock>>

AllNotified(s) ==
  /\ pc[s] = "notify"
  /\ Logged(s) = Recipient
  /\ Goto(s, "commit")
  /\ UNCHANGED <<dbVars, ormVars, tx, rowLock, tried>>

(* An exception in generate(): no articles, no templates, no provider, an  *)
(* answer that does not parse, a rejected upload, a notification that      *)
(* raises.                                                                 *)
Fails(s) ==
  /\ pc[s] \in {"write", "ready", "notify"}
  /\ Goto(s, "failing")
  /\ UNCHANGED <<dbVars, ormVars, tx, rowLock, tried>>

(* _handle_failure: mark_failed, audit, and the exception goes on ...      *)
HandleFailure(s) ==
  /\ pc[s] = "failing"
  /\ UpdateRow(s, "FAILED")
  /\ Goto(s, "raised")
  /\ UNCHANGED <<dbVars, digest, target, tried>>

(* ... to _run_digest_generation, which rolls the session back.            *)
Raise(s) ==
  /\ pc[s] = "raised"
  /\ Rollback(s, "failed")

(* Mutant of Commit: the request awaits the generation it scheduled.       *)
CommitAfterTask(s) ==
  /\ pc[s] = "commit"
  /\ IsTask(s) \/ pc[TaskOf(s)] \in Ended
  /\ status' = IF tx[s].status = None
               THEN status ELSE [status EXCEPT ![digest[s]] = tx[s].status]
  /\ sections' = [sections EXCEPT ![digest[s]] =
                    (@ \ tx[s].removed) \cup IF tx[s].added THEN {s} ELSE {}]
  /\ logs' = logs \cup ({digest[s]} \X tx[s].logs)
  /\ Close(s, "committed")

Commit(s) ==
  LET d == digest[s] IN
  /\ pc[s] = "commit"
  /\ status' = IF tx[s].status = None
               THEN status ELSE [status EXCEPT ![d] = tx[s].status]
  /\ sections' = [sections EXCEPT ![d] =
                    (@ \ tx[s].removed) \cup IF tx[s].added THEN {s} ELSE {}]
  /\ logs' = logs \cup ({d} \X tx[s].logs)
  /\ Close(s, "committed")

(* The connection is lost, the commit fails, the client goes away, the     *)
(* task is cancelled or collected, the process is killed.                  *)
Abort(s) ==
  /\ Open(s)
  /\ Rollback(s, "aborted")

-----------------------------------------------------------------------------

(* What a session does by itself.                                          *)
Run(s) ==
  \/ Create(s) \/ Load(s) \/ FindRaises(s)
  \/ DeleteStarts(s) \/ DeleteEnds(s) \/ Reset(s) \/ Schedule(s)
  \/ WriteSections(s) \/ MarkReady(s) \/ AllNotified(s)
  \/ \E u \in Recipient : Notify(s, u)
  \/ Fails(s) \/ HandleFailure(s) \/ Raise(s) \/ Commit(s)

Next == \E s \in Session : Begin(s) \/ Run(s) \/ Abort(s)

Spec == Init /\ [][Next]_vars

(* The event loop runs every session that can take a step; nobody has to   *)
(* call, and nothing has to succeed.                                       *)
Fairness == \A s \in Session : WF_vars(Run(s))

FairSpec == Spec /\ Fairness

-----------------------------------------------------------------------------
(* Properties that hold however sessions overlap.                          *)

TypeOK ==
  /\ status \in [Session -> Status \cup {"ABSENT"}]
  /\ sections \in [Session -> SUBSET Session]
  /\ logs \in SUBSET (Session \X Recipient)
  /\ pc \in [Session -> Stage]
  /\ digest \in [Session -> Session \cup {None}]
  /\ loaded \in [Session -> Status \cup {None}]
  /\ target \in [Session -> SUBSET Session]
  /\ tx \in [Session -> Writes]
  /\ rowLock \in [Session -> Session \cup {None}]
  /\ tried \in SUBSET (Session \X Session \X Recipient)

(* Of the generations that commit, at most one mails or pushes about a     *)
(* digest to a recipient: a second one, or a regeneration, finds the log   *)
(* row and skips.  It is the row lock taken by mark_ready before the       *)
(* notifications that keeps two tasks from both finding no log row.        *)
AtMostOnceNotified ==
  \A x, y \in tried :
    /\ x[2] = y[2] /\ x[3] = y[3]
    /\ pc[x[1]] = "committed" /\ pc[y[1]] = "committed"
    => x[1] = y[1]

(* A digest turns READY only in the commit that brings the sections of a   *)
(* new generation: readers never see it READY for work still to be done.   *)
ReadyComesWithSections ==
  [][\A d \in Session :
       status'[d] = "READY" /\ status[d] # "READY"
         => ~(sections'[d] \subseteq sections[d])]_vars

(* Sessions that wait for one another's rows never wait forever: every     *)
(* request and every task ends.                                            *)
EverySessionEnds == \A s \in Session : Open(s) ~> ~Open(s)

-----------------------------------------------------------------------------
(* The invariant behind AtMostOnceNotified and ReadyComesWithSections.     *)

(* Who holds a row is an open session at work on that digest.              *)
LocksAreHeld ==
  \A s, d \in Session : rowLock[d] = s => Open(s) /\ digest[s] = d

(* A request schedules its task once, before the task does anything.       *)
ScheduledOnce(s) ==
  /\ pc[s] = "schedule" => ~IsTask(s)
  /\ /\ pc[s] \in {"idle", "find", "delete", "deleting", "reset", "schedule"}
     /\ ~IsTask(s)
     => pc[TaskOf(s)] = "idle"

(* A session has a digest from its query to its end, and no writes before  *)
(* or after.                                                               *)
SessionObjects(s) ==
  /\ digest[s] # None <=> Open(s) /\ pc[s] # "find"
  /\ digest[s] = None => tx[s] = NoWrites

(* A task that notifies holds its digest's row until it ends.              *)
NotifiesUnderLock(s) ==
  /\ pc[s] = "notify" \/ tx[s].logs # {} => rowLock[digest[s]] = s
  /\ \A u \in tx[s].logs : <<digest[s], u>> \notin logs

(* What a session tried is logged, in its transaction or for good.         *)
TriedIsLogged(s) ==
  \A d \in Session, u \in Recipient :
    <<s, d, u>> \in tried =>
      /\ pc[s] = "committed" => <<d, u>> \in logs
      /\ digest[s] # None => d = digest[s] /\ u \in tx[s].logs
      /\ pc[s] \notin {"idle", "scheduled", "find"}

(* READY is flushed after the sections, which nobody has seen before.      *)
PublishesItsSections(s) ==
  /\ pc[s] = "ready" \/ tx[s].status = "READY" => tx[s].added
  /\ \A d \in Session : s \in sections[d] => pc[s] = "committed"

IInv ==
  /\ TypeOK
  /\ LocksAreHeld
  /\ \A s \in Session :
       /\ ScheduledOnce(s)
       /\ SessionObjects(s)
       /\ NotifiesUnderLock(s)
       /\ TriedIsLogged(s)
       /\ PublishesItsSections(s)
  /\ AtMostOnceNotified

-----------------------------------------------------------------------------
(* Properties of the serial system (Overlap = FALSE).                      *)

(* As long as the sessions on a period do not overlap, the tables show its *)
(* readers a digest board: one digest, emptied and republished as a whole. *)
Board == INSTANCE DigestBoard
           WITH Generation <- Session,
                board <- {<<status[d], sections[d]>> :
                            d \in {e \in Session : Exists(e)}}

BoardSpec == Board!Spec

-----------------------------------------------------------------------------
(* What the documents say and the code does not keep.                      *)

(* "herhangi bir hata durumunda status = failed" (Docs/01, Digest): when a *)
(* generation failed and nothing is at work, the digest is not GENERATING. *)
(* The rollback of the background session undoes mark_failed.              *)
FailureIsRecorded ==
  /\ \E s \in Session : IsTask(s) /\ pc[s] = "failed"
  /\ \A s \in Session : ~Open(s) /\ pc[s] # "scheduled"
  => \A d \in Session : status[d] # "GENERATING"

(* "mevcut digest varsa uzerine yazar (update, duplicate yaratmaz)"        *)
(* (Docs/04, 10): there is one digest for the period.  A task that looks   *)
(* for it before its own request has committed inserts a second one.       *)
OneDigestPerPeriod ==
  \A d, e \in Session : Exists(d) /\ Exists(e) => d = e

(* "Ayni donem icin tekrar tetikleme: mevcut digest guncellenir" (Docs/08, *)
(* 9.4): a digest has the sections of one generation.  Two tasks that      *)
(* reset the same GENERATING digest both add theirs.                       *)
SectionsOfOneGeneration ==
  \A d \in Session : Cardinality(sections[d]) <= 1

(* "tum section'lar basariyla olustugunda status = ready" (Docs/01,        *)
(* Digest): a READY digest has sections.  A request that loaded the digest *)
(* as GENERATING deletes the sections of the task that has finished since, *)
(* and the ORM sees no change of status to write.                          *)
ReadyHasSections ==
  \A d \in Session : status[d] = "READY" => sections[d] # {}
=============================================================================
