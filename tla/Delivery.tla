------------------------------ MODULE Delivery -------------------------------
(***************************************************************************)
(* How the digest that became ready reaches its readers:                   *)
(* NotificationOrchestrator.send_digest_ready with the SMTP and FCM        *)
(* services, inside the transaction of the task that generated the digest, *)
(* next to the requests that register push tokens and change preferences.  *)
(*                                                                         *)
(* Abstractions.  One digest and the tasks that generate it, one after the *)
(* other (DigestGeneration shows that they exclude each other).  Title,    *)
(* teaser and error texts are left out; a rendering error is a failure of  *)
(* the task.  The recipients are served in any order.  delivered counts    *)
(* what the mail server or FCM took, excused the copies of it nobody could *)
(* know of: both are history variables.                                    *)
(***************************************************************************)
EXTENDS Naturals, FiniteSets

CONSTANTS
  Reader,       \* users
  Token,        \* FCM tokens of their devices
  Task,         \* tasks that generate the digest
  Visit,        \* requests that change preferences
  Flags,        \* <<email_enabled, push_enabled>> pairs an admin may choose
  MaxAttempts,  \* _MAX_SEND_ATTEMPTS
  MaxMishaps,   \* bound on failed tasks, late errors, failed requests
  None          \* no value

ASSUME FlagAssumption == Flags \subseteq BOOLEAN \X BOOLEAN
ASSUME AttemptAssumption == MaxAttempts \in Nat \ {0}
ASSUME MishapAssumption == MaxMishaps \in Nat

VARIABLES
  live,       \* tokens FCM knows
  prefs,      \* committed rows of notification_preferences; None without one
  log,        \* committed rows of notification_logs for the digest
  delivered,  \* <<reader, channel>> -> messages taken by the transport
  excused,    \* <<reader, channel>> -> those a later task could not know of
  stage,      \* task -> what it does next
  todo,       \* recipients it has still to serve
  listing,    \* the recipients as it listed them
  cur,        \* the recipient it serves
  tries,      \* SMTP attempts for it
  rows,       \* log rows flushed by the task
  cleared,    \* readers whose token it has set to NULL, and flushed
  visit,      \* request -> where it stands
  loaded,     \* request -> the preference row as loaded
  wish,       \* request -> what it is to store
  written,    \* request -> the columns flushed, or None
  mishaps

task == <<stage, todo, listing, cur, tries, rows, cleared>>
requests == <<visit, loaded, wish, written>>
vars == <<live, prefs, log, delivered, excused, task, requests, mishaps>>

Channel == {"email", "push"}
Status == {"sent", "failed"}
Preference == [email : BOOLEAN, push : BOOLEAN, token : Token \cup {None}]
Recipient == [user : Reader, email : BOOLEAN, push : BOOLEAN, token : Token \cup {None}]
LogRow == [user : Reader, channel : Channel, status : Status]
Columns == [email : BOOLEAN \cup {None}, push : BOOLEAN \cup {None},
            token : Token \cup {None}, insert : BOOLEAN]

(* create_default: what a created user starts with.                        *)
Default == [email |-> TRUE, push |-> TRUE, token |-> None]

Init ==
  /\ live = Token
  /\ prefs \in [Reader -> {None} \cup {[Default EXCEPT !.token = k] : k \in Token \cup {None}}]
  /\ log = {}
  /\ delivered = [p \in Reader \X Channel |-> 0]
  /\ excused = [p \in Reader \X Channel |-> 0]
  /\ stage = [t \in Task |-> "idle"]
  /\ todo = {}
  /\ listing = {}
  /\ cur = None
  /\ tries = 0
  /\ rows = {}
  /\ cleared = {}
  /\ visit = [v \in Visit |-> "idle"]
  /\ loaded = [v \in Visit |-> None]
  /\ wish = [v \in Visit |-> None]
  /\ written = [v \in Visit |-> None]
  /\ mishaps = 0

Goto(t, s) == stage' = [stage EXCEPT ![t] = s]
Sending(t) == stage[t] \in {"next", "email", "push", "commit"}
Mishap == mishaps < MaxMishaps /\ mishaps' = mishaps + 1

(* A reader's preference row, written by an open session.                  *)
RowFree(u) == u \notin cleared /\ \A v \in Visit : written[v] # None => wish[v].user # u

-----------------------------------------------------------------------------
(* The task.                                                               *)

(* list_active_digest_recipients: read once, an absent row enables both    *)
(* channels.                                                               *)
Listed(u) ==
  LET p == IF prefs[u] = None THEN Default ELSE prefs[u] IN
  [user |-> u, email |-> p.email, push |-> p.push, token |-> p.token]

Wants(r, channel) ==
  IF channel = "email" THEN r.email ELSE r.push /\ r.token # None

List(t, active) ==
  /\ stage[t] = "idle"
  /\ \A s \in Task : ~Sending(s)
  /\ todo' = {Listed(u) : u \in active}
  /\ listing' = todo'
  /\ Goto(t, "next")
  /\ UNCHANGED <<live, prefs, log, delivered, excused, cur, tries, rows, cleared, requests, mishaps>>

Pick(t) ==
  /\ stage[t] = "next"
  /\ \/ \E r \in todo : cur' = r /\ todo' = todo \ {r} /\ Goto(t, "email")
     \/ todo = {} /\ Goto(t, "commit") /\ UNCHANGED <<todo, cur>>
  /\ UNCHANGED <<live, prefs, log, delivered, excused, listing, tries, rows, cleared, requests, mishaps>>

(* Mutant of Logged: only a SENT row counts.                               *)
LoggedAsSent(channel) ==
  \E e \in log \cup rows : e.user = cur.user /\ e.channel = channel /\ e.status = "sent"

(* exists_for_digest_channel, in the task's own transaction.               *)
Logged(channel) == \E e \in log \cup rows : e.user = cur.user /\ e.channel = channel

(* On to the other channel, or to the next recipient.                      *)
Advance(t, channel) ==
  IF channel = "email"
  THEN Goto(t, "push") /\ UNCHANGED cur
  ELSE Goto(t, "next") /\ cur' = None

(* The channel is off, or there is a row for it.                           *)
Skip(t, channel) ==
  /\ stage[t] = channel
  /\ ~Wants(cur, channel) \/ Logged(channel)
  /\ Advance(t, channel)
  /\ tries' = 0
  /\ UNCHANGED <<live, prefs, log, delivered, excused, todo, listing, rows, cleared, requests, mishaps>>

(* The transport is called for a channel that is on and not logged.        *)
Calls(t, channel) == stage[t] = channel /\ Wants(cur, channel) /\ ~Logged(channel)

Takes(channel) == delivered' = [delivered EXCEPT ![<<cur.user, channel>>] = @ + 1]

Log(t, channel, status) ==
  /\ rows' = rows \cup {[user |-> cur.user, channel |-> channel, status |-> status]}
  /\ Advance(t, channel)
  /\ tries' = 0

(* Mutant of MailSent: the server's answer is not enough for the loop.     *)
MailSentAndAgain(t) ==
  /\ Calls(t, "email")
  /\ Takes("email")
  /\ IF tries + 1 < MaxAttempts
     THEN tries' = tries + 1 /\ UNCHANGED <<stage, rows, cur>>
     ELSE Log(t, "email", "sent")
  /\ UNCHANGED <<live, prefs, log, excused, todo, listing, cleared, requests, mishaps>>

MailSent(t) ==
  /\ Calls(t, "email")
  /\ Takes("email")
  /\ Log(t, "email", "sent")
  /\ UNCHANGED <<live, prefs, log, excused, todo, listing, cleared, requests, mishaps>>

(* A transient error: another attempt, or a FAILED row.                    *)
Retry(t) ==
  IF tries + 1 < MaxAttempts
  THEN tries' = tries + 1 /\ UNCHANGED <<stage, rows, cur>>
  ELSE Log(t, "email", "failed")

MailRefused(t) ==
  /\ Calls(t, "email")
  /\ Retry(t)
  /\ UNCHANGED <<live, prefs, log, delivered, excused, todo, listing, cleared, requests, mishaps>>

(* The server takes the mail and the connection breaks before it says so.  *)
MailLate(t) ==
  /\ Calls(t, "email")
  /\ Mishap
  /\ Takes("email")
  /\ excused' = [excused EXCEPT ![<<cur.user, "email">>] = @ + 1]
  /\ Retry(t)
  /\ UNCHANGED <<live, prefs, log, todo, listing, cleared, requests>>

(* A device is reset or loses the app.                                     *)
TokenDies(k) ==
  /\ k \in live
  /\ live' = live \ {k}
  /\ UNCHANGED <<prefs, log, delivered, excused, task, requests, mishaps>>

PushSent(t) ==
  /\ Calls(t, "push") /\ cur.token \in live
  /\ Takes("push")
  /\ Log(t, "push", "sent")
  /\ UNCHANGED <<live, prefs, log, excused, todo, listing, cleared, requests, mishaps>>

(* Mutant of PushFails: every failed push costs the token.                 *)
PushFailsAndClears(t) ==
  /\ Calls(t, "push")
  /\ RowFree(cur.user)
  /\ cleared' = cleared \cup {cur.user}
  /\ Log(t, "push", "failed")
  /\ UNCHANGED <<live, prefs, log, delivered, excused, todo, listing, requests, mishaps>>

(* Mutant of PushFails: the failure is logged to the console only.         *)
PushFailsQuietly(t) ==
  /\ Calls(t, "push")
  /\ Advance(t, "push")
  /\ UNCHANGED <<live, prefs, log, delivered, excused, todo, listing, tries, rows, cleared,
                 requests, mishaps>>

(* FCM cannot be reached, is not configured, or refuses the message.       *)
PushFails(t) ==
  /\ Calls(t, "push")
  /\ Log(t, "push", "failed")
  /\ UNCHANGED <<live, prefs, log, delivered, excused, todo, listing, cleared, requests,
                 mishaps>>

(* FCM takes the message and the answer is lost.                           *)
PushLate(t) ==
  /\ Calls(t, "push") /\ cur.token \in live
  /\ Mishap
  /\ Takes("push")
  /\ excused' = [excused EXCEPT ![<<cur.user, "push">>] = @ + 1]
  /\ Log(t, "push", "failed")
  /\ UNCHANGED <<live, prefs, log, todo, listing, cleared, requests>>

(* FCM does not know the token: clear_fcm_token reads the row again and    *)
(* sets whatever token it finds there to NULL.                             *)
PushInvalid(t) ==
  /\ Calls(t, "push") /\ cur.token \notin live
  /\ RowFree(cur.user)
  /\ cleared' = IF prefs[cur.user] # None /\ prefs[cur.user].token # None
                THEN cleared \cup {cur.user} ELSE cleared
  /\ Log(t, "push", "failed")
  /\ UNCHANGED <<live, prefs, log, delivered, excused, todo, listing, requests, mishaps>>

Reset ==
  /\ todo' = {} /\ listing' = {} /\ cur' = None /\ tries' = 0 /\ rows' = {} /\ cleared' = {}

CommitTask(t) ==
  /\ stage[t] = "commit"
  /\ log' = log \cup rows
  /\ prefs' = [u \in Reader |-> IF u \in cleared THEN [prefs[u] EXCEPT !.token = None]
                                ELSE prefs[u]]
  /\ Goto(t, "done")
  /\ Reset
  /\ UNCHANGED <<live, delivered, excused, requests, mishaps>>

(* An exception, a lost connection or a killed process: what was sent      *)
(* remains sent and its rows are gone.                                     *)
TaskFails(t) ==
  /\ Sending(t)
  /\ Mishap
  /\ excused' = [p \in Reader \X Channel |->
                   IF [user |-> p[1], channel |-> p[2], status |-> "sent"] \in rows
                   THEN excused[p] + 1 ELSE excused[p]]
  /\ Goto(t, "done")
  /\ Reset
  /\ UNCHANGED <<live, prefs, log, delivered, requests>>

-----------------------------------------------------------------------------
(* The requests.                                                           *)

(* register_fcm_token of the caller, or update_preferences of an admin.    *)
Wish ==
  [user : Reader, token : Token, email : {None}, push : {None}]
    \cup {[user |-> p[1], token |-> None, email |-> p[2][1], push |-> p[2][2]] :
            p \in Reader \X Flags}

ASSUME NoneAssumption == None \notin Token \cup Preference \cup Recipient \cup Columns \cup Wish

Answered(v) ==
  /\ visit' = [visit EXCEPT ![v] = "done"]
  /\ wish' = [wish EXCEPT ![v] = None]
  /\ loaded' = [loaded EXCEPT ![v] = None]
  /\ written' = [written EXCEPT ![v] = None]

(* Flags that are there already end the request.                           *)
Unchanged(w) ==
  /\ prefs[w.user] # None /\ w.token = None
  /\ prefs[w.user].email = w.email /\ prefs[w.user].push = w.push

LoadPreference(v, w) ==
  /\ visit[v] = "idle"
  /\ IF Unchanged(w)
     THEN Answered(v)
     ELSE /\ visit' = [visit EXCEPT ![v] = "loaded"]
          /\ wish' = [wish EXCEPT ![v] = w]
          /\ loaded' = [loaded EXCEPT ![v] = prefs[w.user]]
          /\ UNCHANGED written
  /\ UNCHANGED <<live, prefs, log, delivered, excused, task, mishaps>>

(* The columns an UPDATE sets, or a row of its own.                        *)
Flushed(v) ==
  LET p == loaded[v]
      w == wish[v]
      new(column, default) ==
        IF w[column] = None THEN (IF p = None THEN default ELSE None)
        ELSE IF p # None /\ p[column] = w[column] THEN None ELSE w[column]
  IN  [email |-> new("email", TRUE), push |-> new("push", TRUE),
       token |-> new("token", None), insert |-> p = None]

(* The flush waits for the row; an INSERT that finds one is an error.      *)
WritePreference(v) ==
  /\ visit[v] = "loaded"
  /\ RowFree(wish[v].user)
  /\ IF loaded[v] = None /\ prefs[wish[v].user] # None
     THEN Answered(v)
     ELSE /\ visit' = [visit EXCEPT ![v] = "commit"]
          /\ written' = [written EXCEPT ![v] = Flushed(v)]
          /\ UNCHANGED <<loaded, wish>>
  /\ UNCHANGED <<live, prefs, log, delivered, excused, task, mishaps>>

CommitPreference(v) ==
  LET w == written[v]
      p == IF w.insert THEN Default ELSE prefs[wish[v].user]
  IN
  /\ visit[v] = "commit"
  /\ prefs' = [prefs EXCEPT ![wish[v].user] =
       [email |-> IF w.email = None THEN p.email ELSE w.email,
        push |-> IF w.push = None THEN p.push ELSE w.push,
        token |-> IF w.token = None THEN p.token ELSE w.token]]
  /\ Answered(v)
  /\ UNCHANGED <<live, log, delivered, excused, task, mishaps>>

RequestFails(v) ==
  /\ visit[v] \in {"loaded", "commit"}
  /\ Mishap
  /\ Answered(v)
  /\ UNCHANGED <<live, prefs, log, delivered, excused, task>>

-----------------------------------------------------------------------------

Notify(t) ==
  \/ Pick(t)
  \/ \E channel \in Channel : Skip(t, channel)
  \/ MailSent(t) \/ MailRefused(t) \/ MailLate(t)
  \/ PushSent(t) \/ PushFails(t) \/ PushLate(t) \/ PushInvalid(t)
  \/ CommitTask(t)

Store(v) == WritePreference(v) \/ CommitPreference(v)

(* The readers that are active, and what the requests ask for, come from   *)
(* the accounts.                                                           *)
Next(active, wishes) ==
  \/ \E t \in Task : List(t, active) \/ Notify(t) \/ TaskFails(t)
  \/ \E k \in Token : TokenDies(k)
  \/ \E v \in Visit : Store(v) \/ RequestFails(v) \/ \E w \in wishes : LoadPreference(v, w)

-----------------------------------------------------------------------------
(* Properties.                                                             *)

TypeOK ==
  /\ live \in SUBSET Token
  /\ prefs \in [Reader -> Preference \cup {None}]
  /\ log \in SUBSET LogRow /\ rows \in SUBSET LogRow
  /\ delivered \in [Reader \X Channel -> Nat] /\ excused \in [Reader \X Channel -> Nat]
  /\ stage \in [Task -> {"idle", "next", "email", "push", "commit", "done"}]
  /\ todo \in SUBSET Recipient /\ listing \in SUBSET Recipient
  /\ cur \in Recipient \cup {None} /\ tries \in 0..(MaxAttempts - 1)
  /\ cleared \in SUBSET Reader
  /\ visit \in [Visit -> {"idle", "loaded", "commit", "done"}]
  /\ loaded \in [Visit -> Preference \cup {None}] /\ wish \in [Visit -> Wish \cup {None}]
  /\ written \in [Visit -> Columns \cup {None}]
  /\ mishaps \in 0..MaxMishaps

(* Nobody gets a second copy of a notification unless the transport took   *)
(* the first one behind the code's back or the task that sent it rolled    *)
(* back: neither the attempts of one task nor a later task repeat what a   *)
(* row says was sent.                                                      *)
CopiesAccountedFor == \A p \in DOMAIN delivered : delivered[p] <= 1 + excused[p]

(* A row that says SENT is true, and no channel of a reader has two rows.  *)
LogIsTrue ==
  \A e, f \in log \cup rows :
    /\ e.status = "sent" => delivered[<<e.user, e.channel>>] > 0
    /\ e.user = f.user /\ e.channel = f.channel => e = f

(* A task that commits leaves a row for every reader and channel that was  *)
(* on when it listed them, whichever attempts and tokens failed and what   *)
(* an earlier task had logged.                                             *)
CommitSettles ==
  [][\A t \in Task : stage[t] = "commit" /\ stage'[t] = "done" /\ UNCHANGED mishaps =>
       \A r \in listing, channel \in Channel :
         Wants(r, channel) =>
           \E e \in log' : e.user = r.user /\ e.channel = channel]_vars

(* A token its device still listens to is not taken from a reader, unless  *)
(* the reader registered it after the task had listed another: whatever    *)
(* else fails for that reader, and whoever holds the row in between.       *)
LiveTokenStays ==
  [][\A u \in Reader : prefs[u] # None /\ prefs'[u] # None =>
       \/ prefs'[u].token # None \/ prefs[u].token \notin live
       \/ \E r \in listing : r.user = u /\ r.token \notin live]_vars

(* What a reader registered while the task was sending is lost: push_service *)
(* has the row cleared whatever token it holds by then.                    *)
FreshTokenStays ==
  [][\A u \in Reader : prefs[u] # None /\ prefs'[u] # None =>
       prefs'[u].token # None \/ prefs[u].token \notin live]_vars
=============================================================================
