---------------------------- MODULE UsersProofs ------------------------------
(***************************************************************************)
(* Theorems about the delivery of digests next to the accounts, for any    *)
(* readers, tokens, tasks, requests and account calls.  IInv has five      *)
(* parts: the types, the queue of the task that sends, what the log rows   *)
(* say, the copies they account for, and who may write preference rows.    *)
(***************************************************************************)
EXTENDS Users, TLAPS

(* One task sends at a time; a task that does not send left nothing, and   *)
(* whoever was listed is still to be served, being served, or has a row    *)
(* for every channel that was on.                                          *)
HasRow(r, channel) ==
  Wants(r, channel) => \E e \in log \cup rows : e.user = r.user /\ e.channel = channel

Served(t, r) ==
  \/ r \in todo
  \/ r = cur /\ stage[t] = "email"
  \/ r = cur /\ stage[t] = "push" /\ HasRow(r, "email")
  \/ HasRow(r, "email") /\ HasRow(r, "push")

Queue ==
  /\ \A s, t \in Task : Sending(s) /\ Sending(t) => s = t
  /\ (\A t \in Task : ~Sending(t)) =>
       todo = {} /\ listing = {} /\ cur = None /\ rows = {} /\ cleared = {}
  /\ todo \subseteq listing
  /\ \A t \in Task :
       /\ stage[t] \in {"email", "push"} => cur \in listing
       /\ stage[t] = "commit" => todo = {}
       /\ Sending(t) => \A r \in listing : Served(t, r)

(* What was taken beyond the excused copies is one copy with a SENT row.   *)
SentRow(p) == [user |-> p[1], channel |-> p[2], status |-> "sent"] \in log \cup rows

Accounted ==
  \A p \in Reader \X Channel : delivered[p] <= excused[p] + (IF SentRow(p) THEN 1 ELSE 0)

(* Readers without an account have no preferences.  A reader whose token   *)
(* is cleared was listed with one FCM did not know.  A request serves a    *)
(* reader who exists, inserts a row only where none is, and no two         *)
(* sessions have written one row.                                          *)
Clearing ==
  \A u \in cleared : prefs[u] # None /\ \E r \in listing : r.user = u /\ r.token \notin live

Request(v) ==
  /\ visit[v] \in {"loaded", "commit"} => wish[v] \in Wish /\ users[wish[v].user] # None
  /\ visit[v] \in {"loaded", "commit"} /\ loaded[v] # None => prefs[wish[v].user] # None
  /\ written[v] # None <=> visit[v] = "commit"
  /\ written[v] # None =>
       /\ written[v].insert <=> loaded[v] = None
       /\ written[v].insert => prefs[wish[v].user] = None
       /\ wish[v].user \notin cleared
       /\ \A x \in Visit : written[x] # None /\ wish[x].user = wish[v].user => x = v

Preferences ==
  /\ \A u \in Reader : users[u] = None => prefs[u] = None
  /\ Clearing
  /\ \A v \in Visit : Request(v)

IInv ==
  /\ TypeOK
  /\ Queue
  /\ LogIsTrue
  /\ Accounted
  /\ Preferences

-----------------------------------------------------------------------------
(* Types.                                                                  *)

(* The recipient a task serves was listed.                                 *)
LEMMA Serving ==
  ASSUME IInv, NEW t \in Task, NEW channel \in Channel, stage[t] = channel
  PROVE  /\ cur \in listing /\ cur \in Recipient /\ cur.user \in Reader
         /\ <<cur.user, channel>> \in Reader \X Channel /\ Sending(t)
<1>1. cur \in listing
  BY DEF IInv, Queue, Channel
<1>2. cur \in Recipient
  BY <1>1 DEF IInv, TypeOK
<1>3. cur.user \in Reader
  BY <1>2 DEF Recipient
<1> QED
  BY <1>1, <1>2, <1>3 DEF Sending, Channel

(* On to the next channel or the next recipient.                           *)
LEMMA AdvanceTypes ==
  ASSUME IInv, NEW t \in Task, NEW channel \in Channel, stage[t] = channel, Advance(t, channel)
  PROVE  /\ stage' \in [Task -> {"idle", "next", "email", "push", "commit", "done"}]
         /\ cur' \in Recipient \cup {None}
BY DEF Advance, Goto, IInv, TypeOK, Channel

LEMMA LogTypes ==
  ASSUME IInv, NEW t \in Task, NEW channel \in Channel, stage[t] = channel,
         NEW status \in Status, Log(t, channel, status)
  PROVE  /\ stage' \in [Task -> {"idle", "next", "email", "push", "commit", "done"}]
         /\ cur' \in Recipient \cup {None} /\ tries' \in 0..(MaxAttempts - 1)
         /\ rows' \in SUBSET LogRow
<1>1. Advance(t, channel) /\ tries' = 0
  BY DEF Log
<1>2. [user |-> cur.user, channel |-> channel, status |-> status] \in LogRow
  BY Serving DEF LogRow
<1>3. rows' \in SUBSET LogRow
  BY <1>2 DEF Log, IInv, TypeOK
<1> QED
  BY <1>1, <1>3, AdvanceTypes, AttemptAssumption

LEMMA TakesTypes ==
  ASSUME IInv, NEW t \in Task, NEW channel \in Channel, stage[t] = channel
  PROVE  /\ Takes(channel) => delivered' \in [Reader \X Channel -> Nat]
         /\ excused' = [excused EXCEPT ![<<cur.user, channel>>] = @ + 1]
              => excused' \in [Reader \X Channel -> Nat]
<1>1. <<cur.user, channel>> \in Reader \X Channel
  BY Serving
<1> DEFINE p == <<cur.user, channel>>
<1> HIDE DEF p
<1>2. p \in Reader \X Channel
  BY <1>1 DEF p
<1>3. delivered[p] + 1 \in Nat /\ excused[p] + 1 \in Nat
  BY <1>2 DEF IInv, TypeOK
<1> QED
  BY <1>2, <1>3 DEF Takes, IInv, TypeOK, p

LEMMA RetryTypes ==
  ASSUME IInv, NEW t \in Task, stage[t] = "email", Retry(t)
  PROVE  /\ stage' \in [Task -> {"idle", "next", "email", "push", "commit", "done"}]
         /\ cur' \in Recipient \cup {None} /\ tries' \in 0..(MaxAttempts - 1)
         /\ rows' \in SUBSET LogRow
<1>1. CASE tries + 1 < MaxAttempts
  BY <1>1, AttemptAssumption DEF Retry, IInv, TypeOK
<1>2. CASE ~(tries + 1 < MaxAttempts)
  <2>1. Log(t, "email", "failed")
    BY <1>2 DEF Retry
  <2> QED
    BY <2>1, LogTypes DEF Channel, Status
<1> QED
  BY <1>1, <1>2

LEMMA MishapTypes == IInv /\ Mishap => mishaps' \in 0..MaxMishaps /\ mishaps' # mishaps
BY MishapAssumption DEF IInv, TypeOK, Mishap

LEMMA ResetTypes ==
  Reset => /\ todo' \in SUBSET Recipient /\ listing' \in SUBSET Recipient
           /\ cur' \in Recipient \cup {None} /\ tries' \in 0..(MaxAttempts - 1)
           /\ rows' \in SUBSET LogRow /\ cleared' \in SUBSET Reader
BY AttemptAssumption DEF Reset

LEMMA ListedTypes == IInv => \A u \in Reader : Listed(u) \in Recipient /\ Listed(u).user = u
<1> SUFFICES ASSUME IInv, NEW u \in Reader PROVE Listed(u) \in Recipient /\ Listed(u).user = u
  OBVIOUS
<1> DEFINE p == IF prefs[u] = None THEN Default ELSE prefs[u]
<1>1. Default \in Preference
  BY DEF Default, Preference
<1>2. p \in Preference
  BY <1>1 DEF IInv, TypeOK
<1>3. p.email \in BOOLEAN /\ p.push \in BOOLEAN /\ p.token \in Token \cup {None}
  BY <1>2 DEF Preference
<1>4. Listed(u) = [user |-> u, email |-> p.email, push |-> p.push, token |-> p.token]
  BY DEF Listed
<1> HIDE DEF p
<1> QED
  BY <1>3, <1>4 DEF Recipient

(* A task that sends a channel keeps the types.                            *)
LEMMA ChannelTypes ==
  ASSUME IInv, NEW t \in Task,
         \/ \E channel \in Channel : Skip(t, channel)
         \/ MailSent(t) \/ MailRefused(t) \/ MailLate(t)
         \/ PushSent(t) \/ PushFails(t) \/ PushLate(t) \/ PushInvalid(t)
  PROVE  TypeOK'
<1> USE DEF Calls
<1>c. "email" \in Channel /\ "push" \in Channel /\ "sent" \in Status /\ "failed" \in Status
  BY DEF Channel, Status
<1>1. ASSUME NEW channel \in Channel, Skip(t, channel) PROVE TypeOK'
  <2>1. stage[t] = channel /\ Advance(t, channel)
    BY <1>1 DEF Skip
  <2> QED
    BY <1>1, <2>1, AdvanceTypes, AttemptAssumption DEF Skip, IInv, TypeOK, requests
<1>2. CASE MailSent(t)
  BY <1>c, <1>2, LogTypes, TakesTypes DEF MailSent, IInv, TypeOK, requests
<1>3. CASE MailRefused(t)
  BY <1>c, <1>3, RetryTypes DEF MailRefused, IInv, TypeOK, requests
<1>4. CASE MailLate(t)
  BY <1>c, <1>4, RetryTypes, TakesTypes, MishapTypes DEF MailLate, IInv, TypeOK, requests
<1>5. CASE PushSent(t)
  BY <1>c, <1>5, LogTypes, TakesTypes DEF PushSent, IInv, TypeOK, requests
<1>6. CASE PushFails(t)
  BY <1>c, <1>6, LogTypes DEF PushFails, IInv, TypeOK, requests
<1>7. CASE PushLate(t)
  BY <1>c, <1>7, LogTypes, TakesTypes, MishapTypes DEF PushLate, IInv, TypeOK, requests
<1>8. CASE PushInvalid(t)
  <2>1. cleared' \in SUBSET Reader
    BY <1>c, <1>8, Serving DEF PushInvalid, IInv, TypeOK
  <2> QED
    BY <1>c, <1>8, <2>1, LogTypes DEF PushInvalid, IInv, TypeOK, requests
<1> QED
  BY <1>1, <1>2, <1>3, <1>4, <1>5, <1>6, <1>7, <1>8

(* A request's answer, and what its flush writes.                          *)
LEMMA AnsweredTypes ==
  ASSUME IInv, NEW v \in Visit, Answered(v)
  PROVE  /\ visit' \in [Visit -> {"idle", "loaded", "commit", "done"}]
         /\ loaded' \in [Visit -> Preference \cup {None}]
         /\ wish' \in [Visit -> Wish \cup {None}]
         /\ written' \in [Visit -> Columns \cup {None}]
BY DEF Answered, IInv, TypeOK

LEMMA WishTypes ==
  \A w \in Wish : /\ w.user \in Reader /\ w.token \in Token \cup {None}
                  /\ w.email \in BOOLEAN \cup {None} /\ w.push \in BOOLEAN \cup {None}
<1> SUFFICES ASSUME NEW w \in Wish
             PROVE  /\ w.user \in Reader /\ w.token \in Token \cup {None}
                    /\ w.email \in BOOLEAN \cup {None} /\ w.push \in BOOLEAN \cup {None}
  OBVIOUS
<1>1. CASE w \in [user : Reader, token : Token, email : {None}, push : {None}]
  BY <1>1
<1>2. CASE w \in {[user |-> p[1], token |-> None, email |-> p[2][1], push |-> p[2][2]] :
                    p \in Reader \X Flags}
  <2>1. PICK p \in Reader \X Flags :
          w = [user |-> p[1], token |-> None, email |-> p[2][1], push |-> p[2][2]]
    BY <1>2
  <2>2. p[1] \in Reader /\ p[2][1] \in BOOLEAN /\ p[2][2] \in BOOLEAN
    BY FlagAssumption
  <2> QED
    BY <2>1, <2>2
<1> QED
  BY <1>1, <1>2 DEF Wish

LEMMA FlushedTypes ==
  ASSUME IInv, NEW v \in Visit, visit[v] = "loaded"
  PROVE  /\ Flushed(v) \in Columns
         /\ Flushed(v).insert <=> loaded[v] = None
         /\ Flushed(v).token \in Token \cup {None}
<1> DEFINE p == loaded[v]
           w == wish[v]
<1>1. w \in Wish /\ p \in Preference \cup {None}
  BY DEF IInv, Preferences, Request, TypeOK
<1>2. /\ w.token \in Token \cup {None} /\ w.email \in BOOLEAN \cup {None}
      /\ w.push \in BOOLEAN \cup {None}
  BY <1>1, WishTypes
<1> DEFINE new(value, old, default) ==
             IF value = None THEN (IF p = None THEN default ELSE None)
             ELSE IF p # None /\ old = value THEN None ELSE value
           e == new(w.email, p.email, TRUE)
           f == new(w.push, p.push, TRUE)
           k == new(w.token, p.token, None)
<1>3. Flushed(v) = [email |-> e, push |-> f, token |-> k, insert |-> p = None]
  BY DEF Flushed
<1>4. e \in BOOLEAN \cup {None} /\ f \in BOOLEAN \cup {None} /\ k \in Token \cup {None}
  BY <1>2
<1> HIDE DEF p, w, e, f, k
<1>5. CASE p = None
  <2>1. Flushed(v) = [email |-> e, push |-> f, token |-> k, insert |-> TRUE]
    BY <1>3, <1>5
  <2> QED
    BY <1>4, <1>5, <2>1 DEF Columns, p
<1>6. CASE p # None
  <2>1. Flushed(v) = [email |-> e, push |-> f, token |-> k, insert |-> FALSE]
    BY <1>3, <1>6
  <2> QED
    BY <1>4, <1>6, <2>1 DEF Columns, p
<1> QED
  BY <1>5, <1>6

LEMMA CommittedTypes ==
  ASSUME IInv, NEW v \in Visit, CommitPreference(v)
  PROVE  /\ wish[v] \in Wish /\ wish[v].user \in Reader
         /\ prefs' = [prefs EXCEPT ![wish[v].user] = prefs'[wish[v].user]]
         /\ prefs'[wish[v].user] \in Preference
         /\ ~written[v].insert /\ prefs'[wish[v].user].token # prefs[wish[v].user].token
              => prefs'[wish[v].user].token # None
<1> DEFINE w == written[v]
           u == wish[v].user
           p == IF w.insert THEN Default ELSE prefs[u]
           new == [email |-> IF w.email = None THEN p.email ELSE w.email,
                   push |-> IF w.push = None THEN p.push ELSE w.push,
                   token |-> IF w.token = None THEN p.token ELSE w.token]
<1>1. visit[v] = "commit" /\ wish[v] \in Wish /\ w \in Columns /\ u \in Reader
  <2>1. visit[v] = "commit"
    BY DEF CommitPreference
  <2>2. wish[v] \in Wish /\ w # None
    BY <2>1 DEF IInv, Preferences, Request
  <2> QED
    BY <2>1, <2>2, WishTypes DEF IInv, TypeOK
<1>2. p \in Preference
  <2>1. CASE w.insert
    BY <2>1 DEF Default, Preference
  <2>2. CASE ~w.insert
    <3>1. loaded[v] # None
      BY <1>1, <2>2 DEF IInv, Preferences, Request
    <3>2. prefs[u] # None
      BY <1>1, <3>1 DEF IInv, Preferences, Request
    <3> QED
      BY <1>1, <2>2, <3>2 DEF IInv, TypeOK
  <2> QED
    BY <2>1, <2>2
<1>3. /\ p.email \in BOOLEAN /\ p.push \in BOOLEAN /\ p.token \in Token \cup {None}
      /\ w.email \in BOOLEAN \cup {None} /\ w.push \in BOOLEAN \cup {None}
      /\ w.token \in Token \cup {None}
  BY <1>1, <1>2 DEF Preference, Columns
<1>4. new \in Preference
  BY <1>3 DEF Preference
<1>5. prefs' = [prefs EXCEPT ![u] = new]
  BY DEF CommitPreference
<1>6. ~w.insert /\ new.token # prefs[u].token => new.token # None
  OBVIOUS
<1> HIDE DEF w, new, u
<1>7. prefs'[u] = new
  BY <1>1, <1>5 DEF IInv, TypeOK
<1> QED
  BY <1>1, <1>4, <1>5, <1>6, <1>7 DEF w, u

LEMMA RequestTypes ==
  ASSUME IInv, NEW v \in Visit,
         Store(v) \/ RequestFails(v) \/ \E w \in Wishes : LoadPreference(v, w)
  PROVE  TypeOK'
<1>1. CASE WritePreference(v)
  <2>1. CASE Answered(v)
    BY <1>1, <2>1, AnsweredTypes DEF WritePreference, IInv, TypeOK, task
  <2>2. CASE ~Answered(v)
    BY <1>1, <2>2, FlushedTypes DEF WritePreference, IInv, TypeOK, task
  <2> QED
    BY <2>1, <2>2
<1>2. CASE CommitPreference(v)
  <2>1. prefs' \in [Reader -> Preference \cup {None}]
    BY <1>2, CommittedTypes DEF IInv, TypeOK
  <2>2. Answered(v)
    BY <1>2 DEF CommitPreference
  <2> QED
    BY <1>2, <2>1, <2>2, AnsweredTypes DEF CommitPreference, IInv, TypeOK, task
<1>3. CASE RequestFails(v)
  <2>1. mishaps' \in 0..MaxMishaps /\ Answered(v)
    BY <1>3, MishapTypes DEF RequestFails
  <2> QED
    BY <1>3, <2>1, AnsweredTypes DEF RequestFails, IInv, TypeOK, task
<1>4. ASSUME NEW w \in Wishes, LoadPreference(v, w) PROVE TypeOK'
  <2>1. CASE Answered(v)
    BY <1>4, <2>1, AnsweredTypes DEF LoadPreference, IInv, TypeOK, task
  <2>2. CASE ~Answered(v)
    <3>1. w \in Wish /\ w.user \in Reader
      BY WishTypes DEF Wishes
    <3>2. prefs[w.user] \in Preference \cup {None}
      BY <3>1 DEF IInv, TypeOK
    <3> QED
      BY <1>4, <2>2, <3>1, <3>2 DEF LoadPreference, IInv, TypeOK, task
  <2> QED
    BY <2>1, <2>2
<1> QED
  BY <1>1, <1>2, <1>3, <1>4 DEF Store

(* What the task lists, commits and leaves behind.                         *)
LEMMA ClearedRows ==
  IInv => \A u \in cleared :
    u \in Reader /\ prefs[u] \in Preference /\ [prefs[u] EXCEPT !.token = None] \in Preference
BY DEF IInv, TypeOK, Preferences, Clearing, Preference

LEMMA TaskTypes ==
  ASSUME IInv, NEW t \in Task,
         List(t, {u \in Reader : Active(u)}) \/ Pick(t) \/ CommitTask(t) \/ TaskFails(t)
  PROVE  TypeOK'
<1>1. CASE List(t, {u \in Reader : Active(u)})
  <2>1. todo' \in SUBSET Recipient /\ listing' = todo'
    BY <1>1, ListedTypes DEF List
  <2> QED
    BY <1>1, <2>1 DEF List, Goto, IInv, TypeOK, requests
<1>2. CASE Pick(t)
  BY <1>2 DEF Pick, Goto, IInv, TypeOK, requests
<1>3. CASE CommitTask(t)
  <2>1. prefs' \in [Reader -> Preference \cup {None}]
    <3>1. prefs' = [u \in Reader |-> IF u \in cleared THEN [prefs[u] EXCEPT !.token = None]
                                     ELSE prefs[u]]
      BY <1>3 DEF CommitTask
    <3> QED
      BY <3>1, ClearedRows DEF IInv, TypeOK
  <2>2. log' \in SUBSET LogRow /\ Reset
        /\ stage' \in [Task -> {"idle", "next", "email", "push", "commit", "done"}]
    BY <1>3 DEF CommitTask, Goto, IInv, TypeOK
  <2> QED
    BY <1>3, <2>1, <2>2, ResetTypes DEF CommitTask, IInv, TypeOK, requests
<1>4. CASE TaskFails(t)
  <2>1. excused' \in [Reader \X Channel -> Nat]
    BY <1>4 DEF TaskFails, IInv, TypeOK
  <2>2. mishaps' \in 0..MaxMishaps /\ Reset
        /\ stage' \in [Task -> {"idle", "next", "email", "push", "commit", "done"}]
    BY <1>4, MishapTypes DEF TaskFails, Goto, IInv, TypeOK
  <2> QED
    BY <1>4, <2>1, <2>2, ResetTypes DEF TaskFails, IInv, TypeOK, requests
<1> QED
  BY <1>1, <1>2, <1>3, <1>4

LEMMA AccountTypes == IInv /\ AccountStep => TypeOK'
<1> SUFFICES ASSUME IInv, AccountStep PROVE TypeOK'
  OBVIOUS
<1>1. Default \in Preference
  BY DEF Default, Preference
<1>2. prefs' \in [Reader -> Preference \cup {None}]
  BY <1>1 DEF AccountStep, IInv, TypeOK
<1> QED
  BY <1>2 DEF AccountStep, IInv, TypeOK, task, requests

LEMMA NextTypes == IInv /\ [UsersNext]_usersVars => TypeOK'
<1> SUFFICES ASSUME IInv, [UsersNext]_usersVars PROVE TypeOK'
  OBVIOUS
<1>1. CASE UNCHANGED usersVars
  BY <1>1 DEF usersVars, vars, task, requests, IInv, TypeOK
<1>2. CASE AccountStep
  BY <1>2, AccountTypes
<1>3. CASE DeliveryStep
  <2>1. ASSUME NEW k \in Token, TokenDies(k) PROVE TypeOK'
    BY <2>1 DEF TokenDies, task, requests, IInv, TypeOK
  <2> QED
    BY <1>3, <2>1, ChannelTypes, TaskTypes, RequestTypes DEF DeliveryStep, Next, Notify
<1> QED
  BY <1>1, <1>2, <1>3 DEF UsersNext

-----------------------------------------------------------------------------
(* The queue of the task that sends.                                       *)

(* The task sends as before, nobody else does.                             *)
LEMMA OneGoes ==
  ASSUME IInv, NEW t \in Task, Sending(t), NEW s, s \in {"next", "email", "push", "commit", "done"},
         Goto(t, s)
  PROVE  /\ stage'[t] = s
         /\ \A x \in Task : x # t => ~Sending(x) /\ ~Sending(x)' /\ stage'[x] = stage[x]
<1>1. stage'[t] = s /\ \A x \in Task : x # t => stage'[x] = stage[x]
  BY DEF Goto, IInv, TypeOK
<1>2. \A x \in Task : x # t => ~Sending(x)
  BY DEF IInv, Queue
<1> QED
  BY <1>1, <1>2 DEF Sending

(* The task is through with a channel of the recipient it serves.          *)
LEMMA ServedStep ==
  ASSUME IInv, NEW t \in Task, NEW channel \in Channel, stage[t] = channel,
         Advance(t, channel), UNCHANGED <<log, todo, listing>>, rows \subseteq rows',
         NEW c, c = cur, HasRow(c, channel)'
  PROVE  Queue'
<1>1. \A x, ch : HasRow(x, ch) => HasRow(x, ch)'
  BY DEF HasRow
<1>2. Sending(t) /\ cur \in listing
  BY Serving
<1>3. CASE channel = "email"
  <2>1. Goto(t, "push") /\ cur' = cur
    BY <1>3 DEF Advance
  <2>2. /\ stage'[t] = "push"
        /\ \A x \in Task : x # t => ~Sending(x) /\ ~Sending(x)' /\ stage'[x] = stage[x]
    BY <1>2, <2>1, OneGoes
  <2>3. ASSUME NEW r \in listing PROVE Served(t, r)'
    <3>1. Served(t, r)
      BY <1>2 DEF IInv, Queue
    <3> QED
      BY <1>1, <1>3, <2>1, <2>2, <3>1 DEF Served
  <2> QED
    BY <1>2, <2>1, <2>2, <2>3 DEF IInv, Queue, Sending
<1>4. CASE channel = "push"
  <2>1. Goto(t, "next")
    BY <1>4 DEF Advance
  <2>2. /\ stage'[t] = "next"
        /\ \A x \in Task : x # t => ~Sending(x) /\ ~Sending(x)' /\ stage'[x] = stage[x]
    BY <1>2, <2>1, OneGoes
  <2>3. ASSUME NEW r \in listing PROVE Served(t, r)'
    <3>1. Served(t, r)
      BY <1>2 DEF IInv, Queue
    <3> QED
      BY <1>1, <1>4, <2>2, <3>1 DEF Served
  <2> QED
    BY <1>2, <2>1, <2>2, <2>3 DEF IInv, Queue, Sending
<1> QED
  BY <1>3, <1>4 DEF Channel

LEMMA LoggedStep ==
  ASSUME IInv, NEW t \in Task, NEW channel \in Channel, stage[t] = channel,
         NEW status, Log(t, channel, status), UNCHANGED <<log, todo, listing>>
  PROVE  Queue'
<1> DEFINE c == cur
           e == [user |-> c.user, channel |-> channel, status |-> status]
<1>1. rows' = rows \cup {e} /\ Advance(t, channel)
  BY DEF Log
<1>2. e \in rows' /\ e.user = c.user /\ e.channel = channel
  BY <1>1
<1> HIDE DEF e
<1>3. \E x : x = cur /\ HasRow(x, channel)'
  BY <1>2 DEF HasRow
<1>4. PICK x : x = cur /\ HasRow(x, channel)'
  BY <1>3
<1>5. rows \subseteq rows'
  BY <1>1
<1> QED
  BY <1>1, <1>4, <1>5, ServedStep

(* Nothing the queue depends on changes.                                   *)
LEMMA QueueStays ==
  ASSUME IInv, UNCHANGED <<log, stage, todo, listing, cur, rows, cleared>>
  PROVE  Queue'
<1>1. \A x, ch : HasRow(x, ch) => HasRow(x, ch)'
  BY DEF HasRow
<1>2. \A t \in Task : Sending(t)' <=> Sending(t)
  BY DEF Sending
<1>3. \A t \in Task, r \in listing : Served(t, r) => Served(t, r)'
  BY <1>1 DEF Served
<1> QED
  BY <1>2, <1>3 DEF IInv, Queue

LEMMA RetryQueue ==
  ASSUME IInv, NEW t \in Task, stage[t] = "email", Retry(t),
         UNCHANGED <<log, todo, listing, cleared>>
  PROVE  Queue'
<1>1. CASE tries + 1 < MaxAttempts
  BY <1>1, QueueStays DEF Retry
<1>2. CASE ~(tries + 1 < MaxAttempts)
  <2>1. Log(t, "email", "failed")
    BY <1>2 DEF Retry
  <2> QED
    BY <2>1, LoggedStep DEF Channel
<1> QED
  BY <1>1, <1>2

LEMMA SkipQueue ==
  ASSUME IInv, NEW t \in Task, NEW channel \in Channel, Skip(t, channel)
  PROVE  Queue'
<1>1. /\ stage[t] = channel /\ Advance(t, channel) /\ UNCHANGED <<log, todo, listing, rows>>
      /\ ~Wants(cur, channel) \/ Logged(channel)
  BY DEF Skip
<1>2. \E x : x = cur /\ HasRow(x, channel)'
  BY <1>1 DEF HasRow, Logged, Wants
<1> QED
  BY <1>1, <1>2, ServedStep

LEMMA ChannelQueue ==
  ASSUME IInv, NEW t \in Task,
         \/ \E channel \in Channel : Skip(t, channel)
         \/ MailSent(t) \/ MailRefused(t) \/ MailLate(t)
         \/ PushSent(t) \/ PushFails(t) \/ PushLate(t) \/ PushInvalid(t)
  PROVE  Queue'
<1> USE DEF Calls
<1>c. "email" \in Channel /\ "push" \in Channel
  BY DEF Channel
<1>1. CASE MailSent(t)
  BY <1>c, <1>1, LoggedStep DEF MailSent
<1>2. CASE MailRefused(t) \/ MailLate(t)
  BY <1>2, RetryQueue DEF MailRefused, MailLate
<1>3. CASE PushSent(t) \/ PushFails(t) \/ PushLate(t) \/ PushInvalid(t)
  BY <1>c, <1>3, LoggedStep DEF PushSent, PushFails, PushLate, PushInvalid
<1> QED
  BY <1>1, <1>2, <1>3, SkipQueue

LEMMA PickQueue ==
  ASSUME IInv, NEW t \in Task, Pick(t)
  PROVE  Queue'
<1>1. stage[t] = "next" /\ Sending(t) /\ UNCHANGED <<log, listing, rows, cleared>>
  BY DEF Pick, Sending
<1>2. \A x, ch : HasRow(x, ch) => HasRow(x, ch)'
  BY <1>1 DEF HasRow
<1>3. ASSUME NEW r \in todo, cur' = r, todo' = todo \ {r}, Goto(t, "email") PROVE Queue'
  <2>1. /\ stage'[t] = "email"
        /\ \A x \in Task : x # t => ~Sending(x) /\ ~Sending(x)' /\ stage'[x] = stage[x]
    BY <1>1, <1>3, OneGoes
  <2>2. ASSUME NEW x \in listing PROVE Served(t, x)'
    <3>1. Served(t, x)
      BY <1>1 DEF IInv, Queue
    <3> QED
      BY <1>1, <1>2, <1>3, <2>1, <3>1 DEF Served
  <2>3. r \in listing
    BY DEF IInv, Queue
  <2> QED
    BY <1>1, <1>3, <2>1, <2>2, <2>3 DEF IInv, Queue, Sending
<1>4. CASE todo = {} /\ Goto(t, "commit") /\ UNCHANGED <<todo, cur>>
  <2>1. /\ stage'[t] = "commit"
        /\ \A x \in Task : x # t => ~Sending(x) /\ ~Sending(x)' /\ stage'[x] = stage[x]
    BY <1>1, <1>4, OneGoes
  <2>2. ASSUME NEW x \in listing PROVE Served(t, x)'
    <3>1. Served(t, x)
      BY <1>1 DEF IInv, Queue
    <3> QED
      BY <1>1, <1>2, <1>4, <2>1, <3>1 DEF Served
  <2> QED
    BY <1>1, <1>4, <2>1, <2>2 DEF IInv, Queue, Sending
<1> QED
  BY <1>3, <1>4 DEF Pick

LEMMA ListQueue ==
  ASSUME IInv, NEW t \in Task, NEW active, List(t, active)
  PROVE  Queue'
<1>1. \A x \in Task : ~Sending(x)
  BY DEF List
<1>2. stage'[t] = "next" /\ \A x \in Task : x # t => stage'[x] = stage[x]
  BY DEF List, Goto, IInv, TypeOK
<1>3. todo' = listing'
  BY DEF List
<1>4. \A x \in Task : Sending(x)' <=> x = t
  BY <1>1, <1>2 DEF Sending
<1>5. \A r \in listing' : Served(t, r)'
  BY <1>3 DEF Served
<1>6. \A x \in Task : stage'[x] \notin {"email", "push", "commit"}
  BY <1>1, <1>2 DEF Sending
<1> QED
  BY <1>3, <1>4, <1>5, <1>6 DEF Queue

(* A task that is through leaves nothing.                                  *)
LEMMA ResetQueue ==
  ASSUME IInv, NEW t \in Task, Sending(t), Goto(t, "done"), Reset
  PROVE  Queue'
<1>1. /\ stage'[t] = "done"
      /\ \A x \in Task : x # t => ~Sending(x) /\ ~Sending(x)' /\ stage'[x] = stage[x]
  BY OneGoes
<1>2. \A x \in Task : ~Sending(x)'
  BY <1>1 DEF Sending
<1> QED
  BY <1>2 DEF Queue, Reset, Sending

LEMMA NextQueue == IInv /\ [UsersNext]_usersVars => Queue'
<1> SUFFICES ASSUME IInv, [UsersNext]_usersVars PROVE Queue'
  OBVIOUS
<1>1. CASE UNCHANGED usersVars
  BY <1>1, QueueStays DEF usersVars, vars, task
<1>2. CASE AccountStep
  BY <1>2, QueueStays DEF AccountStep, task
<1>3. CASE DeliveryStep
  <2>1. ASSUME NEW t \in Task, CommitTask(t) \/ TaskFails(t) PROVE Queue'
    BY <2>1, ResetQueue DEF CommitTask, TaskFails, Sending
  <2>2. ASSUME NEW k \in Token, TokenDies(k) PROVE Queue'
    BY <2>2, QueueStays DEF TokenDies, task
  <2>3. ASSUME NEW v \in Visit,
               Store(v) \/ RequestFails(v) \/ \E w \in Wishes : LoadPreference(v, w)
        PROVE  Queue'
    BY <2>3, QueueStays
    DEF Store, WritePreference, CommitPreference, RequestFails, LoadPreference, task
  <2> QED
    BY <1>3, <2>1, <2>2, <2>3, ChannelQueue, PickQueue, ListQueue DEF DeliveryStep, Next, Notify
<1> QED
  BY <1>1, <1>2, <1>3 DEF UsersNext

-----------------------------------------------------------------------------
(* What the rows say, and the copies they account for.                     *)

(* One more copy for the recipient.                                        *)
LEMMA Counting ==
  ASSUME IInv, NEW t \in Task, NEW channel \in Channel, stage[t] = channel,
         NEW p, p = <<cur.user, channel>>
  PROVE  /\ p \in Reader \X Channel
         /\ Takes(channel) =>
              /\ delivered'[p] = delivered[p] + 1
              /\ \A q \in Reader \X Channel : q # p => delivered'[q] = delivered[q]
<1>1. p \in Reader \X Channel
  BY Serving
<1> QED
  BY <1>1 DEF Takes, IInv, TypeOK

LEMMA TakesMore ==
  ASSUME IInv, NEW t \in Task, NEW channel \in Channel, stage[t] = channel, Takes(channel)
  PROVE  /\ \A q \in Reader \X Channel : delivered'[q] >= delivered[q]
         /\ delivered'[<<cur.user, channel>>] > 0
<1>1. PICK p : p = <<cur.user, channel>>
  OBVIOUS
<1>2. /\ p \in Reader \X Channel /\ delivered'[p] = delivered[p] + 1
      /\ \A q \in Reader \X Channel : q # p => delivered'[q] = delivered[q]
  BY <1>1, Counting
<1>3. \A q \in Reader \X Channel : delivered[q] \in Nat
  BY DEF IInv, TypeOK
<1>4. delivered'[p] > 0
  BY <1>2, <1>3
<1>5. \A q \in Reader \X Channel : delivered'[q] >= delivered[q]
  BY <1>2, <1>3
<1> QED
  BY <1>1, <1>4, <1>5

LEMMA RowPairs == IInv => \A e \in log \cup rows : <<e.user, e.channel>> \in Reader \X Channel
BY DEF IInv, TypeOK, LogRow

(* What a row says remains true, since no copy is taken back.              *)
LEMMA TruthStays ==
  ASSUME IInv, TypeOK', \A p \in Reader \X Channel : delivered'[p] >= delivered[p],
         NEW e \in log \cup rows, e.status = "sent"
  PROVE  delivered'[<<e.user, e.channel>>] > 0
<1> DEFINE p == <<e.user, e.channel>>
<1>1. p \in Reader \X Channel
  BY RowPairs
<1>2. delivered[p] > 0
  BY DEF IInv, LogIsTrue
<1> HIDE DEF p
<1>3. delivered'[p] >= delivered[p] /\ delivered[p] \in Nat /\ delivered'[p] \in Nat
  BY <1>1 DEF IInv, TypeOK
<1>4. delivered'[p] > 0
  BY <1>2, <1>3
<1> QED
  BY <1>4 DEF p

LEMMA NoRowAdded ==
  ASSUME IInv, TypeOK', log' \cup rows' \subseteq log \cup rows,
         \A p \in Reader \X Channel : delivered'[p] >= delivered[p]
  PROVE  LogIsTrue'
BY TruthStays DEF IInv, LogIsTrue

(* The first row of a channel, true if it says SENT.                       *)
LEMMA RowAdded ==
  ASSUME IInv, TypeOK', NEW t \in Task, NEW channel \in Channel, Calls(t, channel),
         NEW status, Log(t, channel, status), log' = log,
         \A p \in Reader \X Channel : delivered'[p] >= delivered[p],
         status = "sent" => delivered'[<<cur.user, channel>>] > 0
  PROVE  LogIsTrue'
<1> DEFINE new == [user |-> cur.user, channel |-> channel, status |-> status]
<1>1. rows' = rows \cup {new}
  BY DEF Log
<1>2. new.user = cur.user /\ new.channel = channel /\ new.status = status
  OBVIOUS
<1>3. \A e \in log \cup rows : ~(e.user = cur.user /\ e.channel = channel)
  BY DEF Calls, Logged
<1> HIDE DEF new
<1>4. ASSUME NEW e \in log' \cup rows', e.status = "sent"
      PROVE  delivered'[<<e.user, e.channel>>] > 0
  <2>1. CASE e \in log \cup rows
    BY <1>4, <2>1, TruthStays
  <2>2. CASE e = new
    BY <1>2, <1>4, <2>2
  <2> QED
    BY <1>1, <2>1, <2>2
<1>5. ASSUME NEW e \in log' \cup rows', NEW f \in log' \cup rows',
             e.user = f.user, e.channel = f.channel
      PROVE  e = f
  <2>1. e \in log \cup rows \/ e = new
    BY <1>1
  <2>2. f \in log \cup rows \/ f = new
    BY <1>1
  <2> QED
    BY <1>2, <1>3, <1>5, <2>1, <2>2 DEF IInv, LogIsTrue
<1> QED
  BY <1>4, <1>5 DEF LogIsTrue

LEMMA SameCount ==
  ASSUME IInv, UNCHANGED delivered
  PROVE  \A p \in Reader \X Channel : delivered'[p] >= delivered[p]
BY DEF IInv, TypeOK

LEMMA RetryTruth ==
  ASSUME IInv, TypeOK', NEW t \in Task, Calls(t, "email"), Retry(t), log' = log,
         \A p \in Reader \X Channel : delivered'[p] >= delivered[p]
  PROVE  LogIsTrue'
<1>1. CASE tries + 1 < MaxAttempts
  <2>1. rows' = rows
    BY <1>1 DEF Retry
  <2> QED
    BY <2>1, NoRowAdded
<1>2. CASE ~(tries + 1 < MaxAttempts)
  <2>1. Log(t, "email", "failed") /\ "failed" # "sent" /\ "email" \in Channel
    BY <1>2 DEF Retry, Channel
  <2> QED
    BY <2>1, RowAdded
<1> QED
  BY <1>1, <1>2

LEMMA NextTruth == IInv /\ [UsersNext]_usersVars => LogIsTrue'
<1> SUFFICES ASSUME IInv, [UsersNext]_usersVars PROVE LogIsTrue'
  OBVIOUS
<1>t. TypeOK'
  BY NextTypes
<1>c. "email" \in Channel /\ "push" \in Channel /\ "failed" # "sent"
  BY DEF Channel
<1>s. ASSUME UNCHANGED <<log, rows, delivered>> PROVE LogIsTrue'
  BY <1>s, <1>t, NoRowAdded, SameCount
<1>1. CASE UNCHANGED usersVars
  BY <1>1, <1>s DEF usersVars, vars, task
<1>2. CASE AccountStep
  BY <1>2, <1>s DEF AccountStep, task
<1>3. CASE DeliveryStep
  <2>1. ASSUME NEW t \in Task, MailSent(t) PROVE LogIsTrue'
    BY <1>c, <1>t, <2>1, RowAdded, TakesMore DEF MailSent, Calls
  <2>2. ASSUME NEW t \in Task, MailRefused(t) PROVE LogIsTrue'
    BY <1>t, <2>2, RetryTruth, SameCount DEF MailRefused
  <2>3. ASSUME NEW t \in Task, MailLate(t) PROVE LogIsTrue'
    BY <1>c, <1>t, <2>3, RetryTruth, TakesMore DEF MailLate, Calls
  <2>4. ASSUME NEW t \in Task, PushSent(t) PROVE LogIsTrue'
    BY <1>c, <1>t, <2>4, RowAdded, TakesMore DEF PushSent, Calls
  <2>5. ASSUME NEW t \in Task, PushFails(t) \/ PushInvalid(t) PROVE LogIsTrue'
    BY <1>c, <1>t, <2>5, RowAdded, SameCount DEF PushFails, PushInvalid
  <2>6. ASSUME NEW t \in Task, PushLate(t) PROVE LogIsTrue'
    BY <1>c, <1>t, <2>6, RowAdded, TakesMore DEF PushLate, Calls
  <2>7. ASSUME NEW t \in Task, CommitTask(t) \/ TaskFails(t) PROVE LogIsTrue'
    BY <1>t, <2>7, NoRowAdded, SameCount DEF CommitTask, TaskFails, Reset
  <2>8. ASSUME NEW t \in Task, NEW active,
               List(t, active) \/ Pick(t) \/ \E channel \in Channel : Skip(t, channel)
        PROVE  LogIsTrue'
    BY <1>s, <2>8 DEF List, Pick, Skip
  <2>9. ASSUME NEW k \in Token, TokenDies(k) PROVE LogIsTrue'
    BY <1>s, <2>9 DEF TokenDies, task
  <2>10. ASSUME NEW v \in Visit,
                Store(v) \/ RequestFails(v) \/ \E w \in Wishes : LoadPreference(v, w)
         PROVE  LogIsTrue'
    BY <1>s, <2>10
    DEF Store, WritePreference, CommitPreference, RequestFails, LoadPreference, task
  <2> QED
    BY <1>3, <2>1, <2>2, <2>3, <2>4, <2>5, <2>6, <2>7, <2>8, <2>9, <2>10
    DEF DeliveryStep, Next, Notify
<1> QED
  BY <1>1, <1>2, <1>3 DEF UsersNext

(* One pair of Accounted.                                                  *)
Balanced(p) == delivered[p] <= excused[p] + (IF SentRow(p) THEN 1 ELSE 0)

LEMMA Balance ==
  IInv => \A p \in Reader \X Channel :
            delivered[p] \in Nat /\ excused[p] \in Nat /\ Balanced(p)
BY DEF IInv, TypeOK, Accounted, Balanced

(* Rows may be added, no copy is taken.                                    *)
LEMMA NoCopy ==
  ASSUME IInv, UNCHANGED <<delivered, excused>>, log \cup rows \subseteq log' \cup rows'
  PROVE  Accounted'
<1>1. ASSUME NEW p \in Reader \X Channel PROVE Balanced(p)'
  <2>1. SentRow(p) => SentRow(p)'
    BY DEF SentRow
  <2>2. delivered[p] \in Nat /\ excused[p] \in Nat /\ Balanced(p)
    BY Balance
  <2> QED
    BY <2>1, <2>2 DEF Balanced
<1> QED
  BY <1>1 DEF Accounted, Balanced

(* The copy a first SENT row accounts for.                                 *)
LEMMA CopyLogged ==
  ASSUME IInv, NEW t \in Task, NEW channel \in Channel, Calls(t, channel), Takes(channel),
         Log(t, channel, "sent"), UNCHANGED <<log, excused>>
  PROVE  Accounted'
<1>1. PICK p : p = <<cur.user, channel>>
  OBVIOUS
<1>2. /\ p \in Reader \X Channel /\ delivered'[p] = delivered[p] + 1
      /\ \A q \in Reader \X Channel : q # p => delivered'[q] = delivered[q]
  BY <1>1, Counting DEF Calls
<1>3. p[1] = cur.user /\ p[2] = channel
  BY <1>1
<1>4. ~SentRow(p)
  <2> SUFFICES ASSUME SentRow(p) PROVE FALSE
    OBVIOUS
  <2> DEFINE e == [user |-> p[1], channel |-> p[2], status |-> "sent"]
  <2>1. e \in log \cup rows /\ e.user = cur.user /\ e.channel = channel
    BY <1>3 DEF SentRow
  <2> QED
    BY <2>1 DEF Calls, Logged
<1>5. SentRow(p)' /\ \A q : SentRow(q) => SentRow(q)'
  BY <1>3 DEF Log, SentRow
<1>6. ASSUME NEW q \in Reader \X Channel PROVE Balanced(q)'
  <2>1. delivered[q] \in Nat /\ excused[q] \in Nat /\ Balanced(q)
    BY Balance
  <2>2. CASE q = p
    BY <1>2, <1>4, <1>5, <2>1, <2>2 DEF Balanced
  <2>3. CASE q # p
    BY <1>2, <1>5, <2>1, <2>3 DEF Balanced
  <2> QED
    BY <2>2, <2>3
<1> QED
  BY <1>6 DEF Accounted, Balanced

(* A copy whose answer was lost.                                           *)
LEMMA CopyExcused ==
  ASSUME IInv, NEW t \in Task, NEW channel \in Channel, Calls(t, channel), Takes(channel),
         excused' = [excused EXCEPT ![<<cur.user, channel>>] = @ + 1],
         log \cup rows \subseteq log' \cup rows'
  PROVE  Accounted'
<1>1. PICK p : p = <<cur.user, channel>>
  OBVIOUS
<1>2. /\ p \in Reader \X Channel
      /\ delivered'[p] = delivered[p] + 1 /\ excused'[p] = excused[p] + 1
      /\ \A q \in Reader \X Channel :
           q # p => delivered'[q] = delivered[q] /\ excused'[q] = excused[q]
  <2>1. stage[t] = channel
    BY DEF Calls
  <2>2. /\ p \in Reader \X Channel
        /\ delivered'[p] = delivered[p] + 1
        /\ \A q \in Reader \X Channel : q # p => delivered'[q] = delivered[q]
    BY <1>1, <2>1, Counting
  <2>3. /\ excused'[p] = excused[p] + 1
        /\ \A q \in Reader \X Channel : q # p => excused'[q] = excused[q]
    BY <1>1, <2>2 DEF IInv, TypeOK
  <2> QED
    BY <2>2, <2>3
<1>3. \A q : SentRow(q) => SentRow(q)'
  BY DEF SentRow
<1>4. ASSUME NEW q \in Reader \X Channel PROVE Balanced(q)'
  <2>1. delivered[q] \in Nat /\ excused[q] \in Nat /\ Balanced(q)
    BY Balance
  <2>2. CASE q = p
    BY <1>2, <1>3, <2>1, <2>2 DEF Balanced
  <2>3. CASE q # p
    BY <1>2, <1>3, <2>1, <2>3 DEF Balanced
  <2> QED
    BY <2>2, <2>3
<1> QED
  BY <1>4 DEF Accounted, Balanced

LEMMA RetryRows == \A t \in Task : Retry(t) => rows \subseteq rows'
BY DEF Retry, Log

(* The rows of a task that fails are gone: its copies are excused.         *)
LEMMA FailedTask ==
  ASSUME IInv, NEW t \in Task, TaskFails(t)
  PROVE  Accounted'
<1>1. /\ delivered' = delivered /\ log' = log
      /\ excused' = [p \in Reader \X Channel |->
                       IF [user |-> p[1], channel |-> p[2], status |-> "sent"] \in rows
                       THEN excused[p] + 1 ELSE excused[p]]
  BY DEF TaskFails
<1>2. ASSUME NEW p \in Reader \X Channel PROVE Balanced(p)'
  <2> DEFINE e == [user |-> p[1], channel |-> p[2], status |-> "sent"]
  <2>1. delivered[p] \in Nat /\ excused[p] \in Nat /\ Balanced(p)
    BY Balance
  <2>2. excused'[p] = IF e \in rows THEN excused[p] + 1 ELSE excused[p]
    BY <1>1
  <2>3. SentRow(p) /\ e \notin rows => SentRow(p)'
    BY <1>1 DEF SentRow
  <2> HIDE DEF e
  <2> QED
    BY <1>1, <2>1, <2>2, <2>3 DEF Balanced
<1> QED
  BY <1>2 DEF Accounted, Balanced

LEMMA NextAccounted == IInv /\ [UsersNext]_usersVars => Accounted'
<1> SUFFICES ASSUME IInv, [UsersNext]_usersVars PROVE Accounted'
  OBVIOUS
<1>c. "email" \in Channel /\ "push" \in Channel
  BY DEF Channel
<1>s. ASSUME UNCHANGED <<log, rows, delivered, excused>> PROVE Accounted'
  BY <1>s, NoCopy
<1>1. CASE UNCHANGED usersVars
  BY <1>1, <1>s DEF usersVars, vars, task
<1>2. CASE AccountStep
  BY <1>2, <1>s DEF AccountStep, task
<1>3. CASE DeliveryStep
  <2>1. ASSUME NEW t \in Task, MailSent(t) \/ PushSent(t) PROVE Accounted'
    BY <1>c, <2>1, CopyLogged DEF MailSent, PushSent
  <2>2. ASSUME NEW t \in Task, MailRefused(t) PROVE Accounted'
    BY <2>2, RetryRows, NoCopy DEF MailRefused
  <2>3. ASSUME NEW t \in Task, MailLate(t) PROVE Accounted'
    BY <1>c, <2>3, RetryRows, CopyExcused DEF MailLate
  <2>4. ASSUME NEW t \in Task, PushLate(t) PROVE Accounted'
    BY <1>c, <2>4, CopyExcused DEF PushLate, Log
  <2>5. ASSUME NEW t \in Task, PushFails(t) \/ PushInvalid(t) PROVE Accounted'
    BY <2>5, NoCopy DEF PushFails, PushInvalid, Log
  <2>6. ASSUME NEW t \in Task, CommitTask(t) PROVE Accounted'
    BY <2>6, NoCopy DEF CommitTask
  <2>7. ASSUME NEW t \in Task, TaskFails(t) PROVE Accounted'
    BY <2>7, FailedTask
  <2>8. ASSUME NEW t \in Task, NEW active,
               List(t, active) \/ Pick(t) \/ \E channel \in Channel : Skip(t, channel)
        PROVE  Accounted'
    BY <1>s, <2>8 DEF List, Pick, Skip
  <2>9. ASSUME NEW k \in Token, TokenDies(k) PROVE Accounted'
    BY <1>s, <2>9 DEF TokenDies, task
  <2>10. ASSUME NEW v \in Visit,
                Store(v) \/ RequestFails(v) \/ \E w \in Wishes : LoadPreference(v, w)
         PROVE  Accounted'
    BY <1>s, <2>10
    DEF Store, WritePreference, CommitPreference, RequestFails, LoadPreference, task
  <2> QED
    BY <1>3, <2>1, <2>2, <2>3, <2>4, <2>5, <2>6, <2>7, <2>8, <2>9, <2>10
    DEF DeliveryStep, Next, Notify
<1> QED
  BY <1>1, <1>2, <1>3 DEF UsersNext

-----------------------------------------------------------------------------
(* Accounts that exist go on existing: of Accounts this is all the         *)
(* delivery needs.  Rows and what sessions write to them are records, a    *)
(* column without a value included.                                        *)
UserRow == [role : A!Role \cup {None}, active : BOOLEAN \cup {None}, pass : Call \cup {None}]

V(role, active, pass, links0, holds, audit0) ==
  [role |-> role, active |-> active, pass |-> pass, links |-> links0, holds |-> holds,
   audit |-> audit0]

Columned(w) ==
  \E role \in A!Role \cup {None}, active \in BOOLEAN \cup {None}, pass \in Call \cup {None} :
    \E l, h, e : w = V(role, active, pass, l, h, e)

Rows ==
  /\ users \in [Reader -> UserRow \cup {None}]
  /\ pc \in [Call -> A!Stage]
  /\ req \in [Call -> Ask \cup {None}]
  /\ \A c \in Call : pc[c] # "idle" => req[c] \in Ask
  /\ tx = [c \in Call |-> tx[c]]
  /\ \A c \in Call : Columned(tx[c])

LEMMA RoleWritten == \A role, active, pass, l, h, e, x :
  [V(role, active, pass, l, h, e) EXCEPT !.role = x] = V(x, active, pass, l, h, e)
BY SMTT(30) DEF V

LEMMA ActiveWritten == \A role, active, pass, l, h, e, x :
  [V(role, active, pass, l, h, e) EXCEPT !.active = x] = V(role, x, pass, l, h, e)
BY SMTT(30) DEF V

LEMMA PassWritten == \A role, active, pass, l, h, e, x :
  [V(role, active, pass, l, h, e) EXCEPT !.pass = x] = V(role, active, x, l, h, e)
BY SMTT(30) DEF V

LEMMA LinksWritten == \A role, active, pass, l, h, e, x :
  [V(role, active, pass, l, h, e) EXCEPT !.links = x] = V(role, active, pass, x, h, e)
BY SMTT(30) DEF V

LEMMA HoldsWritten == \A role, active, pass, l, h, e, x :
  [V(role, active, pass, l, h, e) EXCEPT !.holds = x] = V(role, active, pass, l, x, e)
BY SMTT(30) DEF V

LEMMA AuditWritten == \A role, active, pass, l, h, e, x :
  [V(role, active, pass, l, h, e) EXCEPT !.audit = x] = V(role, active, pass, l, h, x)
BY SMTT(30) DEF V

(* Each of the columns may be written.                                     *)
LEMMA ColumnsWritten ==
  ASSUME NEW w, Columned(w)
  PROVE  /\ \A x \in A!Role \cup {None} : Columned([w EXCEPT !.role = x])
         /\ \A x \in BOOLEAN \cup {None} : Columned([w EXCEPT !.active = x])
         /\ \A x \in Call \cup {None} : Columned([w EXCEPT !.pass = x])
         /\ \A x : Columned([w EXCEPT !.links = x])
         /\ \A x : Columned([w EXCEPT !.holds = x])
         /\ \A x : Columned([w EXCEPT !.audit = x])
         /\ w.role \in A!Role \cup {None} /\ w.active \in BOOLEAN \cup {None}
         /\ w.pass \in Call \cup {None}
<1>a. PICK role \in A!Role \cup {None}, active \in BOOLEAN \cup {None}, pass \in Call \cup {None} :
             \E l, h, e : w = V(role, active, pass, l, h, e)
  BY DEF Columned
<1>1. PICK l, h, e : w = V(role, active, pass, l, h, e)
  BY <1>a
<1>2. w.role = role /\ w.active = active /\ w.pass = pass
  BY <1>1 DEF V
<1>3. ASSUME NEW x \in A!Role \cup {None} PROVE Columned([w EXCEPT !.role = x])
  <2>1. [w EXCEPT !.role = x] = V(x, active, pass, l, h, e)
    BY <1>1, RoleWritten
  <2> QED
    BY <2>1 DEF Columned
<1>4. ASSUME NEW x \in BOOLEAN \cup {None} PROVE Columned([w EXCEPT !.active = x])
  <2>1. [w EXCEPT !.active = x] = V(role, x, pass, l, h, e)
    BY <1>1, ActiveWritten
  <2> QED
    BY <2>1 DEF Columned
<1>5. ASSUME NEW x \in Call \cup {None} PROVE Columned([w EXCEPT !.pass = x])
  <2>1. [w EXCEPT !.pass = x] = V(role, active, x, l, h, e)
    BY <1>1, PassWritten
  <2> QED
    BY <2>1 DEF Columned
<1>6. ASSUME NEW x PROVE Columned([w EXCEPT !.links = x])
  <2>1. [w EXCEPT !.links = x] = V(role, active, pass, x, h, e)
    BY <1>1, LinksWritten
  <2> QED
    BY <2>1 DEF Columned
<1>7. ASSUME NEW x PROVE Columned([w EXCEPT !.holds = x])
  <2>1. [w EXCEPT !.holds = x] = V(role, active, pass, l, x, e)
    BY <1>1, HoldsWritten
  <2> QED
    BY <2>1 DEF Columned
<1>8. ASSUME NEW x PROVE Columned([w EXCEPT !.audit = x])
  <2>1. [w EXCEPT !.audit = x] = V(role, active, pass, l, h, x)
    BY <1>1, AuditWritten
  <2> QED
    BY <2>1 DEF Columned
<1> QED
  BY <1>2, <1>3, <1>4, <1>5, <1>6, <1>7, <1>8

LEMMA NothingColumned == Columned(A!NoWrites)
<1>1. A!NoWrites = V(None, None, None, A!NoLinks, {}, {})
  BY DEF A!NoWrites, V
<1> QED
  BY <1>1 DEF Columned

(* A session writes its columns and goes on.                               *)
LEMMA SessionRows ==
  ASSUME Rows, NEW c \in Call, pc[c] # "idle", NEW s \in A!Stage, A!Goto(c, s),
         NEW w, Columned(w), tx' = [tx EXCEPT ![c] = w], UNCHANGED <<users, req>>
  PROVE  Rows'
<1>1. /\ pc' \in [Call -> A!Stage]
      /\ \A d \in Call : d # c => pc'[d] = pc[d]
  BY DEF A!Goto, Rows
<1>2. /\ tx' = [d \in Call |-> tx'[d]] /\ tx'[c] = w
      /\ \A d \in Call : d # c => tx'[d] = tx[d]
  BY DEF Rows
<1>3. \A d \in Call : Columned(tx'[d])
  BY <1>2 DEF Rows
<1>4. \A d \in Call : Columned(tx[d])'
  BY <1>3 DEF Columned
<1>5. \A d \in Call : pc'[d] # "idle" => req'[d] \in Ask
  BY <1>1 DEF Rows
<1> QED
  BY <1>1, <1>2, <1>4, <1>5 DEF Rows

LEMMA QuietRows ==
  ASSUME Rows, NEW c \in Call, pc[c] # "idle", NEW s \in A!Stage, A!Goto(c, s),
         UNCHANGED <<users, req, tx>>
  PROVE  Rows'
<1>1. tx' = [tx EXCEPT ![c] = tx[c]] /\ Columned(tx[c])
  BY DEF Rows
<1> QED
  BY <1>1, SessionRows

LEMMA StillRows == ASSUME Rows, UNCHANGED <<users, pc, req, tx>> PROVE Rows'
<1>1. \A c \in Call : Columned(tx'[c])
  BY DEF Rows
<1>2. \A c \in Call : Columned(tx[c])'
  BY <1>1 DEF Columned
<1> QED
  BY <1>2 DEF Rows

LEMMA CloseRows ==
  ASSUME Rows, NEW c \in Call, pc[c] # "idle", A!Close(c), UNCHANGED <<users, req>>
  PROVE  Rows'
<1>1. A!Goto(c, "done") /\ tx' = [tx EXCEPT ![c] = A!NoWrites] /\ "done" \in A!Stage
  BY DEF A!Close, A!Stage
<1> QED
  BY <1>1, NothingColumned, SessionRows

LEMMA LeaveRows ==
  ASSUME Rows, NEW c \in Call, pc[c] # "idle", A!Leave(c)
  PROVE  Rows'
BY CloseRows DEF A!Leave, A!tables

LEMMA BeginRows ==
  ASSUME Rows, NEW c \in Call, NEW q \in Ask, A!Begin(c, q), NEW s \in {"body", "done"},
         A!Goto(c, s)
  PROVE  Rows'
<1>1. /\ pc' \in [Call -> A!Stage]
      /\ \A d \in Call : d # c => pc'[d] = pc[d]
  BY DEF A!Goto, A!Stage, Rows
<1>2. /\ req' \in [Call -> Ask \cup {None}] /\ req'[c] = q
      /\ \A d \in Call : d # c => req'[d] = req[d]
  BY DEF A!Begin, Rows
<1>3. users' = users /\ tx' = tx
  BY DEF A!Begin, A!tables
<1>4. \A d \in Call : Columned(tx'[d])
  BY <1>3 DEF Rows
<1>5. \A d \in Call : Columned(tx[d])'
  BY <1>4 DEF Columned
<1> QED
  BY <1>1, <1>2, <1>3, <1>5 DEF Rows

(* The columns a call writes beside its audit rows.                        *)
LEMMA PlainRows ==
  ASSUME Rows, NEW c \in Call,
         \/ A!CheckPassword(c) \/ A!StampLogin(c) \/ A!Logout(c) \/ A!Invalidate(c)
         \/ A!SendLink(c) \/ A!SetPassword(c) \/ A!MarkUsed(c)
  PROVE  Rows'
<1> USE DEF A!Doing, A!Within, A!tables
<1>c. Columned(tx[c]) /\ {"commit", "loaded", "send", "mark"} \subseteq A!Stage
  BY DEF Rows, A!Stage
<1>1. CASE A!CheckPassword(c)
  <2>1. pc[c] # "idle" /\ UNCHANGED <<users, req>>
    BY <1>1 DEF A!CheckPassword
  <2>2. CASE A!Goto(c, "loaded") /\ UNCHANGED tx
    BY <1>c, <2>1, <2>2, QuietRows
  <2>3. CASE A!Goto(c, "commit") /\ tx' = [tx EXCEPT ![c].audit = {A!Plain(c, "login_failed")}]
    <3>1. PICK w : w = [tx[c] EXCEPT !.audit = {A!Plain(c, "login_failed")}]
      OBVIOUS
    <3>2. tx' = [tx EXCEPT ![c] = w] /\ Columned(w)
      BY <1>c, <2>3, <3>1, ColumnsWritten
    <3> QED
      BY <1>c, <2>1, <2>3, <3>2, SessionRows
  <2> QED
    BY <1>1, <2>2, <2>3 DEF A!CheckPassword
<1>2. CASE A!StampLogin(c)
  <2>1. pc[c] # "idle" /\ UNCHANGED <<users, req>> /\ A!Goto(c, "commit")
        /\ tx' = [tx EXCEPT ![c].holds = {req[c].of}, ![c].audit = {A!Plain(c, "login")}]
    BY <1>2 DEF A!StampLogin
  <2>2. PICK w : w = [tx[c] EXCEPT !.holds = {req[c].of}]
    OBVIOUS
  <2>3. PICK x : x = [w EXCEPT !.audit = {A!Plain(c, "login")}]
    OBVIOUS
  <2>4. Columned(w) /\ Columned(x)
    BY <1>c, <2>2, <2>3, ColumnsWritten
  <2>5. tx' = [tx EXCEPT ![c] = x]
    BY <2>1, <2>2, <2>3 DEF Rows
  <2> QED
    BY <1>c, <2>1, <2>4, <2>5, SessionRows
<1>3. CASE A!Logout(c)
  <2>1. pc[c] # "idle" /\ UNCHANGED <<users, req>> /\ A!Goto(c, "commit")
        /\ tx' = [tx EXCEPT ![c].audit = {A!Plain(c, "logout")}]
    BY <1>3 DEF A!Logout
  <2>2. PICK w : w = [tx[c] EXCEPT !.audit = {A!Plain(c, "logout")}]
    OBVIOUS
  <2>3. tx' = [tx EXCEPT ![c] = w] /\ Columned(w)
    BY <1>c, <2>1, <2>2, ColumnsWritten
  <2> QED
    BY <1>c, <2>1, <2>3, SessionRows
<1>4. CASE A!Invalidate(c)
  <2>1. PICK l, h : tx' = [tx EXCEPT ![c].links = l, ![c].holds = h]
    BY <1>4 DEF A!Invalidate
  <2>2. pc[c] # "idle" /\ UNCHANGED <<users, req>> /\ A!Goto(c, "send")
    BY <1>4 DEF A!Invalidate
  <2>3. PICK w : w = [tx[c] EXCEPT !.links = l]
    OBVIOUS
  <2>4. PICK x : x = [w EXCEPT !.holds = h]
    OBVIOUS
  <2>5. Columned(w) /\ Columned(x)
    BY <1>c, <2>3, <2>4, ColumnsWritten
  <2>6. tx' = [tx EXCEPT ![c] = x]
    BY <2>1, <2>3, <2>4 DEF Rows
  <2> QED
    BY <1>c, <2>2, <2>5, <2>6, SessionRows
<1>5. CASE A!SendLink(c)
  <2>1. pc[c] # "idle" /\ UNCHANGED <<users, req>> /\ A!Goto(c, "commit")
        /\ tx' = [tx EXCEPT ![c].links[c] = "open", ![c].audit = {A!Plain(c, "reset_initiated")}]
    BY <1>5 DEF A!SendLink
  <2>2. PICK l : l = [tx[c].links EXCEPT ![c] = "open"]
    OBVIOUS
  <2>3. PICK w : w = [tx[c] EXCEPT !.links = l]
    OBVIOUS
  <2>4. PICK x : x = [w EXCEPT !.audit = {A!Plain(c, "reset_initiated")}]
    OBVIOUS
  <2>5. Columned(w) /\ Columned(x)
    BY <1>c, <2>3, <2>4, ColumnsWritten
  <2>6. tx' = [tx EXCEPT ![c] = x]
    BY <2>1, <2>2, <2>3, <2>4 DEF Rows
  <2> QED
    BY <1>c, <2>1, <2>5, <2>6, SessionRows
<1>6. CASE A!SetPassword(c)
  <2>1. PICK h : tx' = [tx EXCEPT ![c].pass = c, ![c].holds = h]
    BY <1>6 DEF A!SetPassword
  <2>2. pc[c] # "idle" /\ UNCHANGED <<users, req>> /\ A!Goto(c, "mark")
    BY <1>6 DEF A!SetPassword
  <2>3. PICK w : w = [tx[c] EXCEPT !.pass = c]
    OBVIOUS
  <2>4. PICK x : x = [w EXCEPT !.holds = h]
    OBVIOUS
  <2>5. Columned(w) /\ Columned(x)
    BY <1>c, <2>3, <2>4, ColumnsWritten
  <2>6. tx' = [tx EXCEPT ![c] = x]
    BY <2>1, <2>3, <2>4 DEF Rows
  <2> QED
    BY <1>c, <2>2, <2>5, <2>6, SessionRows
<1>7. CASE A!MarkUsed(c)
  <2>1. /\ pc[c] # "idle" /\ UNCHANGED <<users, req>> /\ A!Goto(c, "commit")
        /\ tx' = [tx EXCEPT ![c].links[req[c].link] = "used",
                            ![c].holds = @ \cup {req[c].link},
                            ![c].audit = {A!Plain(c, "reset_completed")}]
    BY <1>7 DEF A!MarkUsed
  <2>2. PICK l : l = [tx[c].links EXCEPT ![req[c].link] = "used"]
    OBVIOUS
  <2>3. PICK w : w = [tx[c] EXCEPT !.links = l]
    OBVIOUS
  <2>4. PICK x : x = [w EXCEPT !.holds = @ \cup {req[c].link}]
    OBVIOUS
  <2>5. PICK y : y = [x EXCEPT !.audit = {A!Plain(c, "reset_completed")}]
    OBVIOUS
  <2>6. Columned(w)
    BY <1>c, <2>3, ColumnsWritten
  <2>7. Columned(x)
    BY <2>4, <2>6, ColumnsWritten
  <2>8. Columned(y)
    BY <2>5, <2>7, ColumnsWritten
  <2>9. tx' = [tx EXCEPT ![c] = y]
    BY <2>1, <2>2, <2>3, <2>4, <2>5 DEF Rows
  <2> QED
    BY <1>c, <2>1, <2>8, <2>9, SessionRows
<1> QED
  BY <1>1, <1>2, <1>3, <1>4, <1>5, <1>6, <1>7

(* The steps that may end the session or read on.                          *)
LEMMA ReadingRows ==
  ASSUME Rows, NEW c \in Call,
         \/ A!WeakPassword(c) \/ A!CheckEmail(c) \/ A!LoadUser(c)
         \/ A!FindOpenLinks(c) \/ A!FindLink(c)
  PROVE  Rows'
<1> USE DEF A!Doing, A!Within, A!tables
<1>c. {"insert", "loaded", "invalidate"} \subseteq A!Stage
  BY DEF A!Stage
<1>1. pc[c] # "idle"
  BY DEF A!WeakPassword, A!CheckEmail, A!LoadUser, A!FindOpenLinks, A!FindLink
<1>2. CASE A!Leave(c)
  BY <1>1, <1>2, LeaveRows
<1>3. CASE ~A!Leave(c)
  <2>1. UNCHANGED <<users, req, tx>> /\ \E s \in {"insert", "loaded", "invalidate"} : A!Goto(c, s)
    BY <1>3 DEF A!WeakPassword, A!CheckEmail, A!LoadUser, A!FindOpenLinks, A!FindLink
  <2> QED
    BY <1>c, <1>1, <2>1, QuietRows
<1> QED
  BY <1>2, <1>3

LEMMA InsertRows == ASSUME Rows, NEW c \in Call, A!InsertUser(c) PROVE Rows'
<1> USE DEF A!Doing, A!Within, A!tables
<1>1. pc[c] # "idle" /\ req[c].kind = "create" /\ req[c] \in Ask
  BY DEF A!InsertUser, Rows
<1>2. CASE A!Leave(c)
  BY <1>1, <1>2, LeaveRows
<1>3. CASE ~A!Leave(c)
  <2> DEFINE role == req[c].role
             h == {req[c].of}
             e == {A!Plain(c, "created")}
  <2>1. tx' = [tx EXCEPT ![c].role = role, ![c].active = TRUE,
                         ![c].holds = h, ![c].audit = e]
    BY <1>3 DEF A!InsertUser
  <2>2. UNCHANGED <<users, req>> /\ A!Goto(c, "commit") /\ "commit" \in A!Stage
    BY <1>3 DEF A!InsertUser, A!Stage
  <2>3. role \in A!Role \cup {None}
    BY <1>1, UserAssumption DEF A!AskRecord
  <2> HIDE DEF role, h, e
  <2>4. PICK w : w = [tx[c] EXCEPT !.role = role]
    OBVIOUS
  <2>5. PICK x : x = [w EXCEPT !.active = TRUE]
    OBVIOUS
  <2>6. PICK y : y = [x EXCEPT !.holds = h]
    OBVIOUS
  <2>7. PICK z : z = [y EXCEPT !.audit = e]
    OBVIOUS
  <2>8. Columned(w)
    BY <2>3, <2>4, ColumnsWritten DEF Rows
  <2>9. Columned(x)
    BY <2>5, <2>8, ColumnsWritten
  <2>10. Columned(y)
    BY <2>6, <2>9, ColumnsWritten
  <2>11. Columned(z)
    BY <2>7, <2>10, ColumnsWritten
  <2>12. tx' = [tx EXCEPT ![c] = z]
    BY <2>1, <2>4, <2>5, <2>6, <2>7 DEF Rows
  <2> QED
    BY <1>1, <2>2, <2>11, <2>12, SessionRows
<1> QED
  BY <1>2, <1>3

(* A column is written with what was asked for, or not at all.             *)
LEMMA UpdateRows == ASSUME Rows, NEW c \in Call, A!UpdateUser(c) PROVE Rows'
<1> USE DEF A!Doing, A!Within, A!tables
<1>1. pc[c] # "idle" /\ req[c] \in Ask
  BY DEF A!UpdateUser, Rows
<1>2. CASE A!Leave(c)
  BY <1>1, <1>2, LeaveRows
<1>3. CASE ~A!Leave(c)
  <2> DEFINE old == seen[c][req[c].of]
             newRole == A!Changed(A!Given(req[c].role, old.role), old.role)
             newActive == A!Changed(A!Given(req[c].active, old.active), old.active)
  <2>1. PICK h, e :
          tx' = [tx EXCEPT ![c].role = newRole, ![c].active = newActive,
                           ![c].holds = h, ![c].audit = e]
    BY <1>3 DEF A!UpdateUser
  <2>2. UNCHANGED <<users, req>> /\ A!Goto(c, "commit") /\ "commit" \in A!Stage
    BY <1>3 DEF A!UpdateUser, A!Stage
  <2>3. req[c].role \in A!Role \cup {None} /\ req[c].active \in BOOLEAN \cup {None}
    BY <1>1, UserAssumption DEF A!AskRecord
  <2>4. newRole \in A!Role \cup {None}
    BY <2>3 DEF A!Changed, A!Given
  <2>5. newActive \in BOOLEAN \cup {None}
    BY <2>3 DEF A!Changed, A!Given
  <2> HIDE DEF old, newRole, newActive
  <2>6. PICK w : w = [tx[c] EXCEPT !.role = newRole]
    OBVIOUS
  <2>7. PICK x : x = [w EXCEPT !.active = newActive]
    OBVIOUS
  <2>8. PICK y : y = [x EXCEPT !.holds = h]
    OBVIOUS
  <2>9. PICK z : z = [y EXCEPT !.audit = e]
    OBVIOUS
  <2>10. Columned(w)
    BY <2>4, <2>6, ColumnsWritten DEF Rows
  <2>11. Columned(x)
    BY <2>5, <2>7, <2>10, ColumnsWritten
  <2>12. Columned(y)
    BY <2>8, <2>11, ColumnsWritten
  <2>13. Columned(z)
    BY <2>9, <2>12, ColumnsWritten
  <2>14. tx' = [tx EXCEPT ![c] = z]
    BY <2>1, <2>6, <2>7, <2>8, <2>9 DEF Rows
  <2> QED
    BY <1>1, <2>2, <2>13, <2>14, SessionRows
<1> QED
  BY <1>2, <1>3

(* A commit leaves an existing row a row.                                  *)
LEMMA CommitRows ==
  ASSUME Rows, NEW c \in Call, A!Commit(c)
  PROVE  Rows' /\ \A u \in Reader : users[u] # None => users'[u] # None
<1> DEFINE u == A!Target(c)
           w == tx[c]
           new == [role |-> w.role, active |-> w.active, pass |-> w.pass]
           set == [role |-> A!Given(w.role, users[u].role),
                   active |-> A!Given(w.active, users[u].active),
                   pass |-> A!Given(w.pass, users[u].pass)]
<1>1. \/ users' = users
      \/ users[u] = None /\ users' = [users EXCEPT ![u] = new]
      \/ users[u] # None /\ users' = [users EXCEPT ![u] = set]
  BY DEF A!Commit
<1>2. /\ w.role \in A!Role \cup {None} /\ w.active \in BOOLEAN \cup {None}
      /\ w.pass \in Call \cup {None}
  BY ColumnsWritten DEF Rows
<1>3. new \in UserRow
  BY <1>2 DEF UserRow
<1>4. u \in Reader /\ users[u] # None => set \in UserRow
  <2> SUFFICES ASSUME u \in Reader, users[u] # None PROVE set \in UserRow
    OBVIOUS
  <2> HIDE DEF u, w
  <2>1. users[u] \in UserRow
    BY DEF Rows
  <2>2. /\ users[u].role \in A!Role \cup {None} /\ users[u].active \in BOOLEAN \cup {None}
        /\ users[u].pass \in Call \cup {None}
    BY <2>1 DEF UserRow
  <2>3. A!Given(w.role, users[u].role) \in A!Role \cup {None}
    BY <1>2, <2>2 DEF A!Given
  <2>4. A!Given(w.active, users[u].active) \in BOOLEAN \cup {None}
    BY <1>2, <2>2 DEF A!Given
  <2>5. A!Given(w.pass, users[u].pass) \in Call \cup {None}
    BY <1>2, <2>2 DEF A!Given
  <2> QED
    BY <2>3, <2>4, <2>5 DEF UserRow
<1>5. None \notin UserRow
  BY UserAssumption DEF UserRow
<1> HIDE DEF u, w, new, set
<1>6. /\ users' \in [Reader -> UserRow \cup {None}]
      /\ \A x \in Reader : users[x] # None => users'[x] # None
  BY <1>1, <1>3, <1>4, <1>5 DEF Rows
<1>7. pc[c] # "idle" /\ A!Close(c) /\ req' = req
  BY DEF A!Commit
<1>8. /\ pc' \in [Call -> A!Stage] /\ \A d \in Call : d # c => pc'[d] = pc[d]
      /\ tx' = [d \in Call |-> tx'[d]] /\ \A d \in Call : tx'[d] \in {tx[d], A!NoWrites}
  BY <1>7 DEF A!Close, A!Goto, A!Stage, Rows
<1>9. \A d \in Call : Columned(tx'[d])
  BY <1>8, NothingColumned DEF Rows
<1>10. \A d \in Call : Columned(tx[d])'
  BY <1>9 DEF Columned
<1> QED
  BY <1>6, <1>7, <1>8, <1>10 DEF Rows

LEMMA InitRows == UsersInit => Rows
<1> SUFFICES ASSUME UsersInit PROVE Rows
  OBVIOUS
<1>1. \A u \in Reader : users[u] \in UserRow \cup {None}
  BY DEF UsersInit, A!Init, UserRow, A!Role
<1>2. users = [u \in Reader |-> users[u]]
  BY DEF UsersInit, A!Init
<1>3. \A c \in Call : Columned(tx[c])
  BY NothingColumned DEF UsersInit, A!Init
<1> QED
  BY <1>1, <1>2, <1>3 DEF UsersInit, A!Init, A!Stage, Rows

LEMMA NextRows ==
  ASSUME Rows, A!Next
  PROVE  Rows' /\ \A u \in Reader : users[u] # None => users'[u] # None
<1>1. ASSUME NEW c \in Call, A!Admit(c) \/ A!Arrive(c) PROVE Rows' /\ users' = users
  <2>1. PICK q \in Ask, s \in {"body", "done"} : A!Begin(c, q) /\ A!Goto(c, s)
    BY <1>1 DEF A!Admit, A!Arrive
  <2> QED
    BY <2>1, BeginRows DEF A!Begin, A!tables
<1>2. ASSUME NEW c \in Call, A!Abort(c) PROVE Rows' /\ users' = users
  BY <1>2, CloseRows DEF A!Abort, A!Open, A!tables
<1>3. ASSUME NEW c \in Call, A!Serve(c), ~A!Commit(c) PROVE Rows' /\ users' = users
  <2>1. Rows'
    BY <1>3, PlainRows, ReadingRows, InsertRows, UpdateRows DEF A!Serve
  <2>2. users' = users
    BY <1>3 DEF A!Serve, A!CheckPassword, A!StampLogin, A!Logout, A!WeakPassword, A!CheckEmail,
       A!InsertUser, A!LoadUser, A!UpdateUser, A!FindOpenLinks, A!Invalidate, A!SendLink,
       A!FindLink, A!SetPassword, A!MarkUsed, A!Leave, A!Within, A!tables
  <2> QED
    BY <2>1, <2>2
<1>4. ASSUME NEW u \in Reader, A!Refresh(u) \/ A!AccessExpires(u) \/ A!RefreshExpires(u)
      PROVE  Rows' /\ users' = users
  BY <1>4, StillRows DEF A!Refresh, A!AccessExpires, A!RefreshExpires, A!tables
<1>5. ASSUME NEW l \in Call, A!LinkExpires(l) PROVE Rows' /\ users' = users
  BY <1>5, StillRows DEF A!LinkExpires
<1> QED
  BY <1>1, <1>2, <1>3, <1>4, <1>5, CommitRows DEF A!Next

-----------------------------------------------------------------------------
(* Who may write preference rows.                                          *)

LEMMA NotNone ==
  /\ \A k \in Token : k # None
  /\ \A p \in Preference : p # None
  /\ \A w \in Columns : w # None
  /\ \A w \in Wish : w # None
BY NoneAssumption

(* No request moves and no row is written; tokens may die, and a new       *)
(* listing finds nothing to be cleared.                                    *)
LEMMA QuietPreferences ==
  ASSUME IInv, UNCHANGED <<users, prefs, cleared, requests>>, live' \subseteq live,
         listing' = listing \/ cleared = {}
  PROVE  Preferences'
<1>1. Clearing'
  BY DEF IInv, Preferences, Clearing
<1>2. \A v \in Visit : Request(v)'
  BY DEF IInv, Preferences, Request, requests
<1> QED
  BY <1>1, <1>2 DEF IInv, Preferences

LEMMA InvalidPreferences ==
  ASSUME IInv, NEW t \in Task, PushInvalid(t), users' = users
  PROVE  Preferences'
<1>1. /\ RowFree(cur.user) /\ cur.token \notin live
      /\ cleared' = IF prefs[cur.user] # None /\ prefs[cur.user].token # None
                    THEN cleared \cup {cur.user} ELSE cleared
      /\ UNCHANGED <<live, prefs, listing, visit, loaded, wish, written>>
  BY DEF PushInvalid, requests
<1>2. cur \in listing
  BY Serving DEF PushInvalid, Calls, Channel
<1>3. Clearing'
  <2> SUFFICES ASSUME NEW u \in cleared'
               PROVE  prefs[u] # None /\ \E r \in listing : r.user = u /\ r.token \notin live
    BY <1>1 DEF Clearing
  <2>1. CASE u \in cleared
    BY <2>1 DEF IInv, Preferences, Clearing
  <2>2. CASE u \notin cleared
    <3>1. u = cur.user /\ prefs[u] # None
      BY <1>1, <2>2
    <3> QED
      BY <1>1, <1>2, <3>1
  <2> QED
    BY <2>1, <2>2
<1>4. \A v \in Visit : Request(v)'
  BY <1>1 DEF IInv, Preferences, Request, RowFree
<1> QED
  BY <1>1, <1>3, <1>4 DEF IInv, Preferences

(* The clearing that a commit brings about leaves the rows there.          *)
LEMMA ResetPreferences ==
  ASSUME IInv, cleared' = {}, UNCHANGED <<users, requests>>,
         \A u \in Reader : prefs'[u] = None <=> prefs[u] = None
  PROVE  Preferences'
<1>1. \A v \in Visit : visit[v] \in {"loaded", "commit"} => wish[v].user \in Reader
  BY WishTypes DEF IInv, Preferences, Request
<1>2. \A v \in Visit : Request(v)'
  BY <1>1 DEF IInv, Preferences, Request, requests
<1> QED
  BY <1>2 DEF IInv, Preferences, Clearing

LEMMA CommitPreferences ==
  ASSUME IInv, NEW t \in Task, CommitTask(t), users' = users
  PROVE  Preferences'
<1>1. prefs' = [u \in Reader |-> IF u \in cleared THEN [prefs[u] EXCEPT !.token = None]
                                 ELSE prefs[u]]
  BY DEF CommitTask
<1>2. \A u \in cleared : prefs[u] # None /\ [prefs[u] EXCEPT !.token = None] # None
  BY ClearedRows, NotNone
<1> QED
  BY <1>1, <1>2, ResetPreferences DEF CommitTask, Reset

(* A request that ends.                                                    *)
LEMMA AnsweredRequest ==
  ASSUME IInv, NEW v \in Visit, Answered(v)
  PROVE  /\ visit'[v] = "done" /\ written'[v] = None
         /\ \A x \in Visit : x # v => /\ visit'[x] = visit[x] /\ wish'[x] = wish[x]
                                      /\ loaded'[x] = loaded[x] /\ written'[x] = written[x]
BY DEF Answered, IInv, TypeOK

LEMMA EndsPreferences ==
  ASSUME IInv, NEW v \in Visit, Answered(v), UNCHANGED <<users, live, listing, cleared, prefs>>
  PROVE  Preferences'
<1>1. /\ visit'[v] = "done" /\ written'[v] = None
      /\ \A x \in Visit : x # v => /\ visit'[x] = visit[x] /\ wish'[x] = wish[x]
                                   /\ loaded'[x] = loaded[x] /\ written'[x] = written[x]
  BY AnsweredRequest
<1>2. \A x \in Visit : Request(x)'
  BY <1>1 DEF IInv, Preferences, Request
<1> QED
  BY <1>2 DEF IInv, Preferences, Clearing

LEMMA LoadPreferences ==
  ASSUME IInv, NEW v \in Visit, NEW w \in Wishes, LoadPreference(v, w), users' = users
  PROVE  Preferences'
<1>1. UNCHANGED <<live, listing, cleared, prefs>> /\ visit[v] = "idle"
  BY DEF LoadPreference, task
<1>2. CASE Answered(v)
  BY <1>1, <1>2, EndsPreferences
<1>3. CASE ~Answered(v)
  <2>1. /\ visit'[v] = "loaded" /\ wish'[v] = w /\ loaded'[v] = prefs[w.user]
        /\ written' = written
        /\ \A x \in Visit : x # v => /\ visit'[x] = visit[x] /\ wish'[x] = wish[x]
                                     /\ loaded'[x] = loaded[x]
    BY <1>3 DEF LoadPreference, IInv, TypeOK
  <2>2. w \in Wish /\ users[w.user] # None
    BY DEF Wishes, Active
  <2>3. written[v] = None
    BY <1>1 DEF IInv, Preferences, Request
  <2>4. Request(v)'
    BY <1>1, <2>1, <2>2, <2>3 DEF Request
  <2>5. ASSUME NEW x \in Visit, x # v PROVE Request(x)'
    BY <1>1, <2>1, <2>3, <2>5 DEF IInv, Preferences, Request
  <2>6. \A x \in Visit : Request(x)'
    BY <2>4, <2>5
  <2> QED
    BY <1>1, <2>6 DEF IInv, Preferences, Clearing
<1> QED
  BY <1>2, <1>3

LEMMA WritePreferences ==
  ASSUME IInv, NEW v \in Visit, WritePreference(v), users' = users
  PROVE  Preferences'
<1>1. /\ UNCHANGED <<live, listing, cleared, prefs>>
      /\ visit[v] = "loaded" /\ RowFree(wish[v].user)
  BY DEF WritePreference, task
<1>2. CASE Answered(v)
  BY <1>1, <1>2, EndsPreferences
<1>3. CASE ~Answered(v)
  <2>1. /\ visit'[v] = "commit" /\ written'[v] = Flushed(v)
        /\ UNCHANGED <<wish, loaded>>
        /\ \A x \in Visit : x # v => visit'[x] = visit[x] /\ written'[x] = written[x]
        /\ loaded[v] # None \/ prefs[wish[v].user] = None
    BY <1>3 DEF WritePreference, IInv, TypeOK
  <2>2. Flushed(v) # None /\ (Flushed(v).insert <=> loaded[v] = None)
    BY <1>1, FlushedTypes, NotNone
  <2>3. \A x \in Visit : written[x] # None => wish[x].user # wish[v].user
    BY <1>1 DEF RowFree
  <2>4. Request(v)'
    BY <1>1, <2>1, <2>2, <2>3 DEF IInv, Preferences, Request, RowFree
  <2>5. ASSUME NEW x \in Visit, x # v PROVE Request(x)'
    BY <1>1, <2>1, <2>2, <2>3, <2>5 DEF IInv, Preferences, Request
  <2>6. \A x \in Visit : Request(x)'
    BY <2>4, <2>5
  <2> QED
    BY <1>1, <2>6 DEF IInv, Preferences, Clearing
<1> QED
  BY <1>2, <1>3

LEMMA StorePreferences ==
  ASSUME IInv, NEW v \in Visit, CommitPreference(v), users' = users
  PROVE  Preferences'
<1> DEFINE u == wish[v].user
<1>1. /\ UNCHANGED <<live, listing, cleared>> /\ visit[v] = "commit" /\ Answered(v)
  BY DEF CommitPreference, task
<1>2. u \in Reader /\ prefs'[u] # None /\ \A x \in Reader : x # u => prefs'[x] = prefs[x]
  BY CommittedTypes, NotNone DEF IInv, TypeOK
<1>3. users[u] # None /\ written[v] # None
  BY <1>1 DEF IInv, Preferences, Request
<1>4. /\ visit'[v] = "done" /\ written'[v] = None
      /\ \A x \in Visit : x # v => /\ visit'[x] = visit[x] /\ wish'[x] = wish[x]
                                   /\ loaded'[x] = loaded[x] /\ written'[x] = written[x]
  BY <1>1, AnsweredRequest
<1>5. ASSUME NEW x \in Visit PROVE Request(x)'
  <2>1. CASE x = v
    BY <1>4, <2>1 DEF Request
  <2>2. CASE x # v
    <3>1. Request(x) /\ (visit[x] \in {"loaded", "commit"} => wish[x].user \in Reader)
      BY WishTypes DEF IInv, Preferences, Request
    <3>2. written[x] # None => wish[x].user # u
      BY <1>3, <2>2 DEF IInv, Preferences, Request
    <3> HIDE DEF u
    <3> QED
      BY <1>1, <1>2, <1>4, <2>2, <3>1, <3>2 DEF Request
  <2> QED
    BY <2>1, <2>2
<1>6. Clearing'
  BY <1>1, <1>2 DEF IInv, TypeOK, Preferences, Clearing
<1>7. \A x \in Reader : users[x] = None => prefs'[x] = None
  BY <1>2, <1>3 DEF IInv, Preferences
<1> QED
  BY <1>5, <1>6, <1>7 DEF Preferences

(* A reader who is created gets a row, and no account goes away.           *)
LEMMA AccountPreferences ==
  ASSUME IInv, Rows, AccountStep
  PROVE  Preferences'
<1>1. \A u \in Reader : users[u] # None => users'[u] # None
  BY NextRows DEF AccountStep
<1>2. /\ \A u \in Reader : prefs'[u] = IF users[u] = None /\ users'[u] # None
                                       THEN Default ELSE prefs[u]
      /\ UNCHANGED <<live, listing, cleared, visit, loaded, wish, written>>
  BY DEF AccountStep, task, requests
<1>3. Default # None
  BY NotNone DEF Default, Preference
<1>4. \A v \in Visit : visit[v] \in {"loaded", "commit"} =>
        wish[v].user \in Reader /\ users[wish[v].user] # None
  BY WishTypes DEF IInv, Preferences, Request
<1>5. \A v \in Visit : Request(v)'
  BY <1>1, <1>2, <1>4 DEF IInv, Preferences, Request
<1>6. Clearing'
  BY <1>2, <1>3 DEF IInv, TypeOK, Preferences, Clearing
<1>7. \A u \in Reader : users'[u] = None => prefs'[u] = None
  BY <1>1, <1>2 DEF IInv, Preferences
<1> QED
  BY <1>5, <1>6, <1>7 DEF Preferences

LEMMA NextPreferences == IInv /\ Rows /\ [UsersNext]_usersVars => Preferences'
<1> SUFFICES ASSUME IInv, Rows, [UsersNext]_usersVars PROVE Preferences'
  OBVIOUS
<1>1. CASE UNCHANGED usersVars
  BY <1>1, QuietPreferences DEF usersVars, vars, task, accounts
<1>2. CASE AccountStep
  BY <1>2, AccountPreferences
<1>3. CASE DeliveryStep
  <2>u. users' = users
    BY <1>3 DEF DeliveryStep, accounts
  <2>1. ASSUME NEW t \in Task, NEW active, List(t, active) PROVE Preferences'
    <3>1. cleared = {}
      BY <2>1 DEF List, IInv, Queue
    <3> QED
      BY <2>u, <2>1, <3>1, QuietPreferences DEF List
  <2>2. ASSUME NEW t \in Task,
               \/ Pick(t) \/ \E channel \in Channel : Skip(t, channel)
               \/ MailSent(t) \/ MailRefused(t) \/ MailLate(t)
               \/ PushSent(t) \/ PushFails(t) \/ PushLate(t)
        PROVE  Preferences'
    BY <2>u, <2>2, QuietPreferences
    DEF Pick, Skip, MailSent, MailRefused, MailLate, PushSent, PushFails, PushLate
  <2>3. ASSUME NEW t \in Task, TaskFails(t) PROVE Preferences'
    BY <2>u, <2>3, ResetPreferences DEF TaskFails, Reset
  <2>4. ASSUME NEW k \in Token, TokenDies(k) PROVE Preferences'
    BY <2>u, <2>4, QuietPreferences DEF TokenDies, task
  <2>5. ASSUME NEW v \in Visit, RequestFails(v) PROVE Preferences'
    BY <2>u, <2>5, EndsPreferences DEF RequestFails, task
  <2> QED
    BY <1>3, <2>u, <2>1, <2>2, <2>3, <2>4, <2>5, InvalidPreferences, CommitPreferences,
       LoadPreferences, WritePreferences, StorePreferences DEF DeliveryStep, Next, Notify, Store
<1> QED
  BY <1>1, <1>2, <1>3 DEF UsersNext

-----------------------------------------------------------------------------
(* The theorems.                                                           *)

LEMMA InitIInv == UsersInit => IInv
<1> SUFFICES ASSUME UsersInit PROVE IInv
  OBVIOUS
<1> USE DEF UsersInit, Init
<1>1. TypeOK
  <2>1. \A k \in Token \cup {None} : [Default EXCEPT !.token = k] \in Preference
    BY DEF Default, Preference
  <2>2. prefs \in [Reader -> Preference \cup {None}]
    BY <2>1
  <2> QED
    BY <2>2, AttemptAssumption, MishapAssumption DEF TypeOK
<1>2. Queue
  BY DEF Queue, Sending
<1>3. LogIsTrue
  BY DEF LogIsTrue
<1>4. Accounted
  <2> SUFFICES ASSUME NEW p \in Reader \X Channel
               PROVE  delivered[p] <= excused[p] + (IF SentRow(p) THEN 1 ELSE 0)
    BY DEF Accounted
  <2>1. delivered[p] = 0 /\ excused[p] = 0
    OBVIOUS
  <2> QED
    BY <2>1
<1>5. Preferences
  BY DEF Preferences, Clearing, Request
<1> QED
  BY <1>1, <1>2, <1>3, <1>4, <1>5 DEF IInv

LEMMA NextIInv == IInv /\ Rows /\ [UsersNext]_usersVars => IInv' /\ Rows'
<1> SUFFICES ASSUME IInv, Rows, [UsersNext]_usersVars PROVE IInv' /\ Rows'
  OBVIOUS
<1>1. IInv'
  BY NextTypes, NextQueue, NextTruth, NextAccounted, NextPreferences DEF IInv
<1>2. CASE A!Next
  BY <1>1, <1>2, NextRows
<1>3. CASE UNCHANGED accounts
  BY <1>1, <1>3, StillRows DEF accounts
<1> QED
  BY <1>2, <1>3 DEF UsersNext, usersVars, AccountStep, DeliveryStep

LEMMA SpecIInv == UsersSpec => [](IInv /\ Rows)
BY InitIInv, InitRows, NextIInv, PTL DEF UsersSpec

(* A log row that says SENT is true, and a reader has one row per channel  *)
(* (notification_orchestrator), whatever fails and whoever sends again.    *)
THEOREM RowsAreTrue == UsersSpec => []LogIsTrue
<1>1. IInv => LogIsTrue
  BY DEF IInv
<1> QED
  BY <1>1, SpecIInv, PTL

(* A second copy of a notification has an excuse: an answer that was lost  *)
(* or a task that rolled back (mail_service, digest task).                 *)
THEOREM CopiesHaveExcuses == UsersSpec => []CopiesAccountedFor
<1>1. ASSUME IInv PROVE CopiesAccountedFor
  <2>1. ASSUME NEW p \in Reader \X Channel PROVE delivered[p] <= 1 + excused[p]
    <3>1. delivered[p] \in Nat /\ excused[p] \in Nat /\ Balanced(p)
      BY <1>1, Balance
    <3> QED
      BY <3>1 DEF Balanced
  <2>2. DOMAIN delivered = Reader \X Channel
    BY <1>1 DEF IInv, TypeOK
  <2> QED
    BY <2>1, <2>2 DEF CopiesAccountedFor
<1> QED
  BY <1>1, SpecIInv, PTL

(* A step that takes a task from commit to done without a mishap is the    *)
(* commit of that task.                                                    *)
LEMMA CommitIsCommit ==
  ASSUME IInv, [UsersNext]_usersVars, NEW t \in Task, stage[t] = "commit", stage'[t] = "done",
         UNCHANGED mishaps
  PROVE  CommitTask(t)
<1>1. ASSUME NEW s \in Task, NEW g, Goto(s, g), stage[s] # "commit" PROVE FALSE
  BY <1>1 DEF Goto, IInv, TypeOK
<1>2. stage' # stage
  OBVIOUS
<1>3. DeliveryStep
  BY <1>2 DEF UsersNext, usersVars, vars, task, AccountStep
<1>4. ASSUME NEW s \in Task, s # t PROVE ~Sending(s)
  BY <1>4 DEF IInv, Queue, Sending
<1>5. ASSUME NEW s \in Task, NEW active, List(s, active) PROVE FALSE
  BY <1>5 DEF List, Sending
<1>6. ASSUME NEW s \in Task, TaskFails(s) PROVE FALSE
  BY <1>6, MishapTypes DEF TaskFails
<1>7. ASSUME NEW s \in Task, Notify(s) PROVE CommitTask(t)
  <2>1. CASE CommitTask(s)
    <3>1. Sending(s)
      BY <2>1 DEF CommitTask, Sending
    <3> QED
      BY <1>4, <2>1, <3>1
  <2>2. CASE ~CommitTask(s)
    <3>1. stage[s] \in {"next", "email", "push"}
      BY <1>7, <2>2 DEF Notify, Pick, Skip, MailSent, MailRefused, MailLate, PushSent, PushFails,
         PushLate, PushInvalid, Calls, Channel
    <3>2. s # t /\ Sending(s)
      BY <3>1 DEF Sending
    <3> QED
      BY <1>4, <3>2
  <2> QED
    BY <2>1, <2>2
<1>8. ASSUME NEW k \in Token, TokenDies(k) PROVE FALSE
  BY <1>2, <1>8 DEF TokenDies, task
<1>9. ASSUME NEW v \in Visit,
             Store(v) \/ RequestFails(v) \/ \E w \in Wishes : LoadPreference(v, w)
      PROVE  FALSE
  BY <1>2, <1>9 DEF Store, WritePreference, CommitPreference, RequestFails, LoadPreference, task
<1> QED
  BY <1>3, <1>5, <1>6, <1>7, <1>8, <1>9 DEF DeliveryStep, Next

(* A task that commits has left a row for every channel that was on when   *)
(* it listed its readers (send_digest_ready), whatever failed meanwhile.   *)
THEOREM CommitsSettle == UsersSpec => CommitSettles
<1> DEFINE Settled(t) ==
      stage[t] = "commit" /\ stage'[t] = "done" /\ UNCHANGED mishaps =>
        \A r \in listing, channel \in Channel :
          Wants(r, channel) => \E e \in log' : e.user = r.user /\ e.channel = channel
<1>1. ASSUME IInv, [UsersNext]_usersVars, NEW t \in Task PROVE Settled(t)
  <2> SUFFICES ASSUME stage[t] = "commit", stage'[t] = "done", UNCHANGED mishaps,
                      NEW r \in listing, NEW channel \in Channel, Wants(r, channel)
               PROVE  \E e \in log' : e.user = r.user /\ e.channel = channel
    OBVIOUS
  <2>1. log' = log \cup rows
    BY <1>1, CommitIsCommit DEF CommitTask
  <2>2. Sending(t) /\ todo = {} /\ Served(t, r)
    BY <1>1 DEF IInv, Queue, Sending
  <2>3. HasRow(r, channel)
    BY <2>2 DEF Served, Channel
  <2> QED
    BY <2>1, <2>3 DEF HasRow
<1>2. IInv /\ [UsersNext]_usersVars => [\A t \in Task : Settled(t)]_vars
  BY <1>1
<1> QED
  BY <1>2, SpecIInv, PTL DEF UsersSpec, CommitSettles

(* A token that works is taken from a reader only if another one, listed   *)
(* for the task, did not (push_service.clear_fcm_token); neither an        *)
(* admin's change nor the account's creation in between loses it.          *)
THEOREM LiveTokensStay == UsersSpec => LiveTokenStays
<1> DEFINE Kept(u) ==
      prefs[u] # None /\ prefs'[u] # None =>
        \/ prefs'[u].token # None \/ prefs[u].token \notin live
        \/ \E r \in listing : r.user = u /\ r.token \notin live
<1>1. ASSUME IInv, Rows, [UsersNext]_usersVars, NEW u \in Reader PROVE Kept(u)
  <2> SUFFICES ASSUME prefs[u] # None, prefs'[u] # prefs[u], prefs[u].token \in live,
                      prefs'[u].token = None,
                      ~\E r \in listing : r.user = u /\ r.token \notin live
               PROVE  FALSE
    <3>1. prefs[u].token \in live => prefs[u].token # None
      BY <1>1, NotNone DEF IInv, TypeOK
    <3> QED
      BY <3>1
  <2>0. prefs[u].token # None
    BY <1>1, NotNone DEF IInv, TypeOK
  <2>1. ASSUME NEW t \in Task, CommitTask(t) PROVE FALSE
    BY <1>1, <2>1 DEF CommitTask, IInv, Preferences, Clearing
  <2>2. ASSUME NEW v \in Visit, CommitPreference(v) PROVE FALSE
    <3>1. wish[v].user = u
      BY <1>1, <2>2, CommittedTypes DEF IInv, TypeOK
    <3>2. written[v] # None
      BY <1>1, <2>2 DEF CommitPreference, IInv, Preferences, Request
    <3>3. ~written[v].insert
      BY <1>1, <3>1, <3>2 DEF IInv, Preferences, Request
    <3> QED
      BY <1>1, <2>0, <2>2, <3>1, <3>3, CommittedTypes
  <2>3. CASE AccountStep
    <3>1. prefs'[u] = IF users[u] = None /\ users'[u] # None THEN Default ELSE prefs[u]
      BY <2>3 DEF AccountStep
    <3> QED
      BY <1>1, <3>1 DEF IInv, Preferences
  <2>4. CASE DeliveryStep
    <3>1. prefs' # prefs
      OBVIOUS
    <3> QED
      BY <2>1, <2>2, <2>4, <3>1
      DEF DeliveryStep, Next, Notify, Store, List, Pick, Skip, MailSent, MailRefused, MailLate,
          PushSent, PushFails, PushLate, PushInvalid, TaskFails, TokenDies, WritePreference,
          RequestFails, LoadPreference
  <2> QED
    BY <1>1, <2>3, <2>4 DEF UsersNext, usersVars, vars
<1>2. IInv /\ Rows /\ [UsersNext]_usersVars => [\A u \in Reader : Kept(u)]_vars
  BY <1>1
<1> QED
  BY <1>2, SpecIInv, PTL DEF UsersSpec, LiveTokenStays
=============================================================================
