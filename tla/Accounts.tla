------------------------------ MODULE Accounts -------------------------------
(***************************************************************************)
(* The users table and the password reset links of the API: login, refresh *)
(* and logout (auth_service), the admin's user administration              *)
(* (user_service) and the two halves of a password reset                   *)
(* (password_reset_service).  Every call is one request with one session,  *)
(* which get_db commits at the end or rolls back.                          *)
(*                                                                         *)
(* Abstractions.  An account is its e-mail address; of its row the role,   *)
(* is_active and the call that set the password are kept.  A link is named *)
(* after the call that issued it.  A token is the account it was issued    *)
(* to.  PostgreSQL runs READ COMMITTED; a session does not read an object  *)
(* twice, and the ORM writes the columns whose value differs from the one  *)
(* it loaded.                                                              *)
(***************************************************************************)
EXTENDS Naturals, FiniteSets

CONSTANTS
  Account,    \* accounts that exist or may be created
  Existing,   \* accounts at the start, among them the first admin
  Admins,     \* which of them are admins
  Call,       \* requests to the API
  Ask,        \* what they may ask for
  MaxEvents,  \* bound on expired tokens and links, lost connections, failed commits
  None        \* no value

Kind == {"login", "logout", "create", "update", "initiate", "complete"}
Role == {"admin", "viewer"}
LinkState == {"open", "used", "expired"}
AskRecord ==
  [kind : Kind, by : Account \cup {None}, of : Account \cup {None},
   role : Role \cup {None}, active : BOOLEAN \cup {None}, link : Call \cup {None}]

ASSUME AccountAssumption == Admins \subseteq Existing /\ Existing \subseteq Account
ASSUME AskAssumption ==
  /\ Ask \subseteq AskRecord
  /\ \A q \in Ask :
       /\ q.kind = "complete" => q.link # None
       /\ q.kind # "complete" => q.of # None
       /\ q.kind \notin {"login", "complete"} => q.by # None
       /\ q.kind = "create" => q.role # None
ASSUME EventAssumption == MaxEvents \in Nat
ASSUME DistinctAssumption ==
  /\ Account \cap Call = {}
  /\ None \notin Account \cup Call /\ None \notin Role \cup LinkState /\ None \notin BOOLEAN

VARIABLES
  overlap,    \* are calls served while others are?  Fixed at the start.
  users,      \* committed rows of users; None without one
  links,      \* committed rows of password_reset_tokens
  audit,      \* committed rows of audit_logs
  access,     \* accounts that hold a valid access token
  refresh,    \* accounts that hold a valid refresh token
  req,        \* call -> what it asks for
  pc,         \* call -> what it does next
  seen,       \* call -> the User objects of its session, as loaded
  hits,       \* call -> open links its UPDATE has found
  tx,         \* call -> its flushed, uncommitted writes
  events      \* expiries and failures so far

tables == <<users, links, audit>>
tokens == <<access, refresh>>
vars == <<overlap, tables, tokens, req, pc, seen, hits, tx, events>>

Stage == {"idle", "body", "loaded", "insert", "invalidate", "send", "mark", "commit", "done"}
Row == [role : Role, active : BOOLEAN, pass : Call \cup {None}]
ASSUME RowAssumption == None \notin Row

Event ==
  [name : {"login", "login_failed", "logout", "created", "role_changed", "deactivated",
           "updated", "reset_initiated", "reset_completed"},
   call : Call, of : Account, from : Role \cup {None}, to : Role \cup {None}]

(* The columns and rows a session has written, the rows it holds, and the  *)
(* audit rows it has inserted.                                             *)
Writes ==
  [role : Role \cup {None}, active : BOOLEAN \cup {None}, pass : Call \cup {None},
   links : [Call -> LinkState \cup {None}], holds : SUBSET (Account \cup Call),
   audit : SUBSET Event]

NoLinks == [l \in Call |-> None]
NoWrites == [role |-> None, active |-> None, pass |-> None, links |-> NoLinks,
             holds |-> {}, audit |-> {}]
Nobody == [u \in Account |-> None]

Open(c) == pc[c] \notin {"idle", "done"}

Init ==
  /\ overlap \in BOOLEAN
  /\ users = [u \in Account |->
                IF u \notin Existing THEN None
                ELSE [role |-> IF u \in Admins THEN "admin" ELSE "viewer",
                      active |-> TRUE, pass |-> None]]
  /\ links = NoLinks
  /\ audit = {}
  /\ access = Existing
  /\ refresh = Existing
  /\ req = [c \in Call |-> None]
  /\ pc = [c \in Call |-> "idle"]
  /\ seen = [c \in Call |-> Nobody]
  /\ hits = [c \in Call |-> {}]
  /\ tx = [c \in Call |-> NoWrites]
  /\ events = 0

(* The account a link was issued for, and the one a call writes.           *)
Owner(l) == req[l].of
Target(c) == IF req[c].kind = "complete" THEN Owner(req[c].link) ELSE req[c].of

-----------------------------------------------------------------------------
(* Sessions.                                                               *)

Goto(c, stage) == pc' = [pc EXCEPT ![c] = stage]

(* A row is free for a session unless another one has written it.          *)
Free(c, rows) == \A d \in Call \ {c} : tx[d].holds \cap rows = {}

(* SELECT a user; an object the session has is not refreshed.              *)
Load(c, u) == seen' = [seen EXCEPT ![c][u] = IF @ = None THEN users[u] ELSE @]

(* Mutant of Close: a session that ends keeps its rows.                    *)
CloseKeepsRows(c) ==
  /\ Goto(c, "done")
  /\ seen' = [seen EXCEPT ![c] = Nobody]
  /\ hits' = [hits EXCEPT ![c] = {}]
  /\ UNCHANGED tx

Close(c) ==
  /\ Goto(c, "done")
  /\ seen' = [seen EXCEPT ![c] = Nobody]
  /\ hits' = [hits EXCEPT ![c] = {}]
  /\ tx' = [tx EXCEPT ![c] = NoWrites]

(* An exception or an early return without writes.                         *)
Leave(c) == Close(c) /\ UNCHANGED <<overlap, tables, tokens, req, events>>

(* A step that neither commits nor ends the session.                       *)
Within == UNCHANGED <<overlap, tables, tokens, req, events>>

(* One of the bounded number of expiries and failures.                     *)
Happens == events < MaxEvents /\ events' = events + 1

Audited(c, name, u, from, to) ==
  [name |-> name, call |-> c, of |-> u, from |-> from, to |-> to]

Plain(c, name) == Audited(c, name, Target(c), None, None)

Begin(c, q) ==
  /\ pc[c] = "idle"
  /\ overlap \/ \A d \in Call : ~Open(d)
  /\ req' = [req EXCEPT ![c] = q]
  /\ UNCHANGED <<overlap, tables, tokens, hits, tx, events>>

-----------------------------------------------------------------------------
(* Who may call: get_current_user and require_admin.                       *)

Admit(c) ==
  \E q \in {a \in Ask : a.by # None} :
    LET actor == users[q.by] IN
    /\ q.by \in access
    /\ actor # None
    /\ Begin(c, q)
    /\ IF actor.active /\ (q.kind = "logout" \/ actor.role = "admin")
       THEN Goto(c, "body") /\ Load(c, q.by)
       ELSE Goto(c, "done") /\ UNCHANGED seen

(* The endpoints without a token.  A reset is completed by whoever has the *)
(* link: from the log in development, or from a mailer in the stub's place.*)
Arrive(c) ==
  \E q \in {a \in Ask : a.kind \in {"login", "complete"}} :
    /\ q.link # None => req[q.link] # None /\ req[q.link].kind = "initiate"
    /\ Begin(c, q)
    /\ Goto(c, "body")
    /\ UNCHANGED seen

Doing(c, kind, stage) == pc[c] = stage /\ req[c].kind = kind

-----------------------------------------------------------------------------
(* Tokens.                                                                 *)

(* The row by e-mail, the password, is_active: a refusal is audited and    *)
(* committed at once.                                                      *)
CheckPassword(c) ==
  /\ Doing(c, "login", "body")
  /\ \E right \in BOOLEAN :
       LET row == users[req[c].of] IN
       IF row # None /\ right /\ row.active
       THEN Goto(c, "loaded") /\ Load(c, req[c].of) /\ UNCHANGED tx
       ELSE /\ Goto(c, "commit")
            /\ tx' = [tx EXCEPT ![c].audit = {Plain(c, "login_failed")}]
            /\ UNCHANGED seen
  /\ Within /\ UNCHANGED <<hits>>

(* update_last_login, flushed before the token lifetimes are read.         *)
StampLogin(c) ==
  /\ Doing(c, "login", "loaded")
  /\ Free(c, {req[c].of})
  /\ tx' = [tx EXCEPT ![c].holds = {req[c].of}, ![c].audit = {Plain(c, "login")}]
  /\ Goto(c, "commit")
  /\ Within /\ UNCHANGED <<seen, hits>>

(* A refresh token buys an access token as long as the account is active.  *)
Refresh(u) ==
  /\ u \in refresh
  /\ users[u] # None /\ users[u].active
  /\ access' = access \cup {u}
  /\ UNCHANGED <<overlap, tables, refresh, req, pc, seen, hits, tx, events>>

(* Nothing but the audit row remembers a logout.                           *)
Logout(c) ==
  /\ Doing(c, "logout", "body")
  /\ tx' = [tx EXCEPT ![c].audit = {Plain(c, "logout")}]
  /\ Goto(c, "commit")
  /\ Within /\ UNCHANGED <<seen, hits>>

AccessExpires(u) ==
  /\ u \in access
  /\ Happens
  /\ access' = access \ {u}
  /\ UNCHANGED <<overlap, tables, refresh, req, pc, seen, hits, tx>>

RefreshExpires(u) ==
  /\ u \in refresh
  /\ Happens
  /\ refresh' = refresh \ {u}
  /\ UNCHANGED <<overlap, tables, access, req, pc, seen, hits, tx>>

-----------------------------------------------------------------------------
(* User administration.                                                    *)

(* validate_password_strength refuses before anything is read.             *)
WeakPassword(c) ==
  /\ pc[c] = "body"
  /\ req[c].kind \in {"create", "complete"}
  /\ Leave(c)

(* The e-mail address is looked up, then inserted under a unique index.    *)
CheckEmail(c) ==
  /\ Doing(c, "create", "body")
  /\ IF users[req[c].of] # None
     THEN Leave(c)
     ELSE Goto(c, "insert") /\ Within /\ UNCHANGED <<seen, hits, tx>>

InsertUser(c) ==
  LET u == req[c].of IN
  /\ Doing(c, "create", "insert")
  /\ Free(c, {u})
  /\ IF users[u] # None
     THEN Leave(c)
     ELSE /\ tx' = [tx EXCEPT ![c].role = req[c].role, ![c].active = TRUE,
                              ![c].holds = {u}, ![c].audit = {Plain(c, "created")}]
          /\ Goto(c, "commit")
          /\ Within /\ UNCHANGED <<seen, hits>>

(* get_by_id of the target, in update_user and in initiate.                *)
LoadUser(c) ==
  LET u == req[c].of IN
  /\ pc[c] = "body"
  /\ req[c].kind \in {"update", "initiate"}
  /\ IF users[u] = None
     THEN Leave(c)
     ELSE Goto(c, "loaded") /\ Load(c, u) /\ Within /\ UNCHANGED <<hits, tx>>

Given(value, otherwise) == IF value = None THEN otherwise ELSE value
Changed(new, old) == IF new = old THEN None ELSE new

(* _write_update_audits.                                                   *)
UpdateAudits(c, old, role, active) ==
  LET u == req[c].of IN
  {e \in {Audited(c, "role_changed", u, old.role, role)} : role # old.role}
  \cup {e \in {Plain(c, "deactivated")} : old.active /\ ~active}
  \cup {e \in {Plain(c, "updated")} : active # old.active}

(* Mutant of UpdateUser: the previous values are taken after the update.   *)
UpdateUserForgets(c) ==
  LET u == req[c].of
      old == seen[c][u]
      role == Given(req[c].role, old.role)
      active == Given(req[c].active, old.active)
  IN
  /\ Doing(c, "update", "loaded")
  /\ IF role = old.role /\ active = old.active
     THEN Leave(c)
     ELSE /\ Free(c, {u})
          /\ tx' = [tx EXCEPT ![c].role = Changed(role, old.role),
                              ![c].active = Changed(active, old.active),
                              ![c].holds = {u}]
          /\ Goto(c, "commit")
          /\ Within /\ UNCHANGED <<seen, hits>>

(* Mutant of UpdateUser: every column of the loaded object is written.     *)
UpdateUserWritesAll(c) ==
  LET u == req[c].of
      old == seen[c][u]
      role == Given(req[c].role, old.role)
      active == Given(req[c].active, old.active)
  IN
  /\ Doing(c, "update", "loaded")
  /\ IF role = old.role /\ active = old.active
     THEN Leave(c)
     ELSE /\ Free(c, {u})
          /\ tx' = [tx EXCEPT ![c].role = role, ![c].active = active, ![c].holds = {u},
                              ![c].audit = UpdateAudits(c, old, role, active)]
          /\ Goto(c, "commit")
          /\ Within /\ UNCHANGED <<seen, hits>>

UpdateUser(c) ==
  LET u == req[c].of
      old == seen[c][u]
      role == Given(req[c].role, old.role)
      active == Given(req[c].active, old.active)
  IN
  /\ Doing(c, "update", "loaded")
  /\ IF role = old.role /\ active = old.active
     THEN Leave(c)
     ELSE /\ Free(c, {u})
          /\ tx' = [tx EXCEPT ![c].role = Changed(role, old.role),
                              ![c].active = Changed(active, old.active),
                              ![c].holds = {u},
                              ![c].audit = UpdateAudits(c, old, role, active)]
          /\ Goto(c, "commit")
          /\ Within /\ UNCHANGED <<seen, hits>>

-----------------------------------------------------------------------------
(* Password reset.                                                         *)

(* The UPDATE of invalidate_active_for_user finds its rows, ...            *)
FindOpenLinks(c) ==
  /\ Doing(c, "initiate", "loaded")
  /\ hits' = [hits EXCEPT ![c] = {l \in Call : links[l] = "open" /\ Owner(l) = req[c].of}]
  /\ Goto(c, "invalidate")
  /\ Within /\ UNCHANGED <<seen, tx>>

(* Mutant of Invalidate: the links issued before stay open.                *)
InvalidateNothing(c) ==
  /\ Doing(c, "initiate", "invalidate")
  /\ Goto(c, "send")
  /\ Within /\ UNCHANGED <<seen, hits, tx>>

(* ... waits for those other sessions have written, and checks them again. *)
Invalidate(c) ==
  LET found == {l \in hits[c] : links[l] = "open"} IN
  /\ Doing(c, "initiate", "invalidate")
  /\ Free(c, hits[c])
  /\ tx' = [tx EXCEPT ![c].links = [l \in Call |-> IF l \in found THEN "used" ELSE None],
                      ![c].holds = found]
  /\ Goto(c, "send")
  /\ Within /\ UNCHANGED <<seen, hits>>

(* The new row is flushed and the raw token handed to the mailer, which    *)
(* leaves no trace here: the one that is wired is a stub (email_service),  *)
(* so outside development nobody is told.                                  *)
SendLink(c) ==
  /\ Doing(c, "initiate", "send")
  /\ tx' = [tx EXCEPT ![c].links[c] = "open", ![c].audit = {Plain(c, "reset_initiated")}]
  /\ Goto(c, "commit")
  /\ Within /\ UNCHANGED <<seen, hits>>

(* find_valid_by_raw_token and get_by_id, neither of which takes a lock.   *)
FindLink(c) ==
  LET l == req[c].link IN
  /\ Doing(c, "complete", "body")
  /\ IF links[l] # "open"
     THEN Leave(c)
     ELSE Goto(c, "loaded") /\ Load(c, Owner(l)) /\ Within /\ UNCHANGED <<hits, tx>>

SetPassword(c) ==
  /\ Doing(c, "complete", "loaded")
  /\ Free(c, {Target(c)})
  /\ tx' = [tx EXCEPT ![c].pass = c, ![c].holds = {Target(c)}]
  /\ Goto(c, "mark")
  /\ Within /\ UNCHANGED <<seen, hits>>

(* Mutant of MarkUsed: a link is spent only if it still is the newest.     *)
MarkUsedUnlessClosed(c) ==
  LET l == req[c].link IN
  /\ Doing(c, "complete", "mark")
  /\ Free(c, {l})
  /\ tx' = [tx EXCEPT ![c].links[l] = IF links[l] = "open" THEN "used" ELSE None,
                      ![c].holds = @ \cup {l}, ![c].audit = {Plain(c, "reset_completed")}]
  /\ Goto(c, "commit")
  /\ Within /\ UNCHANGED <<seen, hits>>

MarkUsed(c) ==
  LET l == req[c].link IN
  /\ Doing(c, "complete", "mark")
  /\ Free(c, {l})
  /\ tx' = [tx EXCEPT ![c].links[l] = "used", ![c].holds = @ \cup {l},
                      ![c].audit = {Plain(c, "reset_completed")}]
  /\ Goto(c, "commit")
  /\ Within /\ UNCHANGED <<seen, hits>>

(* The 24 hours of a link; in the calls that do not overlap time stands.   *)
LinkExpires(l) ==
  /\ links[l] = "open"
  /\ overlap \/ \A d \in Call : ~Open(d)
  /\ Happens
  /\ links' = [links EXCEPT ![l] = "expired"]
  /\ UNCHANGED <<overlap, users, audit, tokens, req, pc, seen, hits, tx>>

-----------------------------------------------------------------------------
(* The end of a request.                                                   *)

Commit(c) ==
  LET u == Target(c)
      w == tx[c]
  IN
  /\ pc[c] = "commit"
  /\ users' =
       IF users[u] = None
       THEN IF req[c].kind = "create"
            THEN [users EXCEPT ![u] = [role |-> w.role, active |-> w.active, pass |-> w.pass]]
            ELSE users
       ELSE [users EXCEPT ![u] = [role |-> Given(w.role, @.role),
                                  active |-> Given(w.active, @.active),
                                  pass |-> Given(w.pass, @.pass)]]
  /\ links' = [l \in Call |-> Given(w.links[l], links[l])]
  /\ audit' = audit \cup w.audit
  /\ LET granted == {a \in {u} : Plain(c, "login") \in w.audit} IN
       access' = access \cup granted /\ refresh' = refresh \cup granted
  /\ Close(c)
  /\ UNCHANGED <<overlap, req, events>>

(* A lost connection or a failing commit rolls everything back.            *)
Abort(c) ==
  /\ Open(c)
  /\ Happens
  /\ Close(c)
  /\ UNCHANGED <<overlap, tables, tokens, req>>

Serve(c) ==
  \/ CheckPassword(c) \/ StampLogin(c) \/ Logout(c)
  \/ WeakPassword(c) \/ CheckEmail(c) \/ InsertUser(c) \/ LoadUser(c) \/ UpdateUser(c)
  \/ FindOpenLinks(c) \/ Invalidate(c) \/ SendLink(c)
  \/ FindLink(c) \/ SetPassword(c) \/ MarkUsed(c)
  \/ Commit(c)

Next ==
  \/ \E c \in Call : Admit(c) \/ Arrive(c) \/ Serve(c) \/ Abort(c)
  \/ \E u \in Account : Refresh(u) \/ AccessExpires(u) \/ RefreshExpires(u)
  \/ \E l \in Call : LinkExpires(l)

Spec == Init /\ [][Next]_vars

(* A request that was accepted goes on until it is answered.               *)
Fairness == \A c \in Call : WF_vars(Serve(c))

FairSpec == Spec /\ Fairness

-----------------------------------------------------------------------------
(* Properties.                                                             *)

TypeOK ==
  /\ overlap \in BOOLEAN
  /\ users \in [Account -> Row \cup {None}]
  /\ links \in [Call -> LinkState \cup {None}]
  /\ audit \in SUBSET Event
  /\ access \in SUBSET Account
  /\ refresh \in SUBSET Account
  /\ req \in [Call -> Ask \cup {None}]
  /\ pc \in [Call -> Stage]
  /\ seen \in [Call -> [Account -> Row \cup {None}]]
  /\ hits \in [Call -> SUBSET Call]
  /\ tx \in [Call -> Writes]
  /\ events \in 0..MaxEvents

(* A password set through a link and the mark that the link is used become *)
(* visible together, whatever calls overlap, abort or close the link in    *)
(* between: a link that has set the password never opens again.            *)
ResetSpendsLink ==
  \A u \in Account :
    users[u] # None /\ users[u].pass # None => links[req[users[u].pass].link] = "used"

(* Whoever loses or gains a role, or is deactivated, finds it in the audit *)
(* log from that very commit on, although the values are compared with an  *)
(* object loaded before other calls committed; "to" is the value the row   *)
(* has now, and "from" the one it had, unless calls overlap.               *)
ChangesAreAudited ==
  [][\A u \in Account : users[u] # None /\ users'[u] # None =>
       /\ users'[u].role # users[u].role =>
            \E e \in audit' \ audit :
              /\ e.name = "role_changed" /\ e.of = u /\ e.to = users'[u].role
              /\ overlap \/ e.from = users[u].role
       /\ users[u].active /\ ~users'[u].active =>
            \E e \in audit' \ audit : e.name = "deactivated" /\ e.of = u]_vars

(* A call changes of an account what it was asked to and nothing else: it  *)
(* works on an object it loaded before others committed, yet it never      *)
(* takes back their role, deactivation or password (user_repository).      *)
AsAsked(c, old, new) ==
  /\ new.role \in {old.role, req[c].role}
  /\ new.active \in {old.active, req[c].active}
  /\ new.pass = old.pass \/ (req[c].kind = "complete" /\ new.pass = c)

OnlyWhatWasAsked ==
  [][\A u \in Account : users[u] # None /\ users'[u] # users[u] =>
       \E c \in Call : /\ pc[c] = "commit" /\ pc'[c] = "done"
                       /\ Target(c) = u /\ users'[u] # None
                       /\ AsAsked(c, users[u], users'[u])]_vars

(* Calls that do not overlap implement the promise of ResetLinks; of       *)
(* overlapping calls the mapping shows nothing.                            *)
WorkingLink(u) == {l \in Call : links[l] = "open" /\ Owner(l) = u}

Promise == INSTANCE ResetLinks WITH
  Link <- Call,
  working <- [u \in Account |->
                IF overlap \/ WorkingLink(u) = {} THEN None
                ELSE CHOOSE l \in WorkingLink(u) : TRUE],
  spent <- [u \in Account |->
              IF overlap \/ users[u] = None \/ users[u].pass = None THEN None
              ELSE req[users[u].pass].link],
  issued <- {l \in Call : ~overlap /\ links[l] # None}

PromiseSpec == Promise!Spec

(* Every accepted call is answered (a call begins once, so in the end none *)
(* is left open): the rows of users and of links that the calls wait for   *)
(* are taken in an order that admits no circle.                            *)
EveryCallEnds == <>[](\A c \in Call : ~Open(c))

-----------------------------------------------------------------------------
(* What the documents say and the code does not keep.                      *)

(* "Tek kullanimlik" (Docs/01, Docs/03, Docs/06): two calls never set a    *)
(* password through one link.  Two overlapping ones do.                    *)
OneUsePerLink ==
  \A e, f \in {g \in audit : g.name = "reset_completed"} :
    req[e.call].link = req[f.call].link => e.call = f.call

(* "Refresh token invalidate edilir" (Docs/03, logout): nobody gets an     *)
(* access token after a logout without a new login.  The code only writes  *)
(* an audit row.                                                           *)
LogoutEndsSession ==
  [][\A c \in Call : pc[c] = "commit" /\ pc'[c] = "done" /\ req[c].kind = "logout"
       /\ Plain(c, "logout") \in audit' => req[c].of \notin refresh']_vars
=============================================================================
