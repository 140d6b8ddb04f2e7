------------------------------- MODULE Users ---------------------------------
(***************************************************************************)
(* The accounts and the delivery of digests over one users table: who is   *)
(* active when a task lists its recipients, who may register a token or    *)
(* change preferences, and the preference row that create_user inserts     *)
(* together with the user.  The properties are those of Delivery.          *)
(***************************************************************************)
EXTENDS Delivery

CONSTANTS Existing, Admins, Call, Ask, MaxEvents

VARIABLES overlap, users, links, audit, access, refresh, req, pc, seen, hits, tx, events

accounts == <<overlap, users, links, audit, access, refresh, req, pc, seen, hits, tx, events>>

A == INSTANCE Accounts WITH Account <- Reader

ASSUME UserAssumption ==
  /\ Ask \subseteq A!AskRecord
  /\ None \notin [role : A!Role \cup {None}, active : BOOLEAN \cup {None}, pass : Call \cup {None}]

usersVars == <<vars, accounts>>

Active(u) == users[u] # None /\ users[u].active

(* The requests an access token admits: a user's own token, and an admin's *)
(* choice of flags for any user there is.                                  *)
Wishes ==
  {w \in Wish :
     IF w.token # None THEN w.user \in access /\ Active(w.user)
     ELSE /\ users[w.user] # None
          /\ \E a \in access : Active(a) /\ users[a].role = "admin"}

UsersInit ==
  /\ A!Init /\ overlap
  /\ Init
  /\ \A u \in Reader : users[u] = None => prefs[u] = None

(* The default preference row is part of create_user's transaction.        *)
AccountStep ==
  /\ A!Next
  /\ prefs' = [u \in Reader |-> IF users[u] = None /\ users'[u] # None
                                THEN Default ELSE prefs[u]]
  /\ UNCHANGED <<live, log, delivered, excused, task, requests, mishaps>>

DeliveryStep ==
  /\ Next({u \in Reader : Active(u)}, Wishes)
  /\ UNCHANGED accounts

UsersNext == AccountStep \/ DeliveryStep

UsersSpec == UsersInit /\ [][UsersNext]_usersVars
=============================================================================
