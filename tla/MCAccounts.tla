----------------------------- MODULE MCAccounts ------------------------------
(* A small instance of Accounts: an admin, a viewer and an account that    *)
(* does not exist yet, and every kind of call, each for the viewer's part. *)
EXTENDS Accounts, TLC


CONSTANTS a, v, n, c1, c2, c3
A(kind, by, of, role, active, link) == [kind |-> kind, by |-> by, of |-> of, role |-> role, active |-> active, link |-> link]
MCAsk ==
  {A("initiate", a, v, None, None, None),
   A("login", None, v, None, None, None),
   A("logout", v, v, None, None, None),
   A("update", a, v, "admin", None, None),
   A("update", a, v, None, FALSE, None),
   A("update", v, a, "viewer", TRUE, None),
   A("create", a, n, "viewer", None, None)}
  \cup {A("complete", None, None, None, None, l) : l \in Call}
=============================================================================
