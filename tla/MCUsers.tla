------------------------------ MODULE MCUsers --------------------------------
(* A small instance of Users: an admin deactivates himself or creates a    *)
(* reader while digests are delivered.                                     *)
EXTENDS Users, TLC
CONSTANTS a, v
AskFor(kind, by, of, role, active) == [kind |-> kind, by |-> by, of |-> of, role |-> role, active |-> active, link |-> None]
MCFlags == {<<FALSE, TRUE>>}
MCAsk ==
  {AskFor("update", a, a, None, FALSE), AskFor("create", a, v, "viewer", None)}
=============================================================================
