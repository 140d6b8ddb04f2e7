------------------------------ MODULE Registry -------------------------------
(***************************************************************************)
(* What an admin may expect of the objects he configures: every call that  *)
(* succeeds is applied, as a whole, to the object as it is at that moment. *)
(* Made and Edited say what a body makes of nothing and of a row.          *)
(***************************************************************************)
CONSTANTS Object, Request, Seed, None, Made(_, _), Edited(_, _, _)

VARIABLE rows

Init == \A o \in Object : rows[o] \in {None, Seed[o]}

Create(o, body) == rows[o] = None /\ rows' = [rows EXCEPT ![o] = Made(o, body)]
Apply(o, body) == rows[o] # None /\ rows' = [rows EXCEPT ![o] = Edited(o, @, body)]
Delete(o) == rows[o] # None /\ rows' = [rows EXCEPT ![o] = None]

Next ==
  \E o \in Object :
    Delete(o) \/ \E b \in {c \in Request : c.of = o} : Create(o, b.set) \/ Apply(o, b.set)

Spec == Init /\ [][Next]_rows
=============================================================================
