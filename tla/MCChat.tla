------------------------------- MODULE MCChat --------------------------------
(* A small instance of Chat: three keys of which one does not exist yet,   *)
(* a setting, two templates and two sources.                               *)
EXTENDS Chat

CONSTANTS e1, e2, k1, k2, k3, s, t1, t2, o1, o2, v0, v1, n1, n2, p, q

MCSeed ==
  (k1 :> [active |-> TRUE]) @@ (k2 :> [active |-> TRUE]) @@ (k3 :> None)
  @@ (s :> [value |-> v0])
  @@ (t1 :> [name |-> n1, text |-> v0, active |-> TRUE, version |-> 1]) @@ (t2 :> None)
  @@ (o1 :> [name |-> n1, config |-> p :> v0 @@ q :> v0]) @@ (o2 :> None)

Symmetry == Permutations({e1, e2})

MCRank == k1 :> 1 @@ k2 :> 2 @@ k3 :> 3

A(of, op, set) == [of |-> of, op |-> op, set |-> set]
MCAsk ==
  {A(k1, "delete", <<>>), A(k1, "edit", [active |-> FALSE]), A(k3, "create", [active |-> TRUE]),
   A(s, "edit", [value |-> v1]), A(o2, "create", [name |-> n2, config |-> p :> v0]),
   A(t1, "edit", [name |-> n2, text |-> v0, active |-> TRUE]),
   A(t1, "edit", [name |-> n1, text |-> v1, active |-> TRUE]),
   A(t2, "create", [name |-> n2, text |-> v0, active |-> FALSE]),
   A(o1, "edit", [config |-> p :> v1]), A(o1, "edit", [config |-> q :> v1])}
=============================================================================
