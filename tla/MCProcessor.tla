---------------------------- MODULE MCProcessor -----------------------------
(* Small instances of Processor for TLC.                                   *)
EXTENDS Processor, TLC

CONSTANTS i1, m1, m2, m3

(* Two messages about one article. *)
SameItem == (m1 :> i1) @@ (m2 :> i1)

(* Three messages about it. *)
OneItem == (m1 :> i1) @@ (m2 :> i1) @@ (m3 :> i1)

OneMessage == (m1 :> i1)

Symmetry == Permutations(Worker) \cup Permutations(Schema)
=============================================================================
