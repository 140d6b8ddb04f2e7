----------------------------- MODULE MCSource -------------------------------
(* Small instances of SourceLifecycle for TLC.                             *)
EXTENDS SourceLifecycle, TLC

Symmetry == Permutations(Collector) \cup Permutations(Admin)
=============================================================================
