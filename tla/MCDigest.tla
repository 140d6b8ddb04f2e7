----------------------------- MODULE MCDigest -------------------------------
(* Small instances of DigestGeneration for TLC.                            *)
EXTENDS DigestGeneration, TLC

Symmetry == Permutations(Post) \cup Permutations(Recipient)
=============================================================================
