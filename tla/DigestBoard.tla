---------------------------- MODULE DigestBoard -----------------------------
(***************************************************************************)
(* What digest generation promises for one digest type and period: there   *)
(* is at most one digest, a generation that starts empties it, and it      *)
(* turns READY in one step, with the sections of one generation and of no  *)
(* other (Docs/04, 10: an existing digest is overwritten, never            *)
(* duplicated; Docs/01, Digest: a partial digest is never published).      *)
(***************************************************************************)
CONSTANT Generation   \* attempts to generate the digest

VARIABLE board        \* the digests of the period: <<status, generations>>

Init == board = {}

Restart == board' = {<<"GENERATING", {}>>}

Publish(g) == board' = {<<"READY", {g}>>}

Next == Restart \/ \E g \in Generation : Publish(g)

Spec == Init /\ [][Next]_board
=============================================================================
