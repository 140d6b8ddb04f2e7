---------------------------- MODULE SourceHealth ----------------------------
(***************************************************************************)
(* What the bookkeeping of a source promises when every update of its row  *)
(* counts: a collection that succeeds sets error_count to zero, one that   *)
(* fails adds one and parks the source in ERROR at the threshold, and      *)
(* everything else is an admin's decision, of which ERROR to ACTIVE also   *)
(* clears the count (Docs/01, 5.1).                                        *)
(***************************************************************************)
EXTENDS Naturals

CONSTANT Threshold   \* ERROR_COUNT_THRESHOLD

VARIABLES
  state,             \* sources.status, or DELETED
  count              \* sources.error_count

vars == <<state, count>>

Init == state = "ACTIVE" /\ count = 0

Succeed == count' = 0 /\ UNCHANGED state

Fail ==
  /\ count' = count + 1
  /\ state' = IF count' >= Threshold THEN "ERROR" ELSE state

Patch(new) ==
  /\ state' = new
  /\ count' = IF state = "ERROR" /\ new = "ACTIVE" THEN 0 ELSE count

Delete == state' = "DELETED" /\ UNCHANGED count

Next ==
  /\ state # "DELETED"
  /\ \/ Succeed \/ Fail \/ Delete
     \/ \E new \in {"ACTIVE", "INACTIVE", "ERROR"} : Patch(new)

Spec == Init /\ [][Next]_vars
=============================================================================
