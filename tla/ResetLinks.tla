----------------------------- MODULE ResetLinks ------------------------------
(***************************************************************************)
(* What the password reset of the API promises as long as one call is      *)
(* served at a time: of the links of an account at most the newest works,  *)
(* it works once, and the password is the one set through the link that    *)
(* was used last (Docs/01, Docs/06: "tek kullanimlik").                    *)
(***************************************************************************)
CONSTANTS Account, Link, None

VARIABLES
  working,   \* account -> the link that still opens, or None
  spent,     \* account -> the link its password was set through, or None
  issued     \* links that were ever issued

vars == <<working, spent, issued>>

Init ==
  /\ working = [u \in Account |-> None]
  /\ spent = [u \in Account |-> None]
  /\ issued = {}

Issue(u, l) ==
  /\ l \notin issued
  /\ issued' = issued \cup {l}
  /\ working' = [working EXCEPT ![u] = l]
  /\ UNCHANGED spent

Use(u) ==
  /\ working[u] # None
  /\ spent' = [spent EXCEPT ![u] = working[u]]
  /\ working' = [working EXCEPT ![u] = None]
  /\ UNCHANGED issued

Lapse(u) ==
  /\ working[u] # None
  /\ working' = [working EXCEPT ![u] = None]
  /\ UNCHANGED <<spent, issued>>

Next == \E u \in Account : Use(u) \/ Lapse(u) \/ \E l \in Link : Issue(u, l)

Spec == Init /\ [][Next]_vars
=============================================================================
