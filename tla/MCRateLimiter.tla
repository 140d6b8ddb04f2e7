---------------------------- MODULE MCRateLimiter ---------------------------
(* Small instances of RateLimiter for TLC.                                 *)
EXTENDS RateLimiter, TLC

CONSTANTS r1, r2, r3, r4, r5, ip1, u1

(* Logins from one address, and a health probe. *)
Categories == [r \in Request |-> IF r = r5 THEN "exempt" ELSE "auth_login"]

OneAddress == [r \in Request |-> ip1]
OneUser == [r \in Request |-> u1]

LimitOne == [c \in Category |-> IF c = "exempt" THEN 0 ELSE 1]
LimitTwo == [c \in Category |-> IF c = "exempt" THEN 0 ELSE 2]

(* Two seconds of two ticks. *)
Windows == [c \in Category |-> 4]

(* The logins differ in nothing but their names. *)
Symmetry == Permutations({r1, r2, r3, r4})
=============================================================================
