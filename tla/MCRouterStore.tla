---------------------------- MODULE MCRouterStore ----------------------------
(* The primary account and up to two more, one or two threads, a few       *)
(* failures.                                                               *)
EXTENDS RouterStore, TLC

CONSTANTS p, a, b, t1, t2

Others == Permutations({t1, t2}) \cup Permutations({a, b})
=============================================================================
