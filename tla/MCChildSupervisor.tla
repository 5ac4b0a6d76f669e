-------------------------- MODULE MCChildSupervisor --------------------------
(* One account of the router: accounts share nothing but the client and     *)
(* Close, and both reach each account in the same way.                      *)
EXTENDS ChildSupervisor, TLC

CONSTANTS a2, p1, p2, p3, o1, o2

Processes == Permutations({p1, p2, p3})
=============================================================================
