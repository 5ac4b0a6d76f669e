----------------------------- MODULE MCMuxRoutes -----------------------------
(* r1 and r2 concern one thread, r3 another. *)
EXTENDS MuxRoutes, TLC

CONSTANTS a1, a2, a3, t1, t2, r1, r2, r3, l1

MCThreadOf == [r \in Request |-> IF r = r3 THEN t2 ELSE t1]

\* A list runs with spending apart from history, while the router runs.
ListsAlone ==
  (\A l \in List : lpc[l] = "idle") \/ (spending /\ shutdown = "running")
=============================================================================
