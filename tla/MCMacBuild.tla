----------------------------- MODULE MCMacBuild ------------------------------
(* The reviewed release, the same with one place changed, and two runs.    *)
EXTENDS MacBuild, TLC

CONSTANTS r1, r2

Changes == DriftsOf(MacPasses) \cup DriftsOf(HelperPasses("team"))
MCSources == {Reviewed, Source(NoDrift, FALSE)} \cup {Source(d, TRUE) : d \in Changes}

\* Two runs meet over the reviewed release, which needs no --allow-untested-source;
\* the others are patched by one run.
OneReleaseShared ==
  IF source = Reviewed THEN \A r \in Run : ~run[r].allow
  ELSE \E r \in Run : Phase(r) = "idle"

Runs == Permutations(Run)
=============================================================================
