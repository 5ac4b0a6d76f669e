-------------------------- MODULE MCSourceRelease ----------------------------
(* Two commits of one version with different dependencies, one of another  *)
(* version, and one whose files must be refused.                           *)
EXTENDS SourceRelease, TLC

CONSTANTS b1, b2

Commit(id, version, lock, allowed) ==
  [id |-> id, version |-> version, lock |-> lock, allowed |-> allowed]
MCCommits == {Commit(1, "1.0", "old", TRUE), Commit(2, "1.0", "new", TRUE),
              Commit(3, "1.1", "new", FALSE), Commit(4, "1.1", "new", TRUE)}
Builders == Permutations(Builder)
=============================================================================
