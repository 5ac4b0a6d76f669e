--------------------------- MODULE MCSpendGateway ----------------------------
(* Two accounts that score alike; snapshots age by one tick at a time.     *)
EXTENDS SpendGateway

C(i, e, c, a) ==
  [id |-> i, enabled |-> e, connected |-> c, known |-> c,
   remaining |-> 50, urgency |-> 1, age |-> a]

\* The primary account always answers; account 2 may be silent or disabled.
Views(i, a) ==
  {C(i, TRUE, TRUE, a)}
  \cup IF i = Controller THEN {} ELSE {C(i, TRUE, FALSE, a), C(i, FALSE, FALSE, a)}

\* Snapshots of nobody, one account, or both, of ages 0 to n.
Snapshots(n) ==
  {<<>>}
  \cup UNION {{<<x>> : x \in Views(1, a) \cup Views(2, a)} : a \in 0..n}
  \cup UNION {{<<x, y>> : x \in Views(1, a), y \in Views(2, a)} : a \in 0..n}

\* Fresh ones and those grown too old.
MCLists == Snapshots(MaxAge + 1)
=============================================================================
