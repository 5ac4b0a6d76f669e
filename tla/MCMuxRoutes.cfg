\* Failover: two turns of one thread, one child that crashes or hangs.
SPECIFICATION FairSpec
CONSTANTS
  a1 = a1  a2 = a2  a3 = a3  t1 = t1  t2 = t2  r1 = r1  r2 = r2  r3 = r3  l1 = l1
  Account = {a1, a2, a3}
  Controller = a1
  Request = {r1, r2}
  Start = {}
  Turn = {r1, r2}
  Thread = {t1}
  ThreadOf <- MCThreadOf
  Owners = {a1}
  Copies = {}
  List = {}
  Partial = FALSE
  Spending = {FALSE}
  Stops = FALSE
  Flaky = {a2}
  MaxCrashes = 1
  None = None
INVARIANTS EachAccountTriedOnce TurnsFollowHistory MovedTurnGoesToOwner
  AnsweredIsLeftAlone
PROPERTIES RequestsAreAnswered
CHECK_DEADLOCK FALSE
