\* Two turns already sent when the owner reports its limit.
SPECIFICATION Spec
CONSTANTS
  a1 = a1  a2 = a2  a3 = a3  t1 = t1  t2 = t2  r1 = r1  r2 = r2  r3 = r3  l1 = l1
  Account = {a1, a2}
  Controller = a1
  Request = {r1, r2}
  Start = {}
  Turn = {r1, r2}
  Thread = {t1}
  ThreadOf <- MCThreadOf
  Owners = {a1}
  Copies = {}
  List = {}
  Partial = FALSE
  Spending = {FALSE}
  Stops = FALSE
  Flaky = {}
  MaxCrashes = 0
  None = None
INVARIANTS HistoryResumedOnce
CHECK_DEADLOCK FALSE
