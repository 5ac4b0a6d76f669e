\* With and without spending apart from history: a turn, a resume, a new thread,
\* and the shutdown or, with it, a list over copies.
SPECIFICATION Spec
CONSTANTS
  a1 = a1  a2 = a2  a3 = a3  t1 = t1  t2 = t2  r1 = r1  r2 = r2  r3 = r3  l1 = l1
  Account = {a1, a2}
  Controller = a1
  Request = {r1, r2, r3}
  Start = {r3}
  Turn = {r1}
  Thread = {t1, t2}
  ThreadOf <- MCThreadOf
  Owners = {a2}
  Copies = {a1}
  List = {l1}
  Partial = TRUE
  Spending = {FALSE, TRUE}
  Stops = TRUE
  Flaky = {}
  MaxCrashes = 0
  None = None
CONSTRAINT ListsAlone
INVARIANTS AnsweredOnce PendingWorkIsAwaited OwnerHasHistory
PROPERTIES HistoryStaysPut
CHECK_DEADLOCK FALSE
