\* Every scheduled restart is attempted.
SPECIFICATION FairSpec
CONSTANTS
  a2 = a2  p1 = p1  p2 = p2  p3 = p3  o1 = o1  o2 = o2
  Account = {a2}
  Secondary = {a2}
  Proc = {p1, p2, p3}
  Operator = {o1}
  FailureLimit = 2
  ClientSpeaks = FALSE
  MaxOps = 1
  None = None
PROPERTIES RestartIsAttempted
CHECK_DEADLOCK FALSE
