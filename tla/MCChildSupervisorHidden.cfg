\* A restart that read its account before it was disabled.
SPECIFICATION Spec
CONSTANTS
  a2 = a2  p1 = p1  p2 = p2  p3 = p3  o1 = o1  o2 = o2
  Account = {a2}
  Secondary = {a2}
  Proc = {p1, p2, p3}
  Operator = {o1}
  FailureLimit = 1
  ClientSpeaks = FALSE
  MaxOps = 1
  None = None
INVARIANTS NoHiddenChild
CHECK_DEADLOCK FALSE
