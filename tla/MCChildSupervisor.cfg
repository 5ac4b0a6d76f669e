\* A control call and the client's handshake race with exits, restarts and Close.
SPECIFICATION Spec
CONSTANTS
  a2 = a2  p1 = p1  p2 = p2  p3 = p3  o1 = o1  o2 = o2
  Account = {a2}
  Secondary = {a2}
  Proc = {p1, p2, p3}
  Operator = {o1}
  FailureLimit = 1
  ClientSpeaks = TRUE
  MaxOps = 1
  None = None
SYMMETRY Processes
INVARIANTS AtMostOneServing ListedIsWatched ServingIsInitialized
PROPERTIES SupervisionPersists
CHECK_DEADLOCK FALSE
