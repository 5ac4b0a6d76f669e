\* Two builders, one directory, two changes.
SPECIFICATION Spec
CONSTANTS
  b1 = b1  b2 = b2
  Builder = {b1, b2}
  Commits <- MCCommits
  MaxChanges = 2
SYMMETRY Builders
INVARIANTS AcceptedIsOneBuild FinishedIsAccepted AcceptedWasAttested
CHECK_DEADLOCK FALSE
