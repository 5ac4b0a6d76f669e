\* Three faults, among file failures and crashes.
SPECIFICATION Spec
CONSTANTS
  p = p  a = a  b = b  t1 = t1  t2 = t2
  Account = {p, a, b}
  Primary = p
  Thread = {t1, t2}
  Spending = FALSE
  MaxAccounts = 3
  MaxFaults = 3
  AutoMode = AutoMode
  None = None
INVARIANTS FilesAreValid ModeIsEnabled PreferenceIsUsable MemoryIsOnDisk
  OwnersAreKept
SYMMETRY Others
CHECK_DEADLOCK FALSE
