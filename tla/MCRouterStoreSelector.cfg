\* Nothing fails but the child of the account that is added.
SPECIFICATION Spec
CONSTANTS
  p = p  a = a  b = b  t1 = t1  t2 = t2
  Account = {p, a}
  Primary = p
  Thread = {t1}
  Spending = TRUE
  MaxAccounts = 3
  MaxFaults = 0
  AutoMode = AutoMode
  None = None
INVARIANTS SelectorIsFollowed
CHECK_DEADLOCK FALSE
