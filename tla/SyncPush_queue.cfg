SPECIFICATION Spec
SYMMETRY Symmetry
CONSTANTS
  t1 = t1  t2 = t2  s1 = s1  s2 = s2
  Tabs = {t1}
  Cmds = {"c1", "c2"}
  NoCmd = NoCmd
  Rows = {"c1", "c2"}
  RowOf <- OwnRow
  Hooks = {TRUE, FALSE}
  MaxRetries = 2
  Slots = {s1, s2}
  MaxAcks = 1
INVARIANTS
  TypeOK
  NothingLost
  ConfirmedWasExecuted
CHECK_DEADLOCK FALSE
