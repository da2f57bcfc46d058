SPECIFICATION Spec
CONSTANTS
  t1 = t1  t2 = t2  t3 = t3
  NoTab = NoTab
  Tabs = {t1}
  Cmds = {"c1", "c2"}
  Valid = {"c1", "c2"}
  Batched = {"c2"}
  MaxRetries = 2
  HasIDB = TRUE
  DeadPortThrows = FALSE
  Faults = {"crash"}
  MaxChains = 2
INVARIANTS
  TypeOK
  OneLoad
PROPERTIES
  ImplementsQueue
  EventuallySettled
CHECK_DEADLOCK FALSE
