SPECIFICATION Spec
SYMMETRY TabSymmetry
CONSTANTS
  t1 = t1  t2 = t2  t3 = t3
  NoTab = NoTab
  Tabs = {t1, t2}
  Cmds = {"c1"}
  Valid = {"c1"}
  Batched = {}
  MaxRetries = 1
  HasIDB = TRUE
  DeadPortThrows = TRUE
  Faults = {"early", "txFail", "crash", "expiry", "requeue"}
  MaxChains = 2
INVARIANTS
  NoSilentLoss
  NoResurrection
  RetryBudget
  FollowUpScheduled
PROPERTIES
  DeadHasSpentItsBudget
CHECK_DEADLOCK FALSE
