SPECIFICATION Spec
SYMMETRY TabSymmetry
CONSTANTS
  t1 = t1  t2 = t2
  Tabs = {t1, t2}
  Hidden = {2}
  PageLimit = 1
  MaxPages = 1
  MaxId = 3
  Rebuilds = 0
  MaxReads = 2
  Faults = {"txFail"}
INVARIANTS
  CacheCoversCursor
CHECK_DEADLOCK FALSE
