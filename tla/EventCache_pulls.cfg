SPECIFICATION Spec
CONSTANTS
  t1 = t1  t2 = t2
  Tabs = {t1}
  Hidden = {2}
  PageLimit = 1
  MaxPages = 0
  MaxId = 2
  Rebuilds = 1
  MaxReads = 2
  Faults = {"timeout", "fetch", "txFail", "restart"}
INVARIANTS
  TypeOK
  CacheCoversCursor
  RequestedPullSeesIt
PROPERTIES
  RebuildIsNoticed
CHECK_DEADLOCK FALSE
