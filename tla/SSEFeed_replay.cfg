SPECIFICATION Spec
CONSTANTS
  Hidden = {2, 5}
  StoreCap = 3
  HandlerCap = 2
  Ring = 2
  Buffer = 2
  Publishers = 2
  MaxId = 6
  MaxDials = 2
  Faults = {"drop", "read"}
INVARIANTS
  TypeOK
  WrittenOnce
  NothingLostOnConnection
PROPERTY
  ReplayIsNewest
CHECK_DEADLOCK FALSE
