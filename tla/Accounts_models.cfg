SPECIFICATION Spec
CONSTANTS
  r1 = r1  r2 = r2  None = None
  Ids = {u1, u2}
  Emails = {e1, e2}
  Subjects = {s1}
  Creds = {}
  MaxUsers = 0
  Async = FALSE
  Durable = TRUE
  Slots = {r1}
  MaxEvents = 5
  Calls = {"register", "oauth", "changeEmail", "delete"}
  Faults = {"crash", "sql", "rebuild"}
SYMMETRY AccountSymmetry
INVARIANTS
  TypeOK
  CaughtUpAgrees
  LookupsAreSound
PROPERTIES
  KeepFirst
CHECK_DEADLOCK FALSE
