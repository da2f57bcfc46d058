SPECIFICATION Spec
CONSTANTS
  r1 = r1  r2 = r2  None = None
  Ids = {u1, u2, u3}
  Emails = {e1, e2}
  Subjects = {s1}
  Creds = {c1}
  MaxUsers = 1
  Async = FALSE
  Durable = FALSE
  Slots = {r1, r2}
  MaxEvents = 5
  Calls = {"register", "oauth", "changeEmail", "delete", "addCred", "removeCred", "verify", "enableTOTP", "disableTOTP", "unlink"}
  Faults = {"crash"}
SYMMETRY AccountSymmetry
INVARIANTS
  CapHolds
  CaughtUpAgrees
CHECK_DEADLOCK FALSE
