SPECIFICATION Spec
CONSTANTS
  None = None
  Users = {u1}
  Bots = {b1}
  Tenants = {t1}
  RoleSets = {{"admin"}}
  DefaultRoles = {"viewer"}
  Durable = TRUE
  Slots = {r1}
  MaxEvents = 5
  Faults = {"crash", "sql", "store", "rebuild"}
INVARIANTS
  ModelAgrees
  SweptClean
CHECK_DEADLOCK FALSE
