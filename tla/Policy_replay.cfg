SPECIFICATION Spec
CONSTANTS
  None = None
  Users = {u1}
  Bots = {b1}
  Tenants = {t1}
  RoleSets = {{"viewer"}, {"admin"}}
  DefaultRoles = {"viewer"}
  MaxEvents = 5
INVARIANTS
  TypeOK
  PolicyConverges
  PolicyAgrees
  HierarchySeeded
CHECK_DEADLOCK FALSE
