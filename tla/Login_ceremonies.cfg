SPECIFICATION Spec
SYMMETRY LoginSymmetry
CONSTANTS
  None = None
  Users = {u1}
  Admins = {a1}
  Tokens = {k1, k2}
  Slots = {r1, r2}
  Counting = {u1}
  MaxAttempts = 2
  LockFor = 1
  MaxCalls = 4
  MaxCeremonies = 2
  MaxTime = 2
INVARIANTS
  TypeOK
  AnswerLogsInOnce
  OwnChallenge
  LockedIffSpent
  JournalExplains
  DeletedStaysOut
PROPERTIES
  LockEndsOnTime
CHECK_DEADLOCK FALSE
