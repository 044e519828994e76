SPECIFICATION Spec
CONSTANTS
  Users = {u1, u2}
  Roles = {r1, r2}
  SystemRoles = {r1}
  Calls = {c1, c2}
  Absent = Absent
  Denied = Denied
  MaxEntries = 1
SYMMETRY Symmetry
INVARIANTS
  TypeOK
  ReachableUnlessOverwritten
  GateIsFresh
PROPERTIES
  CacheSpec
  LossOnlyByOverwrite
CHECK_DEADLOCK FALSE
