SPECIFICATION Spec
CONSTANTS
  Users = {u1, u2}
  Roles = {r1}
  SystemRoles = {}
  Calls = {c1, c2}
  Absent = Absent
  Denied = Denied
  MaxEntries = 1
SYMMETRY Symmetry
INVARIANT
  StaysReachable
CHECK_DEADLOCK FALSE
