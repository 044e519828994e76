SPECIFICATION AccountSpec
CONSTANTS
  Users = {u1}
  Protected = {owner}
  MaxEdits = 0
INVARIANT
  OkMeansEverybodyAgrees
CHECK_DEADLOCK FALSE
