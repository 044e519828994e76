SPECIFICATION SyncSpec
CONSTANTS
  People = {u1}
  Roles = {r1, r2}
  Groups = {g1}
  Pushes = {p1, p2}
  NoRole = NoRole
  NoGroup = NoGroup
  MaxChanges = 3
  Users = {u1, u2}
  Protected = {owner}
  MaxEdits = 2
INVARIANTS
  TypeOK
  TrustedMirror
  AccountTypeOK
  AgreesAfterSync
PROPERTIES
  WatchedOnlyImproves
  MirrorCatchesUp
  CutsOnlyTheChanged
  EmptySourceCutsNobody
  RunsOnlyRepair
  Converges
CHECK_DEADLOCK FALSE
