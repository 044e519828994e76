SPECIFICATION DeskSpec
CONSTANTS
  People = {ann, eve}
  FirstManagers = {ann}
  Subjects = {eve}
  Capabilities = {code}
  Other = other
  Nobody = nobody
  Slots = {s1, s2}
  MaxRows = 2
  MyFiles = mine
  CaseFolder = case
  OtherFolders = {case}
  Names = {report}
  MaxCopies = 2
  Documents = {d1, d2}
  Nothing = nothing
  Ids = {i1, i2}
  Picks <- FirstNumbers
  Calls = {k1, k2}
SYMMETRY DeskSymmetry
INVARIANTS
  AccessTypeOK
  GrantedIsGiven
  
  TypeOK
PROPERTIES
  LastManagerFallsToStaleCall
  OnlyBeatenCallsOverwrite
  DeletingIsReversible
CHECK_DEADLOCK FALSE
