SPECIFICATION Spec
CONSTANTS
  Cases = {c1}
  Turns = {t1, t2}
  Stops = {s1}
  NoTurn = NoTurn
  TurnCase <- AllTurnsOnOneCase
  StopCase <- AllStopsOnOneCase
  MaxSteps = 2
  StepCosts = {1}
  Estimate = 1
  DailyLimit = 2
  MaxRestarts = 1
  MaxFaults = 1
SYMMETRY TurnSymmetry
INVARIANTS
  TypeOK
  RegistryHoldsLiveTurn
  NoOrphanWorking
  ClosedTurnIsBilled
  ColumnNeverAhead
  HistoryIsClosed
PROPERTIES
  StopReachesWhoBeganAlone
  CaseFileSpec
CHECK_DEADLOCK FALSE
