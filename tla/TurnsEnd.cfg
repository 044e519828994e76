SPECIFICATION TurnsEndSpec
CONSTANTS
  Cases = {c1}
  Turns = {t1, t2}
  Stops = {s1}
  NoTurn = NoTurn
  TurnCase <- AllTurnsOnOneCase
  StopCase <- AllStopsOnOneCase
  MaxSteps = 1
  StepCosts = {1}
  Estimate = 1
  DailyLimit = 2
  MaxRestarts = 1
  MaxFaults = 0
  ChatTurns = {q1}
  Files = {f1}
PROPERTIES
  TurnCloses
  WorkSettles
  CoworkTurnsEnd
CHECK_DEADLOCK FALSE
