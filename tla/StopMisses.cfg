SPECIFICATION Spec
CONSTANTS
  Cases = {c1}
  Turns = {t1, t2}
  Stops = {s1}
  NoTurn = NoTurn
  TurnCase <- AllTurnsOnOneCase
  StopCase <- AllStopsOnOneCase
  MaxSteps = 1
  StepCosts = {1}
  Estimate = 1
  DailyLimit = 2
  MaxRestarts = 0
  MaxFaults = 0
PROPERTIES
  StopReallyStops
CHECK_DEADLOCK FALSE
