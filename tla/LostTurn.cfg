SPECIFICATION FairSpec
CONSTANTS
  Cases = {c1}
  Turns = {t1}
  Stops = {s1}
  NoTurn = NoTurn
  TurnCase <- AllTurnsOnOneCase
  StopCase <- AllStopsOnOneCase
  MaxSteps = 1
  StepCosts = {1}
  Estimate = 1
  DailyLimit = 2
  MaxRestarts = 1
  MaxFaults = 0
PROPERTIES
  LostTurnIsReaped
CHECK_DEADLOCK FALSE
