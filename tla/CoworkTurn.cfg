SPECIFICATION Spec
CONSTANTS
  Turns = {t1, t2}
  Files = {f1}
  MaxFaults = 2
SYMMETRY TurnSymmetry
INVARIANTS
  TypeOK
  AnsweredOnce
  FinishedTurnIsKept
  AnswerListsItsFiles
  ListedOnce
PROPERTY
  OnlyCrossedTurnsLose
CHECK_DEADLOCK FALSE
