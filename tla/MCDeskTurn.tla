----------------------------- MODULE MCDeskTurn -----------------------------
(* Instances of DeskTurn for TLC: every turn and every stop on one case.   *)
EXTENDS DeskTurn, TLC

OneCase == CHOOSE c \in Cases : TRUE

AllTurnsOnOneCase == [t \in Turns |-> OneCase]

AllStopsOnOneCase == [s \in Stops |-> OneCase]

TurnSymmetry == Permutations(Turns)
=============================================================================
