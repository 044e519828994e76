----------------------------- MODULE MCCoworkTurn -----------------------------
(* Instances of CoworkTurn for TLC.                                        *)
EXTENDS CoworkTurn, TLC

(* No action and no safety property tells one turn from another.           *)
TurnSymmetry == Permutations(Turns)
=============================================================================
