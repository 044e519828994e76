--------------------------- MODULE MCSystemConfig ---------------------------
(* Instances of SystemConfig for TLC.                                      *)
EXTENDS SystemConfig, TLC

Symmetry == Permutations(Users) \cup Permutations(Calls)
=============================================================================
