--------------------------- MODULE MCDeskStorage ---------------------------
(* Instances of DeskStorage for TLC.  Documents, identifiers of the bin    *)
(* and slots of calls are interchangeable.  People pick files by the first *)
(* number; the others come into being as targets.                          *)
EXTENDS DeskStorage, TLC

FirstNumbers == Folders \X Names \X {1}

StorageSymmetry == Permutations(Documents) \cup Permutations(Ids) \cup Permutations(Calls)
=============================================================================
