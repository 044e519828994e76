-------------------------------- MODULE MCDesk --------------------------------
(* The access and the files of the Desk for TLC.  They share no state, so  *)
(* a behaviour is one of either, with the other standing still as it is.   *)
(* The slots of concurrent calls are interchangeable.                      *)
EXTENDS DeskAccess, MCDeskStorage

VARIABLE half

DeskInit ==
  /\ AccessInit /\ Init
  /\ half \in {"access", "storage"}

DeskNext ==
  \/ half = "access" /\ AccessNext /\ UNCHANGED <<half, vars>>
  \/ half = "storage" /\ Next /\ UNCHANGED <<half, accessVars>>

DeskSpec == DeskInit /\ [][DeskNext]_<<half, accessVars, vars>>

DeskSymmetry == StorageSymmetry \cup Permutations(Slots)
=============================================================================
