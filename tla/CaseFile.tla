------------------------------ MODULE CaseFile ------------------------------
(***************************************************************************)
(* What a Desk case promises the person who owns it, said without turns,   *)
(* requests, controllers or restarts: a status, and the reason the status  *)
(* carries.                                                                *)
(*                                                                         *)
(* A case begins `new`.  Any work starts by making it `working`.  It       *)
(* leaves `working` exactly once per start: to `done`, to `failed`, or to  *)
(* `stopped`, and an ending is never rewritten into another ending.        *)
(*                                                                         *)
(* DeskTurn implements this specification (DeskTurn!CaseFileSpec).         *)
(***************************************************************************)

CONSTANT Cases

VARIABLES status, reason

file == <<status, reason>>

Statuses == {"new", "working", "done", "stopped", "failed"}

Reasons == {"none", "stopped-by-you", "server-restart", "failure"}

(* How a case may leave `working`, with the reason written beside it.      *)
Endings == {<<"done", "none">>,
            <<"failed", "failure">>,
            <<"stopped", "stopped-by-you">>,
            <<"stopped", "server-restart">>}

Init == /\ status = [c \in Cases |-> "new"]
        /\ reason = [c \in Cases |-> "none"]

(* Work on c starts, whatever happened to c before.                        *)
Start(c) == status'[c] = "working" /\ reason'[c] = "none"

(* The work on c ends.                                                     *)
Finish(c) == status[c] = "working" /\ <<status'[c], reason'[c]>> \in Endings

Keep(c) == status'[c] = status[c] /\ reason'[c] = reason[c]

(* One step may end several cases at once: the sweep at start-up does.     *)
Next == /\ status' \in [Cases -> Statuses]
        /\ reason' \in [Cases -> Reasons]
        /\ \A c \in Cases : Start(c) \/ Finish(c) \/ Keep(c)

Spec == Init /\ [][Next]_file
=============================================================================
