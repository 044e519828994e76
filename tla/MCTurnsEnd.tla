------------------------------ MODULE MCTurnsEnd ------------------------------
(* That turns end, at the Desk and in Cowork.  The two share nothing, so   *)
(* a behaviour is one of either, with the other standing still; what is    *)
(* fair in each is fair here.  Turns of Cowork wait for nothing but their  *)
(* own process, timer and disk, so one of them is enough.                  *)
EXTENDS MCDeskTurn

CONSTANTS
  ChatTurns, Files   \* turns of a Cowork session, and the names their processes write

VARIABLES half, saved, shape, deleted, files, where, copy, writing, attempt,
          before, fresh, child, failed, crossed, unsaved

Cowork == INSTANCE CoworkTurn WITH
  Turns <- ChatTurns, MaxFaults <- 1, pc <- where, faults <- failed

coworkVars == <<saved, shape, deleted, files, where, copy, writing, attempt,
                before, fresh, child, failed, crossed, unsaved>>

both == <<half, vars, coworkVars>>

AtTheDesk == half = "desk" /\ UNCHANGED <<half, coworkVars>>

InCowork == half = "cowork" /\ UNCHANGED <<half, vars>>

TurnsEndSpec ==
  /\ Init /\ Cowork!Init /\ half \in {"desk", "cowork"}
  /\ [][(AtTheDesk /\ Next) \/ (InCowork /\ Cowork!Next)]_both
  /\ WF_both(AtTheDesk /\ Migrate)
  /\ \A t \in Turns : WF_both(AtTheDesk /\ TurnStep(t))
  /\ \A s \in Stops : WF_both(AtTheDesk /\ StopStep(s))
  /\ \A t \in ChatTurns : WF_both(InCowork /\ Cowork!Continues(t))

(* EveryTurnEnds of CoworkTurn: every request to chat-engine.ts is         *)
(* answered.                                                               *)
CoworkTurnsEnd == Cowork!EveryTurnEnds
=============================================================================
