--------------------------- MODULE DeskTurnProofs ---------------------------
(* Proofs about DeskTurn, for every set of cases, turns and stops, every   *)
(* step ceiling, every price and every number of restarts and faults.      *)
EXTENDS DeskTurn, TLAPS

(* A turn that may still ask the model has a step left.  TypeOK alone is   *)
(* not inductive: the bound on steps rests on this.                        *)
StepsLeft ==
  \A t \in Turns : pc[t] \in {"idle"} \cup Asked \cup Prelude \cup Generating
                     => steps[t] < MaxSteps

TypeInv == TypeOK /\ StepsLeft

LEMMA TypeInit == Init => TypeInv
<1>1. SUFFICES ASSUME Init PROVE TypeInv
  OBVIOUS
<1>2. TypeOK
  BY <1>1, BoundsAssumption
  DEF Init, TypeOK, CF!Statuses, CF!Reasons, Lifecycles, TurnPcs, StopPcs, EndingsOfTurn
<1>3. StepsLeft
  BY <1>1, BoundsAssumption DEF Init, StepsLeft
<1> QED
  BY <1>2, <1>3 DEF TypeInv

USE DEF Asked, Prelude, Generating, Closing, Catching, Begun, Busy, Over

(* A finished step leaves amounts natural, whatever the proxy reported.    *)
LEMMA FinishStepTypes ==
  ASSUME TypeOK, NEW t \in Turns, FinishStep(t)
  PROVE  spentInSteps' \in [Turns -> Nat] /\ metered' \subseteq Turns
<1>1. CASE UNCHANGED <<spentInSteps, metered>>
  BY <1>1 DEF TypeOK
<1>2. CASE \E usd \in StepCosts :
             /\ spentInSteps' = [spentInSteps EXCEPT ![t] = @ + usd]
             /\ metered' = metered \cup {t}
  BY <1>2, MoneyAssumption DEF TypeOK
<1> QED
  BY <1>1, <1>2 DEF FinishStep

LEMMA TypeStep == TypeInv /\ [Next]_vars => TypeInv'
<1> SUFFICES ASSUME TypeInv, [Next]_vars PROVE TypeInv'
  OBVIOUS
<1> USE RequestsAssumption, MoneyAssumption, BoundsAssumption
    DEF TypeInv, TypeOK, StepsLeft, CF!Statuses, CF!Reasons, Lifecycles, TurnPcs,
        StopPcs, EndingsOfTurn, vars, database, work, money, control, process, trouble,
        Goto, LogLifecycle, SetStatus, Close, MayClose
<1>1. CASE Migrate
  BY <1>1 DEF Migrate, Reap
<1>2. CASE MigrateFails
  BY <1>2 DEF MigrateFails
<1>3. CASE OtherProcessMigrates
  BY <1>3 DEF OtherProcessMigrates, Reap
<1>4. CASE Restart
  BY <1>4 DEF Restart
<1>5. ASSUME NEW t \in Turns, TurnRequest(t) PROVE TypeInv'
  BY <1>5 DEF TurnRequest, Admit, RefuseOverLimit
<1>6. ASSUME NEW t \in Turns, LogPrompt(t) \/ MarkWorking(t) \/ LogStart(t) \/ CallTool(t)
      PROVE TypeInv'
  BY <1>6 DEF LogPrompt, MarkWorking, LogStart, CallTool
<1>7. ASSUME NEW t \in Turns, Begin(t) PROVE TypeInv'
  BY <1>7 DEF Begin, NoteAlone
<1>8. ASSUME NEW t \in Turns, FinishTool(t) PROVE TypeInv'
  <2> USE <1>8 DEF FinishTool
  <2>1. steps' = [steps EXCEPT ![t] = @ + 1] /\ steps[t] < MaxSteps
    BY DEF FinishStep
  <2>2. spentInSteps' \in [Turns -> Nat] /\ metered' \subseteq Turns
    BY FinishStepTypes
  <2>3. ending' \in [Turns -> EndingsOfTurn] /\ pc' \in [Turns -> TurnPcs]
    OBVIOUS
  <2>4. steps' \in [Turns -> 0 .. MaxSteps]
    BY <2>1
  <2>5. TypeOK'
    BY <2>2, <2>3, <2>4
  <2>6. StepsLeft'
    BY <2>1, <2>4 DEF LastStep
  <2> QED
    BY <2>5, <2>6
<1>9. ASSUME NEW t \in Turns, Answer(t) PROVE TypeInv'
  <2> USE <1>9 DEF Answer
  <2>1. steps' = [steps EXCEPT ![t] = @ + 1] /\ steps[t] < MaxSteps
    BY DEF FinishStep
  <2>2. spentInSteps' \in [Turns -> Nat] /\ metered' \subseteq Turns
    BY FinishStepTypes
  <2>3. ending' \in [Turns -> EndingsOfTurn] /\ pc' \in [Turns -> TurnPcs]
    OBVIOUS
  <2>4. steps' \in [Turns -> 0 .. MaxSteps]
    BY <2>1
  <2>5. TypeOK'
    BY <2>2, <2>3, <2>4
  <2>6. StepsLeft'
    BY <2>1
  <2> QED
    BY <2>5, <2>6
<1>10. ASSUME NEW t \in Turns, AbortRequest(t) \/ ModelFails(t) PROVE TypeInv'
  BY <1>10 DEF AbortRequest, ModelFails
<1>11. ASSUME NEW t \in Turns, RecordCost(t) \/ LogEnd(t) PROVE TypeInv'
  BY <1>11 DEF RecordCost, LogEnd, TurnCost
<1>12. ASSUME NEW t \in Turns, CloseDone(t) PROVE TypeInv'
  BY <1>12 DEF CloseDone, TurnCost
<1>13. ASSUME NEW t \in Turns, BillPartly(t) \/ AddPartly(t) PROVE TypeInv'
  BY <1>13 DEF BillPartly, AddPartly
<1>14. ASSUME NEW t \in Turns, ReturnAborted(t) \/ LogFailed(t) \/ CloseFailed(t)
       PROVE TypeInv'
  BY <1>14 DEF ReturnAborted, LogFailed, CloseFailed
<1>15. ASSUME NEW t \in Turns, EndTurn(t) PROVE TypeInv'
  BY <1>15 DEF EndTurn, Deregister
<1>16. ASSUME NEW t \in Turns, TurnFault(t) PROVE TypeInv'
  BY <1>16 DEF TurnFault, RequestFails, ClosingFails, CatchingFails, Fault
<1>17. ASSUME NEW s \in Stops, StopAbort(s) PROVE TypeInv'
  BY <1>17 DEF StopAbort, Deregister
<1>18. ASSUME NEW s \in Stops, StopStep(s) PROVE TypeInv'
  BY <1>18 DEF StopStep, StopMark, StopLog
<1>19. ASSUME NEW s \in Stops, StopFails(s) PROVE TypeInv'
  BY <1>19 DEF StopFails, Fault
<1>20. CASE UNCHANGED vars
  BY <1>20
<1> QED
  BY <1>1, <1>2, <1>3, <1>4, <1>5, <1>6, <1>7, <1>8, <1>9, <1>10, <1>11, <1>12, <1>13,
     <1>14, <1>15, <1>16, <1>17, <1>18, <1>19, <1>20
  DEF Next, TurnStep

(* Every variable keeps its type: statuses, positions and endings come from*)
(* their lists, no turn passes its step ceiling, no amount is negative.    *)
THEOREM TypeCorrect == Spec => []TypeOK
<1>1. Init => TypeInv
  BY TypeInit
<1>2. TypeInv /\ [Next]_vars => TypeInv'
  BY TypeStep
<1>3. TypeInv => TypeOK
  BY DEF TypeInv
<1> QED
  BY <1>1, <1>2, <1>3, PTL DEF Spec

-----------------------------------------------------------------------------
(* The registry.  "Stop" aborts what it finds there, so what it finds must *)
(* be alive; and nothing is aborted before it has begun.                   *)

AbortedHasBegun ==
  \A t \in aborted : pc[t] \notin {"idle", "refused", "errored"} \cup Asked \cup Prelude

RegistryInv == RegistryHoldsLiveTurn /\ AbortedHasBegun

LEMMA RegistryInit == Init => RegistryInv
  BY DEF Init, RegistryInv, RegistryHoldsLiveTurn, AbortedHasBegun

LEMMA RegistryStep == TypeInv /\ RegistryInv /\ [Next]_vars => RegistryInv'
<1> SUFFICES ASSUME TypeInv, RegistryInv, [Next]_vars PROVE RegistryInv'
  OBVIOUS
<1> USE RequestsAssumption
    DEF TypeInv, TypeOK, RegistryInv, RegistryHoldsLiveTurn, AbortedHasBegun,
        vars, database, work, money, control, process, trouble, Goto
<1>1. CASE Migrate \/ MigrateFails \/ OtherProcessMigrates
  BY <1>1 DEF Migrate, MigrateFails, OtherProcessMigrates
<1>2. CASE Restart
  BY <1>2 DEF Restart
<1>3. ASSUME NEW t \in Turns, TurnRequest(t) PROVE RegistryInv'
  BY <1>3 DEF TurnRequest, Admit, RefuseOverLimit
<1>4. ASSUME NEW t \in Turns, LogPrompt(t) \/ MarkWorking(t) \/ LogStart(t) \/ CallTool(t)
      PROVE RegistryInv'
  BY <1>4 DEF LogPrompt, MarkWorking, LogStart, CallTool
<1>5. ASSUME NEW t \in Turns, Begin(t) PROVE RegistryInv'
  BY <1>5 DEF Begin
<1>6. ASSUME NEW t \in Turns, FinishTool(t) PROVE RegistryInv'
  <2>1. \E label \in {"answered", "caught", "asking"} : pc' = [pc EXCEPT ![t] = label]
    BY <1>6 DEF FinishTool
  <2>2. pc[t] \in Begun /\ UNCHANGED control
    BY <1>6 DEF FinishTool
  <2> QED
    BY <2>1, <2>2
<1>7. ASSUME NEW t \in Turns, Answer(t) \/ AbortRequest(t) \/ ModelFails(t)
      PROVE RegistryInv'
  BY <1>7 DEF Answer, AbortRequest, ModelFails
<1>8. ASSUME NEW t \in Turns, RecordCost(t) \/ LogEnd(t) \/ CloseDone(t) PROVE RegistryInv'
  BY <1>8 DEF RecordCost, LogEnd, CloseDone
<1>9. ASSUME NEW t \in Turns,
             BillPartly(t) \/ AddPartly(t) \/ ReturnAborted(t) \/ LogFailed(t) \/ CloseFailed(t)
      PROVE RegistryInv'
  BY <1>9 DEF BillPartly, AddPartly, ReturnAborted, LogFailed, CloseFailed, Accounted
<1>10. ASSUME NEW t \in Turns, EndTurn(t) PROVE RegistryInv'
  BY <1>10 DEF EndTurn, Deregister
<1>11. ASSUME NEW t \in Turns, TurnFault(t) PROVE RegistryInv'
  BY <1>11 DEF TurnFault, RequestFails, ClosingFails, CatchingFails, Fault
<1>12. ASSUME NEW s \in Stops, StopAbort(s) PROVE RegistryInv'
  BY <1>12 DEF StopAbort, Deregister
<1>13. ASSUME NEW s \in Stops, StopStep(s) \/ StopFails(s) PROVE RegistryInv'
  BY <1>13 DEF StopStep, StopMark, StopLog, StopFails, Fault
<1>14. CASE UNCHANGED vars
  BY <1>14
<1> QED
  BY <1>1, <1>2, <1>3, <1>4, <1>5, <1>6, <1>7, <1>8, <1>9, <1>10, <1>11, <1>12, <1>13, <1>14
  DEF Next, TurnStep

(* What "stop" finds in the registry is a live turn of that very case.     *)
THEOREM RegistryIsLive == Spec => []RegistryHoldsLiveTurn
<1>1. Init => TypeInv /\ RegistryInv
  BY TypeInit, RegistryInit
<1>2. TypeInv /\ RegistryInv /\ [Next]_vars => (TypeInv /\ RegistryInv)'
  BY TypeStep, RegistryStep
<1>3. RegistryInv => RegistryHoldsLiveTurn
  BY DEF RegistryInv
<1> QED
  BY <1>1, <1>2, <1>3, PTL DEF Spec

-----------------------------------------------------------------------------
(* Who stays the only one at work.                                         *)

(* A turn that began while no other turn of its case was at work stays the *)
(* only one at work, and the one "stop" finds, until its signal is given.  *)
(* beginTurn and endTurn are thus right for every turn but a follow-up sent*)
(* while a replaced or stopped turn is still on its way out.               *)
AloneIsFound ==
  \A t \in alone : pc[t] \in Begun /\ t \notin aborted =>
    /\ turns[TurnCase[t]] = t
    /\ \A q \in TurnsOf(TurnCase[t]) \ {t} : pc[q] \notin Begun

(* Only a turn that has begun is noted as having begun alone.              *)
AloneHasBegun == \A t \in alone : pc[t] \in Begun \cup {"closed", "lost"}

AloneInv == AloneIsFound /\ AloneHasBegun

LEMMA AloneInit == Init => AloneInv
  BY DEF Init, AloneInv, AloneIsFound, AloneHasBegun

(* A step that registers and notes nobody and brings nobody to work.       *)
LEMMA AloneFrame ==
  ASSUME TypeInv, AloneInv, UNCHANGED <<turns, alone>>, aborted \subseteq aborted',
         \A q \in Turns : pc'[q] \in Begun => pc[q] \in Begun,
         \A q \in Turns : pc[q] \in Begun \cup {"closed", "lost"}
                            => pc'[q] \in Begun \cup {"closed", "lost"}
  PROVE  AloneInv'
  BY DEF AloneInv, AloneIsFound, AloneHasBegun, TurnsOf, TypeInv, TypeOK

(* When a turn begins, whoever was alone at work in its case is aborted; it*)
(* is alone itself only when nobody was at work.                           *)
LEMMA AloneBegin ==
  ASSUME TypeInv, AloneInv, NEW t \in Turns, Begin(t)
  PROVE  AloneInv'
<1> USE RequestsAssumption
    DEF TypeInv, TypeOK, AloneInv, AloneIsFound, AloneHasBegun, TurnsOf
<1>1. /\ pc[t] = "started" /\ pc' = [pc EXCEPT ![t] = "asking"]
      /\ turns' = [turns EXCEPT ![TurnCase[t]] = t]
      /\ aborted' = aborted \cup ({turns[TurnCase[t]]} \ {NoTurn})
      /\ alone' \subseteq alone \cup {t}
      /\ t \in alone' => t \in alone
                         \/ \A q \in TurnsOf(TurnCase[t]) \ {t} : pc[q] \notin Begun
  BY DEF Begin, Goto, NoteAlone
<1>2. AloneHasBegun'
  BY <1>1
<1>3. ASSUME NEW u \in alone', pc'[u] \in Begun, u \notin aborted'
      PROVE  /\ turns'[TurnCase[u]] = u
             /\ \A q \in TurnsOf(TurnCase[u]) \ {u} : pc'[q] \notin Begun
  <2>1. CASE u = t
    <3>1. t \notin alone
      BY <1>1
    <3> QED
      BY <1>1, <1>3, <2>1, <3>1
  <2>2. CASE u # t
    <3>1. u \in alone /\ u \in Turns /\ pc[u] \in Begun /\ u \notin aborted
      BY <1>1, <1>3, <2>2
    <3>2. /\ turns[TurnCase[u]] = u
          /\ \A q \in TurnsOf(TurnCase[u]) \ {u} : pc[q] \notin Begun
      BY <3>1
    <3>3. TurnCase[u] # TurnCase[t]
      BY <1>1, <1>3, <3>1, <3>2
    <3> QED
      BY <1>1, <3>1, <3>2, <3>3
  <2> QED
    BY <2>1, <2>2
<1> QED
  BY <1>2, <1>3

(* The end of a turn never takes the place of one that began alone.        *)
LEMMA AloneEnd ==
  ASSUME TypeInv, AloneInv, NEW t \in Turns, EndTurn(t)
  PROVE  AloneInv'
<1> USE RequestsAssumption
    DEF TypeInv, TypeOK, AloneInv, AloneIsFound, AloneHasBegun, TurnsOf
<1>1. /\ pc[t] \in Begun /\ pc' = [pc EXCEPT ![t] = "closed"]
      /\ turns' = [turns EXCEPT ![TurnCase[t]] = NoTurn]
      /\ UNCHANGED <<aborted, alone>>
  BY DEF EndTurn, Deregister, Goto
<1>2. AloneHasBegun'
  BY <1>1
<1>3. ASSUME NEW u \in alone, pc'[u] \in Begun, u \notin aborted
      PROVE  /\ turns'[TurnCase[u]] = u
             /\ \A q \in TurnsOf(TurnCase[u]) \ {u} : pc'[q] \notin Begun
  <2>1. u \in Turns /\ u # t /\ pc[u] \in Begun
    BY <1>1, <1>3
  <2>2. /\ turns[TurnCase[u]] = u
        /\ \A q \in TurnsOf(TurnCase[u]) \ {u} : pc[q] \notin Begun
    BY <1>3, <2>1
  <2>3. TurnCase[t] # TurnCase[u]
    BY <1>1, <2>1, <2>2
  <2> QED
    BY <1>1, <2>1, <2>2, <2>3
<1> QED
  BY <1>1, <1>2, <1>3

(* A stop gives its signal to the turn whose place it clears.              *)
LEMMA AloneStop ==
  ASSUME TypeInv, AloneInv, NEW s \in Stops, StopAbort(s)
  PROVE  AloneInv'
<1> USE RequestsAssumption
    DEF TypeInv, TypeOK, AloneInv, AloneIsFound, AloneHasBegun, TurnsOf
<1>1. /\ UNCHANGED <<pc, alone>>
      /\ turns' = [turns EXCEPT ![StopCase[s]] = NoTurn]
      /\ aborted' = aborted \cup ({turns[StopCase[s]]} \ {NoTurn})
  BY DEF StopAbort, Deregister
<1>2. ASSUME NEW u \in alone, pc[u] \in Begun, u \notin aborted'
      PROVE  turns'[TurnCase[u]] = u
  <2>1. turns[TurnCase[u]] = u /\ u \in Turns
    BY <1>1, <1>2
  <2>2. TurnCase[u] # StopCase[s]
    BY <1>1, <1>2, <2>1
  <2> QED
    BY <1>1, <2>1, <2>2
<1> QED
  BY <1>1, <1>2

LEMMA AloneStep == TypeInv /\ AloneInv /\ [Next]_vars => AloneInv'
<1> SUFFICES ASSUME TypeInv, AloneInv, [Next]_vars PROVE AloneInv'
  OBVIOUS
<1> USE DEF TypeInv, TypeOK, vars, database, work, money, control, process, trouble, Goto
<1>1. CASE Migrate \/ MigrateFails \/ OtherProcessMigrates
  BY <1>1, AloneFrame DEF Migrate, MigrateFails, OtherProcessMigrates
<1>2. CASE Restart
  <2>1. \A t \in Turns : pc'[t] \notin Begun
    BY <1>2 DEF Restart
  <2>2. UNCHANGED alone /\ \A t \in alone : pc'[t] \in {"closed", "lost"}
    BY <1>2 DEF Restart, AloneInv, AloneHasBegun
  <2> QED
    BY <2>1, <2>2 DEF AloneInv, AloneIsFound, AloneHasBegun
<1>3. ASSUME NEW t \in Turns, TurnRequest(t) PROVE AloneInv'
  BY <1>3, AloneFrame DEF TurnRequest, Admit, RefuseOverLimit
<1>4. ASSUME NEW t \in Turns, LogPrompt(t) \/ MarkWorking(t) \/ LogStart(t) \/ CallTool(t)
      PROVE AloneInv'
  BY <1>4, AloneFrame DEF LogPrompt, MarkWorking, LogStart, CallTool
<1>5. ASSUME NEW t \in Turns, Begin(t) PROVE AloneInv'
  BY <1>5, AloneBegin
<1>6. ASSUME NEW t \in Turns, FinishTool(t) PROVE AloneInv'
  <2>1. \E label \in {"answered", "caught", "asking"} : pc' = [pc EXCEPT ![t] = label]
    BY <1>6 DEF FinishTool
  <2>2. pc[t] \in Begun /\ UNCHANGED control
    BY <1>6 DEF FinishTool
  <2> QED
    BY <2>1, <2>2, AloneFrame
<1>7. ASSUME NEW t \in Turns, Answer(t) \/ AbortRequest(t) \/ ModelFails(t)
      PROVE AloneInv'
  BY <1>7, AloneFrame DEF Answer, AbortRequest, ModelFails
<1>8. ASSUME NEW t \in Turns, RecordCost(t) \/ LogEnd(t) \/ CloseDone(t) PROVE AloneInv'
  BY <1>8, AloneFrame DEF RecordCost, LogEnd, CloseDone
<1>9. ASSUME NEW t \in Turns,
             BillPartly(t) \/ AddPartly(t) \/ ReturnAborted(t) \/ LogFailed(t) \/ CloseFailed(t)
      PROVE AloneInv'
  BY <1>9, AloneFrame
  DEF BillPartly, AddPartly, ReturnAborted, LogFailed, CloseFailed, Accounted
<1>10. ASSUME NEW t \in Turns, EndTurn(t) PROVE AloneInv'
  BY <1>10, AloneEnd
<1>11. ASSUME NEW t \in Turns, TurnFault(t) PROVE AloneInv'
  BY <1>11, AloneFrame DEF TurnFault, RequestFails, ClosingFails, CatchingFails, Fault
<1>12. ASSUME NEW s \in Stops, StopAbort(s) PROVE AloneInv'
  BY <1>12, AloneStop
<1>13. ASSUME NEW s \in Stops, StopStep(s) \/ StopFails(s) PROVE AloneInv'
  BY <1>13, AloneFrame DEF StopStep, StopMark, StopLog, StopFails, Fault
<1>14. CASE UNCHANGED vars
  BY <1>14, AloneFrame
<1> QED
  BY <1>1, <1>2, <1>3, <1>4, <1>5, <1>6, <1>7, <1>8, <1>9, <1>10, <1>11, <1>12, <1>13, <1>14
  DEF Next, TurnStep

(* A turn that began with its case to itself keeps it to itself, and the   *)
(* registry leads to it, until somebody gives its signal: endTurn, which   *)
(* deletes whatever the case has, never deletes the wrong controller here. *)
THEOREM AloneStaysAlone == Spec => []AloneIsFound
<1>1. Init => TypeInv /\ AloneInv
  BY TypeInit, AloneInit
<1>2. TypeInv /\ AloneInv /\ [Next]_vars => (TypeInv /\ AloneInv)'
  BY TypeStep, AloneStep
<1>3. AloneInv => AloneIsFound
  BY DEF AloneInv
<1> QED
  BY <1>1, <1>2, <1>3, PTL DEF Spec

(* Only stopTurn starts a stop.                                            *)
LEMMA StopStarts ==
  ASSUME TypeInv, [Next]_vars, NEW s \in Stops, stopPc[s] = "idle", stopPc'[s] = "aborting"
  PROVE  StopAbort(s)
<1> USE DEF TypeInv, TypeOK, vars
<1>1. stopPc' # stopPc
  OBVIOUS
<1>2. ~(Migrate \/ MigrateFails \/ OtherProcessMigrates)
  BY <1>1 DEF Migrate, MigrateFails, OtherProcessMigrates
<1>3. ~Restart
  BY DEF Restart
<1>4. \A t \in Turns : ~(TurnRequest(t) \/ TurnFault(t))
  BY <1>1 DEF TurnRequest, Admit, RefuseOverLimit, TurnFault, RequestFails, ClosingFails,
              CatchingFails
<1>5. \A t \in Turns : ~TurnStep(t)
  BY <1>1 DEF TurnStep, LogPrompt, MarkWorking, LogStart, Begin, CallTool, FinishTool, Answer,
              AbortRequest, ModelFails, RecordCost, LogEnd, CloseDone, BillPartly, AddPartly,
              ReturnAborted, LogFailed, CloseFailed, EndTurn
<1>6. \A r \in Stops : StopAbort(r) \/ StopStep(r) \/ StopFails(r) => r = s
  BY DEF StopAbort, StopStep, StopMark, StopLog, StopFails
<1>7. ~(StopStep(s) \/ StopFails(s))
  BY DEF StopStep, StopMark, StopLog, StopFails
<1> QED
  BY <1>1, <1>2, <1>3, <1>4, <1>5, <1>6, <1>7 DEF Next

(* Stop really stops every turn that began alone.                          *)
THEOREM StopStopsWhoBeganAlone == Spec => StopReachesWhoBeganAlone
<1>1. Init => TypeInv /\ AloneInv
  BY TypeInit, AloneInit
<1>2. TypeInv /\ AloneInv /\ [Next]_vars => (TypeInv /\ AloneInv)'
  BY TypeStep, AloneStep
<1>3. TypeInv /\ AloneInv /\ [Next]_vars =>
        [\A s \in Stops : stopPc[s] = "idle" /\ stopPc'[s] = "aborting" =>
           \A t \in TurnsOf(StopCase[s]) \cap alone :
             pc[t] \in Generating => t \in aborted']_vars
  <2> SUFFICES ASSUME TypeInv, AloneInv, [Next]_vars, NEW s \in Stops,
                      stopPc[s] = "idle", stopPc'[s] = "aborting",
                      NEW t \in TurnsOf(StopCase[s]) \cap alone, pc[t] \in Generating
               PROVE  t \in aborted'
    OBVIOUS
  <2>1. aborted' = aborted \cup ({turns[StopCase[s]]} \ {NoTurn})
    BY StopStarts DEF StopAbort
  <2>2. t \in aborted \/ turns[StopCase[s]] = t
    BY DEF AloneInv, AloneIsFound, TurnsOf
  <2>3. t # NoTurn
    BY RequestsAssumption DEF TurnsOf
  <2> QED
    BY <2>1, <2>2, <2>3
<1> QED
  BY <1>1, <1>2, <1>3, PTL DEF Spec, StopReachesWhoBeganAlone

-----------------------------------------------------------------------------
(* Nobody is left working alone.                                           *)

(* Someone will still close c, or c is damaged.                            *)
Owned(c) ==
  \/ \E t \in TurnsOf(c) : pc[t] \in Busy /\ t \notin aborted
  \/ \E s \in StopsOf(c) : stopPc[s] = "aborting"
  \/ Damaged(c)

LEMMA WorkingInit == Init => NoOrphanWorking
  BY DEF Init, NoOrphanWorking

LEMMA WorkingStep ==
  TypeInv /\ RegistryInv /\ NoOrphanWorking /\ [Next]_vars => NoOrphanWorking'
<1> SUFFICES ASSUME TypeInv, RegistryInv, NoOrphanWorking, [Next]_vars,
                    NEW c \in Cases, status'[c] = "working"
             PROVE  Owned(c)'
  BY DEF NoOrphanWorking, Owned
<1> USE RequestsAssumption
    DEF TypeInv, TypeOK, RegistryInv, RegistryHoldsLiveTurn, AbortedHasBegun,
        vars, database, work, money, control, process, trouble, Goto, Owned, Damaged, Misread,
        TurnsOf, StopsOf, SetStatus, Close, MayClose
<1>0. status[c] = "working" => Owned(c)
  BY DEF NoOrphanWorking
<1>1. CASE Migrate \/ MigrateFails \/ OtherProcessMigrates
  BY <1>0, <1>1 DEF Migrate, MigrateFails, OtherProcessMigrates, Reap
<1>2. CASE Restart
  BY <1>0, <1>2 DEF Restart, TurnPcs
<1>3. ASSUME NEW t \in Turns, TurnRequest(t) PROVE Owned(c)'
  BY <1>0, <1>3 DEF TurnRequest, Admit, RefuseOverLimit
<1>4. ASSUME NEW t \in Turns, LogPrompt(t) \/ LogStart(t) \/ CallTool(t) PROVE Owned(c)'
  BY <1>0, <1>4 DEF LogPrompt, LogStart, CallTool
<1>5. ASSUME NEW t \in Turns, MarkWorking(t) PROVE Owned(c)'
  <2>1. CASE TurnCase[t] = c
    BY <1>5, <2>1 DEF MarkWorking
  <2>2. CASE TurnCase[t] # c
    BY <1>0, <1>5, <2>2 DEF MarkWorking
  <2> QED
    BY <2>1, <2>2
<1>6. ASSUME NEW t \in Turns, Begin(t) PROVE Owned(c)'
  <2>1. CASE TurnCase[t] = c
    BY <1>6, <2>1 DEF Begin
  <2>2. CASE TurnCase[t] # c
    BY <1>0, <1>6, <2>2 DEF Begin
  <2> QED
    BY <2>1, <2>2
<1>7. ASSUME NEW t \in Turns, FinishTool(t) PROVE Owned(c)'
  <2>1. /\ pc[t] \in Busy
        /\ \E label \in {"answered", "caught", "asking"} : pc' = [pc EXCEPT ![t] = label]
        /\ UNCHANGED <<status, stopPc, aborted, faulted>>
    BY <1>7 DEF FinishTool
  <2>2. \A u \in Turns : u # t => ending'[u] = ending[u]
    BY <1>7 DEF FinishTool
  <2>3. t \notin aborted => pc'[t] \in Busy
    BY <2>1
  <2>4. t \in aborted => ~Misread(t)
    OBVIOUS
  <2> QED
    BY <1>0, <2>1, <2>2, <2>3, <2>4
<1>8. ASSUME NEW t \in Turns, Answer(t) \/ AbortRequest(t) \/ ModelFails(t) PROVE Owned(c)'
  BY <1>0, <1>8 DEF Answer, AbortRequest, ModelFails
<1>9. ASSUME NEW t \in Turns, RecordCost(t) \/ LogEnd(t) PROVE Owned(c)'
  BY <1>0, <1>9 DEF RecordCost, LogEnd
<1>10. ASSUME NEW t \in Turns, CloseDone(t) PROVE Owned(c)'
  BY <1>0, <1>10 DEF CloseDone
<1>11. ASSUME NEW t \in Turns, BillPartly(t) \/ AddPartly(t) \/ LogFailed(t) PROVE Owned(c)'
  BY <1>0, <1>11 DEF BillPartly, AddPartly, LogFailed, Accounted
<1>12. ASSUME NEW t \in Turns, ReturnAborted(t) PROVE Owned(c)'
  BY <1>0, <1>12 DEF ReturnAborted, Accounted
<1>13. ASSUME NEW t \in Turns, CloseFailed(t) PROVE Owned(c)'
  BY <1>0, <1>13 DEF CloseFailed
<1>14. ASSUME NEW t \in Turns, EndTurn(t) PROVE Owned(c)'
  BY <1>0, <1>14 DEF EndTurn, Deregister
<1>15. ASSUME NEW t \in Turns, TurnFault(t) PROVE Owned(c)'
  BY <1>0, <1>15 DEF TurnFault, RequestFails, ClosingFails, CatchingFails, Fault
<1>16. ASSUME NEW s \in Stops, StopAbort(s) PROVE Owned(c)'
  <2>1. CASE StopCase[s] = c
    BY <1>16, <2>1 DEF StopAbort
  <2>2. CASE StopCase[s] # c
    BY <1>0, <1>16, <2>2 DEF StopAbort
  <2> QED
    BY <2>1, <2>2
<1>17. ASSUME NEW s \in Stops, StopMark(s) PROVE Owned(c)'
  BY <1>0, <1>17 DEF StopMark
<1>18. ASSUME NEW s \in Stops, StopLog(s) \/ StopFails(s) PROVE Owned(c)'
  BY <1>0, <1>18 DEF StopLog, StopFails, Fault
<1>19. CASE UNCHANGED vars
  BY <1>0, <1>19
<1> QED
  BY <1>1, <1>2, <1>3, <1>4, <1>5, <1>6, <1>7, <1>8, <1>9, <1>10, <1>11, <1>12, <1>13,
     <1>14, <1>15, <1>16, <1>17, <1>18, <1>19
  DEF Next, TurnStep, StopStep

(* However requests, turns and stops interleave, a case shown as working   *)
(* is owned by a turn or a stop that will close it, or it was damaged by a *)
(* restart, a failed database call or a misread failure.                   *)
THEOREM WorkingIsOwned == Spec => []NoOrphanWorking
<1>1. Init => TypeInv /\ RegistryInv /\ NoOrphanWorking
  BY TypeInit, RegistryInit, WorkingInit
<1>2. TypeInv /\ RegistryInv /\ NoOrphanWorking /\ [Next]_vars
        => (TypeInv /\ RegistryInv /\ NoOrphanWorking)'
  BY TypeStep, RegistryStep, WorkingStep
<1> QED
  BY <1>1, <1>2, PTL DEF Spec
-----------------------------------------------------------------------------
(* What history began is told to an end.                                   *)

(* Someone will still tell how the beginning of c ended, or c is damaged.  *)
Told(c) ==
  \/ \E t \in TurnsOf(c) : Telling(t)
  \/ \E s \in StopsOf(c) : stopPc[s] \in {"aborting", "marked"}
  \/ Damaged(c)

LEMMA HistoryInit == Init => HistoryIsClosed
  BY DEF Init, HistoryIsClosed

LEMMA HistoryStep ==
  TypeInv /\ RegistryInv /\ HistoryIsClosed /\ [Next]_vars => HistoryIsClosed'
<1> SUFFICES ASSUME TypeInv, RegistryInv, HistoryIsClosed, [Next]_vars,
                    NEW c \in Cases, lifecycle'[c] = "start"
             PROVE  Told(c)'
  BY DEF HistoryIsClosed, Told
<1> USE RequestsAssumption
    DEF TypeInv, TypeOK, RegistryInv, RegistryHoldsLiveTurn, AbortedHasBegun,
        vars, database, work, money, control, process, trouble, Goto, Told, Telling,
        Damaged, Misread, TurnsOf, StopsOf, LogLifecycle
<1>0. lifecycle[c] = "start" => Told(c)
  BY DEF HistoryIsClosed
<1>1. CASE Migrate \/ MigrateFails \/ OtherProcessMigrates
  BY <1>0, <1>1 DEF Migrate, MigrateFails, OtherProcessMigrates
<1>2. CASE Restart
  BY <1>0, <1>2 DEF Restart, TurnPcs
<1>3. ASSUME NEW t \in Turns, TurnRequest(t) PROVE Told(c)'
  BY <1>0, <1>3 DEF TurnRequest, Admit, RefuseOverLimit
<1>4. ASSUME NEW t \in Turns, LogPrompt(t) \/ MarkWorking(t) \/ CallTool(t) PROVE Told(c)'
  BY <1>0, <1>4 DEF LogPrompt, MarkWorking, CallTool
(* A beginning is told by the turn that goes on to tell its end.           *)
<1>5. ASSUME NEW t \in Turns, LogStart(t) PROVE Told(c)'
  <2>1. CASE TurnCase[t] = c
    BY <1>5, <2>1 DEF LogStart
  <2>2. CASE TurnCase[t] # c
    BY <1>0, <1>5, <2>2 DEF LogStart
  <2> QED
    BY <2>1, <2>2
(* The turn that gives another its signal takes over.                      *)
<1>6. ASSUME NEW t \in Turns, Begin(t) PROVE Told(c)'
  <2>1. CASE TurnCase[t] = c
    BY <1>6, <2>1 DEF Begin
  <2>2. CASE TurnCase[t] # c
    BY <1>0, <1>6, <2>2 DEF Begin
  <2> QED
    BY <2>1, <2>2
<1>7. ASSUME NEW t \in Turns, FinishTool(t) PROVE Told(c)'
  <2>0. pc[t] = "tooling" /\ UNCHANGED <<lifecycle, stopPc, aborted, faulted>>
    BY <1>7 DEF FinishTool
  <2>1. \/ pc' = [pc EXCEPT ![t] = "answered"]
        \/ pc' = [pc EXCEPT ![t] = "asking"] /\ t \notin aborted
        \/ pc' = [pc EXCEPT ![t] = "caught"] /\ t \in aborted
    BY <1>7 DEF FinishTool, SignalAborted
  <2>2. \A u \in Turns : u # t => ending'[u] = ending[u] /\ pc'[u] = pc[u]
    BY <1>7, <2>1 DEF FinishTool
  <2>3. Telling(t) => Telling(t)'
    BY <2>0, <2>1
  <2>4. pc[t] # "lost" /\ pc'[t] # "lost"
    BY <2>0, <2>1
  <2>5. Misread(t) => t \notin aborted
    OBVIOUS
  <2>6. t \notin aborted => Telling(t)'
    BY <2>0, <2>1
  <2> QED
    BY <1>0, <2>0, <2>2, <2>3, <2>4, <2>5, <2>6
<1>8. ASSUME NEW t \in Turns, Answer(t) \/ AbortRequest(t) \/ ModelFails(t) PROVE Told(c)'
  BY <1>0, <1>8 DEF Answer, AbortRequest, ModelFails, SignalAborted
<1>9. ASSUME NEW t \in Turns, RecordCost(t) \/ CloseDone(t) PROVE Told(c)'
  BY <1>0, <1>9 DEF RecordCost, CloseDone
<1>10. ASSUME NEW t \in Turns, LogEnd(t) \/ LogFailed(t) PROVE Told(c)'
  BY <1>0, <1>10 DEF LogEnd, LogFailed, Accounted
<1>11. ASSUME NEW t \in Turns, BillPartly(t) \/ AddPartly(t) PROVE Told(c)'
  BY <1>0, <1>11 DEF BillPartly, AddPartly
<1>12. ASSUME NEW t \in Turns, ReturnAborted(t) PROVE Told(c)'
  BY <1>0, <1>12 DEF ReturnAborted, Accounted
<1>13. ASSUME NEW t \in Turns, CloseFailed(t) PROVE Told(c)'
  BY <1>0, <1>13 DEF CloseFailed
<1>14. ASSUME NEW t \in Turns, EndTurn(t) PROVE Told(c)'
  BY <1>0, <1>14 DEF EndTurn, Deregister
<1>15. ASSUME NEW t \in Turns, TurnFault(t) PROVE Told(c)'
  BY <1>0, <1>15 DEF TurnFault, RequestFails, ClosingFails, CatchingFails, Fault
(* So does the stop, which will append its event whatever it closes.       *)
<1>16. ASSUME NEW s \in Stops, StopAbort(s) PROVE Told(c)'
  <2>1. CASE StopCase[s] = c
    BY <1>16, <2>1 DEF StopAbort
  <2>2. CASE StopCase[s] # c
    BY <1>0, <1>16, <2>2 DEF StopAbort
  <2> QED
    BY <2>1, <2>2
<1>17. ASSUME NEW s \in Stops, StopMark(s) PROVE Told(c)'
  BY <1>0, <1>17 DEF StopMark
<1>18. ASSUME NEW s \in Stops, StopLog(s) \/ StopFails(s) PROVE Told(c)'
  BY <1>0, <1>18 DEF StopLog, StopFails, Fault
<1>19. CASE UNCHANGED vars
  BY <1>0, <1>19
<1> QED
  BY <1>1, <1>2, <1>3, <1>4, <1>5, <1>6, <1>7, <1>8, <1>9, <1>10, <1>11, <1>12, <1>13,
     <1>14, <1>15, <1>16, <1>17, <1>18, <1>19
  DEF Next, TurnStep, StopStep

(* However requests, turns and stops interleave, a beginning that history  *)
(* tells last still has its end to come, from a turn or a stop of the case *)
(* that will append it, or the case was damaged by a restart, a failed     *)
(* database call or a misread failure.                                     *)
THEOREM BeginningsAreClosed == Spec => []HistoryIsClosed
<1>1. Init => TypeInv /\ RegistryInv /\ HistoryIsClosed
  BY TypeInit, RegistryInit, HistoryInit
<1>2. TypeInv /\ RegistryInv /\ HistoryIsClosed /\ [Next]_vars
        => (TypeInv /\ RegistryInv /\ HistoryIsClosed)'
  BY TypeStep, RegistryStep, HistoryStep
<1> QED
  BY <1>1, <1>2, PTL DEF Spec

-----------------------------------------------------------------------------
(* What a turn leaves on record of its cost.                              *)

(* A step one turn finishes is no other turn's cost.                       *)
LEMMA FinishStepFrame ==
  ASSUME TypeOK, NEW t \in Turns, FinishStep(t), NEW u \in Turns, u # t
  PROVE  spentInSteps'[u] = spentInSteps[u] /\ (u \in metered' <=> u \in metered)
<1>1. CASE UNCHANGED <<spentInSteps, metered>>
  BY <1>1
<1>2. CASE \E usd \in StepCosts :
             /\ spentInSteps' = [spentInSteps EXCEPT ![t] = @ + usd]
             /\ metered' = metered \cup {t}
  BY <1>2 DEF TypeOK
<1> QED
  BY <1>1, <1>2 DEF FinishStep

-----------------------------------------------------------------------------
(* The column beside the cost events.                                      *)

(* A turn about to add to cost_usd has already put that much on record:    *)
(* the cost event stands between every two additions.                      *)
ColumnInv ==
  \A t \in Turns :
    /\ added[t] <= billed[t]
    /\ pc[t] \in {"costed", "ended"} => added[t] + TurnCost(t) <= billed[t]
    /\ pc[t] = "partlyBilled" => added[t] + spentInSteps[t] <= billed[t]

LEMMA ColumnInit == Init => ColumnInv
  BY DEF Init, ColumnInv

LEMMA ColumnStep == TypeInv /\ ColumnInv /\ [Next]_vars => ColumnInv'
<1> SUFFICES ASSUME TypeInv, ColumnInv, [Next]_vars PROVE ColumnInv'
  OBVIOUS
<1> USE MoneyAssumption
    DEF TypeInv, TypeOK, ColumnInv, TurnCost,
        vars, database, work, money, control, process, trouble, Goto
<1>1. CASE Migrate \/ MigrateFails \/ OtherProcessMigrates
  BY <1>1 DEF Migrate, MigrateFails, OtherProcessMigrates
<1>2. CASE Restart
  BY <1>2 DEF Restart
<1>3. ASSUME NEW t \in Turns, TurnRequest(t) PROVE ColumnInv'
  BY <1>3 DEF TurnRequest, Admit, RefuseOverLimit
<1>4. ASSUME NEW t \in Turns,
             LogPrompt(t) \/ MarkWorking(t) \/ LogStart(t) \/ Begin(t) \/ CallTool(t)
      PROVE ColumnInv'
  BY <1>4 DEF LogPrompt, MarkWorking, LogStart, Begin, CallTool
<1>5. ASSUME NEW t \in Turns, FinishTool(t) \/ Answer(t) PROVE ColumnInv'
  <2>1. \E label \in {"answered", "caught", "asking"} : pc' = [pc EXCEPT ![t] = label]
    BY <1>5 DEF FinishTool, Answer
  <2>2. pc[t] \in Generating /\ UNCHANGED money
    BY <1>5 DEF FinishTool, Answer
  <2>3. \A u \in Turns : u # t => /\ spentInSteps'[u] = spentInSteps[u]
                                  /\ u \in metered' <=> u \in metered
    BY <1>5, FinishStepFrame DEF FinishTool, Answer
  <2> QED
    BY <2>1, <2>2, <2>3
<1>6. ASSUME NEW t \in Turns, AbortRequest(t) \/ ModelFails(t) PROVE ColumnInv'
  BY <1>6 DEF AbortRequest, ModelFails
<1>7. ASSUME NEW t \in Turns, RecordCost(t) PROVE ColumnInv'
  BY <1>7 DEF RecordCost
<1>8. ASSUME NEW t \in Turns, LogEnd(t) PROVE ColumnInv'
  BY <1>8 DEF LogEnd
<1>9. ASSUME NEW t \in Turns, CloseDone(t) PROVE ColumnInv'
  BY <1>9 DEF CloseDone
<1>10. ASSUME NEW t \in Turns, BillPartly(t) PROVE ColumnInv'
  BY <1>10 DEF BillPartly
<1>11. ASSUME NEW t \in Turns, AddPartly(t) PROVE ColumnInv'
  BY <1>11 DEF AddPartly
<1>12. ASSUME NEW t \in Turns, ReturnAborted(t) \/ LogFailed(t) \/ CloseFailed(t)
       PROVE ColumnInv'
  BY <1>12 DEF ReturnAborted, LogFailed, CloseFailed
<1>13. ASSUME NEW t \in Turns, EndTurn(t) PROVE ColumnInv'
  BY <1>13 DEF EndTurn
<1>14. ASSUME NEW t \in Turns, TurnFault(t) PROVE ColumnInv'
  BY <1>14 DEF TurnFault, RequestFails, ClosingFails, CatchingFails
<1>15. ASSUME NEW s \in Stops, StopAbort(s) \/ StopStep(s) \/ StopFails(s) PROVE ColumnInv'
  BY <1>15 DEF StopAbort, StopStep, StopMark, StopLog, StopFails
<1>16. CASE UNCHANGED vars
  BY <1>16
<1> QED
  BY <1>1, <1>2, <1>3, <1>4, <1>5, <1>6, <1>7, <1>8, <1>9, <1>10, <1>11, <1>12, <1>13,
     <1>14, <1>15, <1>16
  DEF Next, TurnStep

(* cost_usd never runs ahead of the cost events, faults included.          *)
THEOREM ColumnBehindEvents == Spec => []ColumnNeverAhead
<1>1. Init => TypeInv /\ ColumnInv
  BY TypeInit, ColumnInit
<1>2. TypeInv /\ ColumnInv /\ [Next]_vars => (TypeInv /\ ColumnInv)'
  BY TypeStep, ColumnStep
<1>3. ColumnInv => ColumnNeverAhead
  BY DEF ColumnInv, ColumnNeverAhead
<1> QED
  BY <1>1, <1>2, <1>3, PTL DEF Spec

-----------------------------------------------------------------------------
(* What a finished turn has on record.                                     *)

(* Where a turn no failed database call has hit stands, and what it has    *)
(* billed by then: nothing before the cost event, exactly its due after.   *)
Bill(t) ==
  t \notin faulted =>
    /\ pc[t] \in {"idle", "refused"} \cup Asked \cup Prelude \cup Generating => billed[t] = 0
    /\ pc[t] = "answered" => billed[t] = 0 /\ ending[t] \in {"success", "exhausted"}
    /\ pc[t] \in {"costed", "ended", "settled"} =>
         billed[t] = TurnCost(t) /\ ending[t] \in {"success", "exhausted"}
    /\ pc[t] = "caught" => billed[t] = 0 /\ ending[t] \in {"failure", "abort"}
    /\ pc[t] \in {"partlyBilled", "partlyAdded", "failed", "finally"} =>
         billed[t] = spentInSteps[t] /\ ending[t] \in {"failure", "abort"}
    /\ pc[t] = "closed" => billed[t] = Due(t)

BillingInv == \A t \in Turns : Bill(t)

LEMMA BillingInit == Init => BillingInv
  BY DEF Init, BillingInv, Bill

(* The bill of a turn rests on what the database and the process keep of it.*)
SameBill(t) ==
  /\ pc'[t] = pc[t] /\ billed'[t] = billed[t] /\ ending'[t] = ending[t]
  /\ spentInSteps'[t] = spentInSteps[t] /\ (t \in metered' <=> t \in metered)
  /\ faulted \subseteq faulted'

LEMMA BillFrame == ASSUME NEW t \in Turns, Bill(t), SameBill(t) PROVE Bill(t)'
<1>1. TurnCost(t)' = TurnCost(t) /\ Due(t)' = Due(t)
  BY DEF SameBill, TurnCost, Due
<1> QED
  BY <1>1 DEF SameBill, Bill

LEMMA BillOfOthers ==
  ASSUME TypeInv, NEW t \in Turns, TurnRequest(t) \/ TurnStep(t) \/ TurnFault(t),
         NEW u \in Turns, u # t
  PROVE  SameBill(u)
<1> USE DEF SameBill, TypeInv, TypeOK, database, work, money, control, process, trouble, Goto
<1>1. CASE TurnRequest(t)
  BY <1>1 DEF TurnRequest, Admit, RefuseOverLimit
<1>2. CASE LogPrompt(t) \/ MarkWorking(t) \/ LogStart(t) \/ Begin(t) \/ CallTool(t)
  BY <1>2 DEF LogPrompt, MarkWorking, LogStart, Begin, CallTool
<1>3. CASE FinishTool(t) \/ Answer(t)
  <2>1. spentInSteps'[u] = spentInSteps[u] /\ (u \in metered' <=> u \in metered)
    BY <1>3, FinishStepFrame DEF FinishTool, Answer
  <2> QED
    BY <1>3, <2>1 DEF FinishTool, Answer
<1>4. CASE AbortRequest(t) \/ ModelFails(t)
  BY <1>4 DEF AbortRequest, ModelFails
<1>5. CASE RecordCost(t) \/ LogEnd(t) \/ CloseDone(t)
  BY <1>5 DEF RecordCost, LogEnd, CloseDone
<1>6. CASE BillPartly(t) \/ AddPartly(t) \/ ReturnAborted(t) \/ LogFailed(t) \/ CloseFailed(t)
  BY <1>6 DEF BillPartly, AddPartly, ReturnAborted, LogFailed, CloseFailed
<1>7. CASE EndTurn(t)
  BY <1>7 DEF EndTurn
<1>8. CASE TurnFault(t)
  BY <1>8 DEF TurnFault, RequestFails, ClosingFails, CatchingFails, Fault
<1> QED
  BY <1>1, <1>2, <1>3, <1>4, <1>5, <1>6, <1>7, <1>8 DEF TurnStep

LEMMA BillOfOwn ==
  ASSUME TypeInv, NEW t \in Turns, Bill(t), TurnRequest(t) \/ TurnStep(t) \/ TurnFault(t)
  PROVE  Bill(t)'
<1> USE MoneyAssumption
    DEF TypeInv, TypeOK, Bill, TurnCost, Due, database, work, money, control, process,
        trouble, Goto
<1>1. CASE TurnRequest(t)
  BY <1>1 DEF TurnRequest, Admit, RefuseOverLimit
<1>2. CASE LogPrompt(t) \/ MarkWorking(t) \/ LogStart(t) \/ Begin(t) \/ CallTool(t)
  BY <1>2 DEF LogPrompt, MarkWorking, LogStart, Begin, CallTool
<1>3. CASE FinishTool(t)
  BY <1>3 DEF FinishTool
<1>4. CASE Answer(t)
  BY <1>4 DEF Answer
<1>5. CASE AbortRequest(t) \/ ModelFails(t)
  BY <1>5 DEF AbortRequest, ModelFails
<1>6. CASE RecordCost(t)
  BY <1>6 DEF RecordCost
<1>7. CASE LogEnd(t) \/ CloseDone(t)
  BY <1>7 DEF LogEnd, CloseDone
<1>8. CASE BillPartly(t) \/ AddPartly(t)
  BY <1>8 DEF BillPartly, AddPartly
<1>9. CASE ReturnAborted(t) \/ LogFailed(t)
  BY <1>9 DEF ReturnAborted, LogFailed, Accounted
<1>10. CASE CloseFailed(t)
  BY <1>10 DEF CloseFailed
<1>11. CASE EndTurn(t)
  BY <1>11 DEF EndTurn
<1>12. CASE TurnFault(t)
  BY <1>12 DEF TurnFault, RequestFails, ClosingFails, CatchingFails, Fault
<1> QED
  BY <1>1, <1>2, <1>3, <1>4, <1>5, <1>6, <1>7, <1>8, <1>9, <1>10, <1>11, <1>12 DEF TurnStep

LEMMA BillingStep == TypeInv /\ BillingInv /\ [Next]_vars => BillingInv'
<1> SUFFICES ASSUME TypeInv, BillingInv, [Next]_vars, NEW u \in Turns PROVE Bill(u)'
  BY DEF BillingInv
<1>0. Bill(u)
  BY DEF BillingInv
<1>1. CASE Migrate \/ MigrateFails \/ OtherProcessMigrates \/ UNCHANGED vars
  <2>1. SameBill(u)
    BY <1>1 DEF Migrate, MigrateFails, OtherProcessMigrates, SameBill,
                vars, database, work, money, control, process, trouble
  <2> QED
    BY <1>0, <2>1, BillFrame
<1>2. CASE Restart
  <2>1. CASE pc'[u] = pc[u]
    <3>1. SameBill(u)
      BY <1>2, <2>1 DEF Restart, SameBill, work, money, trouble
    <3> QED
      BY <1>0, <3>1, BillFrame
  <2>2. CASE pc'[u] = "lost"
    BY <2>2 DEF Bill
  <2> QED
    BY <1>2, <2>1, <2>2 DEF Restart
<1>3. ASSUME NEW t \in Turns, TurnRequest(t) \/ TurnStep(t) \/ TurnFault(t) PROVE Bill(u)'
  <2>1. CASE u = t
    BY <1>0, <1>3, <2>1, BillOfOwn
  <2>2. CASE u # t
    BY <1>0, <1>3, <2>2, BillOfOthers, BillFrame
  <2> QED
    BY <2>1, <2>2
<1>4. ASSUME NEW s \in Stops, StopAbort(s) \/ StopStep(s) \/ StopFails(s) PROVE Bill(u)'
  <2>1. SameBill(u)
    BY <1>4 DEF StopAbort, StopStep, StopMark, StopLog, StopFails, Fault, SameBill,
                work, money, trouble
  <2> QED
    BY <1>0, <2>1, BillFrame
<1> QED
  BY <1>1, <1>2, <1>3, <1>4 DEF Next

(* However a turn ended, its cost events are exactly what it owes.         *)
THEOREM TurnIsBilled == Spec => []ClosedTurnIsBilled
<1>1. Init => TypeInv /\ BillingInv
  BY TypeInit, BillingInit
<1>2. TypeInv /\ BillingInv /\ [Next]_vars => (TypeInv /\ BillingInv)'
  BY TypeStep, BillingStep
<1>3. BillingInv => ClosedTurnIsBilled
  BY DEF BillingInv, ClosedTurnIsBilled, Bill
<1> QED
  BY <1>1, <1>2, <1>3, PTL DEF Spec

-----------------------------------------------------------------------------
(* What a write of the case's row may be.                                  *)

(* Every case starts, ends or is left alone.                               *)
Lawful == \A c \in Cases : CF!Start(c) \/ CF!Finish(c) \/ CF!Keep(c)

(* A closing update keeps the promise because of its guard alone.          *)
LEMMA CloseIsLawful ==
  ASSUME TypeOK, NEW c \in Cases, NEW e \in CF!Endings, Close(c, e[1], e[2])
  PROVE  Lawful
<1> USE DEF TypeOK, Lawful, CF!Keep
<1>1. CASE MayClose(c)
  <2>1. SetStatus(c, e[1], e[2]) /\ e = <<e[1], e[2]>>
    BY <1>1 DEF Close, CF!Endings
  <2>2. CF!Finish(c)
    BY <1>1, <2>1 DEF SetStatus, MayClose, CF!Finish
  <2>3. \A d \in Cases \ {c} : CF!Keep(d)
    BY <2>1 DEF SetStatus
  <2> QED
    BY <2>2, <2>3
<1>2. CASE ~MayClose(c)
  BY <1>2 DEF Close
<1> QED
  BY <1>1, <1>2

(* So does the sweep at start-up, whatever it finds quiet.                 *)
LEMMA ReapIsLawful ==
  ASSUME TypeOK, NEW quiet \in SUBSET Cases, Reap(quiet)
  PROVE  Lawful
<1> SUFFICES ASSUME NEW c \in Cases PROVE CF!Finish(c) \/ CF!Keep(c)
  BY DEF Lawful
<1> USE DEF TypeOK, Reap
<1>1. CASE c \in quiet /\ status[c] = "working"
  <2>1. status'[c] = "stopped" /\ reason'[c] = "server-restart"
    BY <1>1
  <2> QED
    BY <1>1, <2>1 DEF CF!Finish, CF!Endings
<1>2. CASE ~(c \in quiet /\ status[c] = "working")
  BY <1>2 DEF CF!Keep
<1> QED
  BY <1>1, <1>2

LEMMA StepIsLawful == TypeInv /\ [Next]_vars => Lawful
<1> SUFFICES ASSUME TypeInv, [Next]_vars PROVE Lawful
  OBVIOUS
<1> USE DEF TypeInv, vars, database
<1>1. CASE UNCHANGED <<status, reason>>
  BY <1>1 DEF Lawful, CF!Keep
<1>2. CASE Migrate \/ OtherProcessMigrates
  BY <1>2, ReapIsLawful DEF Migrate, OtherProcessMigrates
<1>3. ASSUME NEW t \in Turns, MarkWorking(t) PROVE Lawful
  BY <1>3, RequestsAssumption DEF MarkWorking, SetStatus, Lawful, CF!Start, CF!Keep, TypeOK
<1>4. ASSUME NEW t \in Turns, CloseDone(t) PROVE Lawful
  <2>1. <<"done", "none">> \in CF!Endings
    BY DEF CF!Endings
  <2> QED
    BY <1>4, <2>1, CloseIsLawful, RequestsAssumption DEF CloseDone
<1>5. ASSUME NEW t \in Turns, CloseFailed(t) PROVE Lawful
  <2>1. <<"failed", "failure">> \in CF!Endings
    BY DEF CF!Endings
  <2> QED
    BY <1>5, <2>1, CloseIsLawful, RequestsAssumption DEF CloseFailed
<1>6. ASSUME NEW s \in Stops, StopMark(s) PROVE Lawful
  <2>1. <<"stopped", "stopped-by-you">> \in CF!Endings
    BY DEF CF!Endings
  <2> QED
    BY <1>6, <2>1, CloseIsLawful, RequestsAssumption DEF StopMark
<1>7. ASSUME MigrateFails \/ Restart \/ UNCHANGED vars PROVE UNCHANGED <<status, reason>>
  BY <1>7 DEF MigrateFails, Restart
<1>8. ASSUME NEW t \in Turns, TurnRequest(t) \/ TurnFault(t) PROVE UNCHANGED <<status, reason>>
  BY <1>8 DEF TurnRequest, Admit, RefuseOverLimit, TurnFault, RequestFails, ClosingFails,
              CatchingFails
<1>9. ASSUME NEW t \in Turns, TurnStep(t), ~MarkWorking(t), ~CloseDone(t), ~CloseFailed(t)
      PROVE UNCHANGED <<status, reason>>
  BY <1>9 DEF TurnStep, LogPrompt, LogStart, Begin, CallTool, FinishTool, Answer,
              AbortRequest, ModelFails, RecordCost, LogEnd, BillPartly, AddPartly,
              ReturnAborted, LogFailed, EndTurn
<1>10. ASSUME NEW s \in Stops, StopAbort(s) \/ StopLog(s) \/ StopFails(s)
       PROVE UNCHANGED <<status, reason>>
  BY <1>10 DEF StopAbort, StopLog, StopFails
<1> QED
  BY <1>1, <1>2, <1>3, <1>4, <1>5, <1>6, <1>7, <1>8, <1>9, <1>10 DEF Next, StopStep

(* A case leaves working once per start, and no ending is ever rewritten   *)
(* into another, whatever turns, stops, restarts and faults interleave.    *)
THEOREM ImplementsCaseFile == Spec => CaseFileSpec
<1>1. Init => CF!Init
  BY DEF Init, CF!Init
<1>2. Init => TypeInv
  BY TypeInit
<1>3. TypeInv /\ [Next]_vars => TypeInv'
  BY TypeStep
<1>4. TypeInv /\ TypeInv' /\ [Next]_vars => [CF!Next]_CF!file
  <2>1. ASSUME TypeInv', Lawful PROVE CF!Next
    BY <2>1 DEF TypeInv, TypeOK, Lawful, CF!Next
  <2> QED
    BY <2>1, StepIsLawful
<1> QED
  BY <1>1, <1>2, <1>3, <1>4, PTL DEF Spec, CaseFileSpec, CF!Spec

-----------------------------------------------------------------------------
(* No turn goes back.                                                      *)

(* How many awaits lie between a turn and its end, by where it is.         *)
Stages == [idle |-> 16, admitted |-> 15, prompted |-> 14, marked |-> 13, started |-> 12,
           asking |-> 11, tooling |-> 10, answered |-> 9, costed |-> 8, ended |-> 7,
           settled |-> 6, caught |-> 5, partlyBilled |-> 4, partlyAdded |-> 3,
           failed |-> 2, finally |-> 1,
           closed |-> 0, refused |-> 0, errored |-> 0, lost |-> 0]

Stage(t) == Stages[pc[t]]

(* A model step goes from asking to its tool and back.                     *)
AwaitsLeft(t) == Stage(t) + 2 * (MaxSteps - steps[t])

(* No turn goes back or round in a circle: whatever the model, the tools,  *)
(* the database and other requests do, each of its moves leaves fewer      *)
(* awaits before its end, and the steps it finished are never given back.  *)
EveryMoveAdvances ==
  [][\A t \in Turns : \/ pc'[t] = pc[t] /\ steps'[t] = steps[t]
                      \/ AwaitsLeft(t)' < AwaitsLeft(t) /\ steps'[t] >= steps[t]]_vars

Advances(t) ==
  \/ pc'[t] = pc[t] /\ steps'[t] = steps[t]
  \/ AwaitsLeft(t)' < AwaitsLeft(t) /\ steps'[t] >= steps[t]

(* A turn that moves on to a later stage advances.                         *)
NextStage(t) == Stage(t) \in Nat /\ Stage(t)' \in Nat /\ Stage(t)' < Stage(t)

LEMMA StageAdvances ==
  ASSUME TypeOK, NEW t \in Turns, steps' = steps, NextStage(t)
  PROVE  Advances(t)
<1>1. steps[t] \in Nat /\ MaxSteps \in Nat
  BY BoundsAssumption DEF TypeOK
<1> QED
  BY <1>1 DEF Advances, AwaitsLeft, NextStage

LEMMA OwnStepAdvances ==
  ASSUME TypeInv, NEW t \in Turns, TurnRequest(t) \/ TurnStep(t) \/ TurnFault(t)
  PROVE  /\ Advances(t)
         /\ \A u \in Turns \ {t} : pc'[u] = pc[u] /\ steps'[u] = steps[u]
<1> USE DEF TypeInv, TypeOK, work, Goto
<1>1. CASE TurnRequest(t) \/ LogPrompt(t) \/ MarkWorking(t) \/ LogStart(t) \/ Begin(t)
  <2>1. /\ steps' = steps /\ \A u \in Turns \ {t} : pc'[u] = pc[u]
        /\ \/ pc[t] = "idle" /\ pc'[t] \in {"admitted", "refused"}
           \/ pc[t] = "admitted" /\ pc'[t] = "prompted"
           \/ pc[t] = "prompted" /\ pc'[t] = "marked"
           \/ pc[t] = "marked" /\ pc'[t] = "started"
           \/ pc[t] = "started" /\ pc'[t] = "asking"
    BY <1>1 DEF TurnRequest, Admit, RefuseOverLimit, LogPrompt, MarkWorking, LogStart, Begin
  <2>2. NextStage(t)
    BY <2>1 DEF NextStage, Stage, Stages
  <2> QED
    BY <2>1, <2>2, StageAdvances
<1>2. CASE CallTool(t) \/ AbortRequest(t) \/ ModelFails(t)
  <2>1. /\ steps' = steps /\ \A u \in Turns \ {t} : pc'[u] = pc[u]
        /\ pc[t] = "asking" /\ pc'[t] \in {"tooling", "caught"}
    BY <1>2 DEF CallTool, AbortRequest, ModelFails
  <2>2. NextStage(t)
    BY <2>1 DEF NextStage, Stage, Stages
  <2> QED
    BY <2>1, <2>2, StageAdvances
(* The step a turn finishes pays for the way back to the model.            *)
<1>3. CASE FinishTool(t) \/ Answer(t)
  <2>1. steps' = [steps EXCEPT ![t] = @ + 1]
    BY <1>3 DEF FinishTool, Answer, FinishStep
  <2>2. /\ \A u \in Turns \ {t} : pc'[u] = pc[u]
        /\ \/ pc[t] = "tooling" /\ pc'[t] \in {"answered", "caught", "asking"}
           \/ pc[t] = "asking" /\ pc'[t] = "answered"
    BY <1>3 DEF FinishTool, Answer
  <2>3. Stage(t) \in Nat /\ Stage(t)' \in Nat /\ Stage(t)' <= Stage(t) + 1
    BY <2>2 DEF Stage, Stages
  <2>4. steps'[t] = steps[t] + 1 /\ \A u \in Turns \ {t} : steps'[u] = steps[u]
    BY <2>1
  <2>5. steps[t] \in Nat /\ MaxSteps \in Nat
    BY BoundsAssumption
  <2>6. AwaitsLeft(t)' < AwaitsLeft(t)
    BY <2>3, <2>4, <2>5 DEF AwaitsLeft
  <2> QED
    BY <2>2, <2>4, <2>5, <2>6 DEF Advances
<1>4. CASE RecordCost(t) \/ LogEnd(t) \/ CloseDone(t) \/ EndTurn(t)
  <2>1. /\ steps' = steps /\ \A u \in Turns \ {t} : pc'[u] = pc[u]
        /\ \/ pc[t] = "answered" /\ pc'[t] = "costed"
           \/ pc[t] = "costed" /\ pc'[t] = "ended"
           \/ pc[t] = "ended" /\ pc'[t] = "settled"
           \/ pc[t] \in {"settled", "finally"} /\ pc'[t] = "closed"
    BY <1>4 DEF RecordCost, LogEnd, CloseDone, EndTurn
  <2>2. NextStage(t)
    BY <2>1 DEF NextStage, Stage, Stages
  <2> QED
    BY <2>1, <2>2, StageAdvances
<1>5. CASE BillPartly(t) \/ AddPartly(t) \/ ReturnAborted(t) \/ LogFailed(t) \/ CloseFailed(t)
  <2>1. /\ steps' = steps /\ \A u \in Turns \ {t} : pc'[u] = pc[u]
        /\ \/ pc[t] = "caught" /\ pc'[t] = "partlyBilled"
           \/ pc[t] = "partlyBilled" /\ pc'[t] = "partlyAdded"
           \/ pc[t] \in {"caught", "partlyAdded"} /\ pc'[t] \in {"failed", "finally"}
           \/ pc[t] = "failed" /\ pc'[t] = "finally"
    BY <1>5 DEF BillPartly, AddPartly, ReturnAborted, LogFailed, CloseFailed, Accounted
  <2>2. NextStage(t)
    BY <2>1 DEF NextStage, Stage, Stages
  <2> QED
    BY <2>1, <2>2, StageAdvances
<1>6. CASE TurnFault(t)
  <2>1. /\ steps' = steps /\ \A u \in Turns \ {t} : pc'[u] = pc[u]
        /\ \/ pc[t] \in Asked \cup Prelude /\ pc'[t] = "errored"
           \/ pc[t] \in Closing /\ pc'[t] = "caught"
           \/ pc[t] \in Catching /\ pc'[t] = "finally"
    BY <1>6 DEF TurnFault, RequestFails, ClosingFails, CatchingFails
  <2>2. NextStage(t)
    BY <2>1 DEF NextStage, Stage, Stages
  <2> QED
    BY <2>1, <2>2, StageAdvances
<1> QED
  BY <1>1, <1>2, <1>3, <1>4, <1>5, <1>6 DEF TurnStep

LEMMA StepAdvances ==
  ASSUME TypeInv, [Next]_vars, NEW t \in Turns
  PROVE  Advances(t)
<1> USE DEF vars, work
<1>1. CASE Restart
  <2>1. steps' = steps /\ (pc'[t] = pc[t] \/ (pc[t] \notin {"idle"} \cup Over /\ pc'[t] = "lost"))
    BY <1>1 DEF Restart
  <2>2. CASE pc'[t] = pc[t]
    BY <2>1, <2>2 DEF Advances
  <2>3. CASE pc[t] \notin {"idle"} \cup Over /\ pc'[t] = "lost"
    <3>1. NextStage(t)
      BY <2>3 DEF NextStage, Stage, Stages, TypeInv, TypeOK, TurnPcs
    <3> QED
      BY <2>1, <3>1, StageAdvances DEF TypeInv
  <2> QED
    BY <2>1, <2>2, <2>3
<1>2. CASE Migrate \/ MigrateFails \/ OtherProcessMigrates \/ UNCHANGED vars
  BY <1>2 DEF Migrate, MigrateFails, OtherProcessMigrates, Advances
<1>3. CASE \E s \in Stops : StopAbort(s) \/ StopStep(s) \/ StopFails(s)
  BY <1>3 DEF StopAbort, StopStep, StopMark, StopLog, StopFails, Advances
<1>4. ASSUME NEW u \in Turns, TurnRequest(u) \/ TurnStep(u) \/ TurnFault(u) PROVE Advances(t)
  <2>1. Advances(u) /\ \A v \in Turns \ {u} : pc'[v] = pc[v] /\ steps'[v] = steps[v]
    BY <1>4, OwnStepAdvances
  <2> QED
    BY <2>1 DEF Advances
<1> QED
  BY <1>1, <1>2, <1>3, <1>4 DEF Next

(* No turn goes back or round in a circle: each of its moves leaves fewer  *)
(* awaits before its end.  What is left of TurnCloses is that some move is *)
(* always made.                                                            *)
THEOREM TurnsComeCloser == Spec => EveryMoveAdvances
<1>1. TypeInv /\ [Next]_vars => [\A t \in Turns : Advances(t)]_vars
  BY StepAdvances
<1> QED
  BY <1>1, TypeInit, TypeStep, PTL DEF Spec, EveryMoveAdvances, Advances
=============================================================================
