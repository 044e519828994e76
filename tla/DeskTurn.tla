------------------------------ MODULE DeskTurn ------------------------------
(***************************************************************************)
(* The life of a turn at the Desk: the request that starts it              *)
(* (desk-app/src/api/case-turn.ts), the detached work that runs it         *)
(* (desk-core/src/runtime.ts, runTurn), the registry of abort controllers  *)
(* (desk-core/src/turn-control.ts), the request that stops it              *)
(* (desk-app/src/api/case-stop.ts), and the start-up sweep that cleans up  *)
(* after a restart (desk-core/src/db.ts, migrate).                         *)
(*                                                                         *)
(* Every await is a point where another request may run, so an action is   *)
(* what happens between two awaits.  The database (case_file, event)       *)
(* survives a restart of the process; controllers and turns do not.        *)
(*                                                                         *)
(* Left out: the audit log (written here, read by nothing here), titles,   *)
(* texts and attachments, requests refused with 400, 403 or 404 (they      *)
(* write nothing but the audit log), and the change of the day: the model  *)
(* covers the cases of one person on one day, so spentToday is the sum of  *)
(* all their cost events.                                                  *)
(***************************************************************************)
EXTENDS Integers, FiniteSets, FiniteSetsExt

CONSTANTS
  Cases,        \* the cases of one person
  Turns,        \* accepted-or-refused POST /cases/:id/turn requests
  Stops,        \* POST /cases/:id/stop requests
  TurnCase,     \* the case each turn request names
  StopCase,     \* the case each stop request names
  NoTurn,       \* no controller in the registry
  MaxSteps,     \* stepCountIs(12)
  StepCosts,    \* what the proxy may report for one step
  Estimate,     \* turnCost's fallback when no step reported a cost
  DailyLimit,   \* the person's dailyLimitUsd
  MaxRestarts,  \* bound: restarts and starts of a second instance
  MaxFaults     \* bound: database calls that fail

ASSUME RequestsAssumption ==
  /\ TurnCase \in [Turns -> Cases]
  /\ StopCase \in [Stops -> Cases]
  /\ NoTurn \notin Turns
  /\ Turns \cap Stops = {}

ASSUME MoneyAssumption ==
  /\ StepCosts \subseteq Nat
  /\ Estimate \in Nat
  /\ DailyLimit \in Nat

ASSUME BoundsAssumption ==
  /\ MaxSteps \in Nat \ {0}
  /\ MaxRestarts \in Nat
  /\ MaxFaults \in Nat

VARIABLES
  status, reason,   \* case_file.status and case_file.reason
  lifecycle,        \* the last lifecycle event of the case
  billed,           \* per turn: the sum of the cost events it appended
  added,            \* per turn: what it added to case_file.cost_usd
  pc,               \* per turn: where the request or its detached work is
  steps,            \* per turn: model steps finished
  spentInSteps,     \* per turn: the cost its finished steps reported
  metered,          \* turns some finished step of which reported a cost
  ending,           \* per turn: how generateText ended
  turns,            \* turn-control's registry: the turn whose controller a case has
  aborted,          \* turns whose signal is aborted
  alone,            \* history: turns that began with no other of their case at work
  stopPc,           \* per stop request: where it is
  migration,        \* the memoized promise of migrate()
  restarts, faults, \* counted against MaxRestarts and MaxFaults
  faulted           \* turn and stop requests a failed database call hit

database == <<status, reason, lifecycle>>
work     == <<steps, spentInSteps, metered>>
money    == <<billed, added>>
control  == <<turns, aborted, alone>>
process  == <<migration, restarts>>
trouble  == <<faults, faulted>>

vars == <<database, work, money, control, process, trouble, pc, ending, stopPc>>

-----------------------------------------------------------------------------

CF == INSTANCE CaseFile WITH Cases <- Cases, status <- status, reason <- reason

Lifecycles == {"none", "start", "end", "exhausted", "stopped", "failed"}

(* Inside runTurn, between marking the case and detaching the work.        *)
Prelude == {"marked", "started"}

(* Inside generateText.                                                    *)
Generating == {"asking", "tooling"}

(* Awaits of the try block after generateText returned.                    *)
Closing == {"answered", "costed", "ended", "settled"}

(* Awaits of the catch block.                                              *)
Catching == {"caught", "partlyBilled", "partlyAdded", "failed"}

(* From beginTurn to endTurn.                                              *)
Begun == Generating \cup Closing \cup Catching \cup {"finally"}

(* The status of the case still has to be closed by this turn.             *)
Busy == Prelude \cup Generating \cup (Closing \ {"settled"}) \cup Catching

(* Handling of the request before the case is touched.                     *)
Asked == {"admitted", "prompted"}

Over == {"refused", "errored", "closed", "lost"}

TurnPcs == {"idle"} \cup Asked \cup Prelude \cup Begun \cup Over

StopPcs == {"idle", "aborting", "marked", "done", "errored", "lost"}

EndingsOfTurn == {"none", "success", "exhausted", "failure", "abort"}

TurnsOf(c) == {t \in Turns : TurnCase[t] = c}

StopsOf(c) == {s \in Stops : StopCase[s] = c}

(* The cost case-events.ts shows for a case: the sum of its cost events.   *)
CaseCost(c) == MapThenSumSet(LAMBDA t : billed[t], TurnsOf(c))

SpentToday == MapThenSumSet(CaseCost, Cases)

TypeOK ==
  /\ status \in [Cases -> CF!Statuses]
  /\ reason \in [Cases -> CF!Reasons]
  /\ lifecycle \in [Cases -> Lifecycles]
  /\ billed \in [Turns -> Nat]
  /\ added \in [Turns -> Nat]
  /\ pc \in [Turns -> TurnPcs]
  /\ steps \in [Turns -> 0 .. MaxSteps]
  /\ spentInSteps \in [Turns -> Nat]
  /\ metered \subseteq Turns
  /\ ending \in [Turns -> EndingsOfTurn]
  /\ turns \in [Cases -> Turns \cup {NoTurn}]
  /\ aborted \subseteq Turns
  /\ alone \subseteq Turns
  /\ stopPc \in [Stops -> StopPcs]
  /\ migration \in {"none", "ready", "rejected"}
  /\ restarts \in 0 .. MaxRestarts
  /\ faults \in 0 .. MaxFaults
  /\ faulted \subseteq Turns \cup Stops

Init ==
  /\ status = [c \in Cases |-> "new"]
  /\ reason = [c \in Cases |-> "none"]
  /\ lifecycle = [c \in Cases |-> "none"]
  /\ billed = [t \in Turns |-> 0]
  /\ added = [t \in Turns |-> 0]
  /\ pc = [t \in Turns |-> "idle"]
  /\ steps = [t \in Turns |-> 0]
  /\ spentInSteps = [t \in Turns |-> 0]
  /\ metered = {}
  /\ ending = [t \in Turns |-> "none"]
  /\ turns = [c \in Cases |-> NoTurn]
  /\ aborted = {}
  /\ alone = {}
  /\ stopPc = [s \in Stops |-> "idle"]
  /\ migration = "none"
  /\ restarts = 0
  /\ faults = 0
  /\ faulted = {}

-----------------------------------------------------------------------------
(* Shorthands of the actions.                                              *)

Goto(t, label) == pc' = [pc EXCEPT ![t] = label]

LogLifecycle(c, event) == lifecycle' = [lifecycle EXCEPT ![c] = event]

SetStatus(c, s, r) == /\ status' = [status EXCEPT ![c] = s]
                      /\ reason' = [reason EXCEPT ![c] = r]

(* Mutant: a closing update without its guard.                             *)
MayCloseUnguarded(c) == TRUE

(* `where id=$1 and status='working'`: the guard of every closing update.  *)
MayClose(c) == status[c] = "working"

(* The closing update of a turn or of a stop: no row matches, no change.   *)
Close(c, s, r) == IF MayClose(c) THEN SetStatus(c, s, r)
                                 ELSE UNCHANGED <<status, reason>>

(* turnCost: the sum over the steps that reported a cost, or the estimate. *)
TurnCost(t) == IF t \in metered THEN spentInSteps[t] ELSE Estimate

-----------------------------------------------------------------------------
(* Start-up.                                                               *)

(* The sweep: a working case without an event in the last two minutes.     *)
(* Any time may pass between two actions, so any set of cases can be quiet.*)
Reap(quiet) ==
  LET hung == {c \in quiet : status[c] = "working"}
  IN  /\ status' = [c \in Cases |-> IF c \in hung THEN "stopped" ELSE status[c]]
      /\ reason' = [c \in Cases |-> IF c \in hung THEN "server-restart"
                                                  ELSE reason[c]]

(* The first request of a process awaits migrate(), whose last step sweeps.*)
Migrate ==
  /\ migration = "none"
  /\ migration' = "ready"
  /\ \E quiet \in SUBSET Cases : Reap(quiet)
  /\ UNCHANGED <<lifecycle, work, money, control, restarts, trouble, pc, ending, stopPc>>

(* A rejected migration stays memoized: the process serves nothing again.  *)
MigrateFails ==
  /\ migration = "none"
  /\ faults < MaxFaults
  /\ faults' = faults + 1
  /\ migration' = "rejected"
  /\ UNCHANGED <<database, work, money, control, restarts, faulted, pc, ending, stopPc>>

(* A second process of the application starts beside this one.             *)
OtherProcessMigrates ==
  /\ restarts < MaxRestarts
  /\ restarts' = restarts + 1
  /\ \E quiet \in SUBSET Cases : Reap(quiet)
  /\ UNCHANGED <<lifecycle, work, money, control, migration, trouble, pc, ending, stopPc>>

(* The process dies and a new one takes its place: the registry is empty,  *)
(* the work in flight is gone, the rows stay as they are.                  *)
Restart ==
  /\ restarts < MaxRestarts
  /\ restarts' = restarts + 1
  /\ migration' = "none"
  /\ turns' = [c \in Cases |-> NoTurn]
  /\ pc' = [t \in Turns |-> IF pc[t] \in {"idle"} \cup Over THEN pc[t] ELSE "lost"]
  /\ stopPc' = [s \in Stops |-> IF stopPc[s] \in {"aborting", "marked"}
                                THEN "lost" ELSE stopPc[s]]
  /\ UNCHANGED <<database, work, money, aborted, alone, trouble, ending>>

-----------------------------------------------------------------------------
(* POST turn: the request.                                                 *)

(* The limit is read once, before the body; costs appear later.            *)
Admit(t) ==
  /\ migration = "ready"
  /\ pc[t] = "idle"
  /\ SpentToday < DailyLimit
  /\ Goto(t, "admitted")
  /\ UNCHANGED <<database, work, money, control, process, trouble, ending, stopPc>>

(* 429: the limit is used up.                                              *)
RefuseOverLimit(t) ==
  /\ migration = "ready"
  /\ pc[t] = "idle"
  /\ SpentToday >= DailyLimit
  /\ Goto(t, "refused")
  /\ UNCHANGED <<database, work, money, control, process, trouble, ending, stopPc>>

(* The prompt event, and the title of a case that has none yet.            *)
LogPrompt(t) ==
  /\ pc[t] = "admitted"
  /\ Goto(t, "prompted")
  /\ UNCHANGED <<database, work, money, control, process, trouble, ending, stopPc>>

(* runTurn marks the case whatever its status is.                          *)
MarkWorking(t) ==
  /\ pc[t] = "prompted"
  /\ SetStatus(TurnCase[t], "working", "none")
  /\ Goto(t, "marked")
  /\ UNCHANGED <<lifecycle, work, money, control, process, trouble, ending, stopPc>>

LogStart(t) ==
  /\ pc[t] = "marked"
  /\ LogLifecycle(TurnCase[t], "start")
  /\ Goto(t, "started")
  /\ UNCHANGED <<status, reason, work, money, control, process, trouble, ending, stopPc>>

(* History: the turn begins while no other turn of its case is at work.    *)
NoteAlone(t) ==
  alone' = IF \E q \in TurnsOf(TurnCase[t]) \ {t} : pc[q] \in Begun
           THEN alone ELSE alone \cup {t}

(* After memory, procedures, MCP tools and history are read, the work is   *)
(* detached; its first act is beginTurn, which aborts the turn the case    *)
(* still has in the registry and takes its place.                          *)
Begin(t) ==
  LET c == TurnCase[t]
  IN  /\ pc[t] = "started"
      /\ Goto(t, "asking")
      /\ NoteAlone(t)
      /\ aborted' = aborted \cup ({turns[c]} \ {NoTurn})
      /\ turns' = [turns EXCEPT ![c] = t]
      /\ UNCHANGED <<database, work, money, process, trouble, ending, stopPc>>

-----------------------------------------------------------------------------
(* generateText: at most MaxSteps model steps.                             *)

(* onStepFinish: the proxy may or may not report what the step cost.       *)
FinishStep(t) ==
  /\ steps' = [steps EXCEPT ![t] = @ + 1]
  /\ \/ \E usd \in StepCosts :
          /\ spentInSteps' = [spentInSteps EXCEPT ![t] = @ + usd]
          /\ metered' = metered \cup {t}
     \/ UNCHANGED <<spentInSteps, metered>>

(* The model asks for a tool; the step wrapper appends tool_start.         *)
CallTool(t) ==
  /\ pc[t] = "asking"
  /\ Goto(t, "tooling")
  /\ UNCHANGED <<database, work, money, control, process, trouble, ending, stopPc>>

(* The signal the next model request looks at.                             *)
SignalAborted(t) == t \in aborted

(* Mutant: the ceiling looks at the steps finished before this one.        *)
LastStepLate(t) == steps[t] = MaxSteps

(* stopWhen: stepCountIs(12).                                              *)
LastStep(t) == steps'[t] = MaxSteps

(* tool_end is appended and the step is finished.  A tool is not given the *)
(* signal, so an aborted turn stops only here, at the next model request;  *)
(* the last allowed step leaves the turn exhausted.                        *)
FinishTool(t) ==
  /\ pc[t] = "tooling"
  /\ FinishStep(t)
  /\ \/ /\ LastStep(t)
        /\ ending' = [ending EXCEPT ![t] = "exhausted"]
        /\ Goto(t, "answered")
     \/ /\ ~LastStep(t)
        /\ SignalAborted(t)
        /\ ending' = [ending EXCEPT ![t] = "abort"]
        /\ Goto(t, "caught")
     \/ /\ ~LastStep(t)
        /\ ~SignalAborted(t)
        /\ Goto(t, "asking")
        /\ UNCHANGED ending
  /\ UNCHANGED <<database, money, control, process, trouble, stopPc>>

(* The model answers without asking for a tool.  An answer that arrived    *)
(* before the signal is still taken.                                       *)
Answer(t) ==
  /\ pc[t] = "asking"
  /\ FinishStep(t)
  /\ ending' = [ending EXCEPT ![t] = "success"]
  /\ Goto(t, "answered")
  /\ UNCHANGED <<database, money, control, process, trouble, stopPc>>

(* An aborted request rejects; the step in flight reports no cost.         *)
AbortRequest(t) ==
  /\ pc[t] = "asking"
  /\ SignalAborted(t)
  /\ ending' = [ending EXCEPT ![t] = "abort"]
  /\ Goto(t, "caught")
  /\ UNCHANGED <<database, work, money, control, process, trouble, stopPc>>

(* The provider fails.  wasAborted judges the exception by its name and by *)
(* the word "abort" in its message, so a failure may be read as an abort.  *)
ModelFails(t) ==
  /\ pc[t] = "asking"
  /\ \E how \in {"failure", "abort"} : ending' = [ending EXCEPT ![t] = how]
  /\ Goto(t, "caught")
  /\ UNCHANGED <<database, work, money, control, process, trouble, stopPc>>

-----------------------------------------------------------------------------
(* The try block after generateText.                                       *)

(* Mutant: the estimate of an unpriced turn never reaches the cost event.  *)
RecordPricedCost(t) ==
  /\ pc[t] = "answered"
  /\ billed' = [billed EXCEPT ![t] = @ + spentInSteps[t]]
  /\ Goto(t, "costed")
  /\ UNCHANGED <<database, work, added, control, process, trouble, ending, stopPc>>

(* The assistant event, then the cost event when there is a cost.          *)
RecordCost(t) ==
  /\ pc[t] = "answered"
  /\ billed' = [billed EXCEPT ![t] = @ + TurnCost(t)]
  /\ Goto(t, "costed")
  /\ UNCHANGED <<database, work, added, control, process, trouble, ending, stopPc>>

(* finishReason tells a turn that ran out of steps from one that ended.    *)
LogEnd(t) ==
  /\ pc[t] = "costed"
  /\ LogLifecycle(TurnCase[t], IF ending[t] = "exhausted" THEN "exhausted" ELSE "end")
  /\ Goto(t, "ended")
  /\ UNCHANGED <<status, reason, work, money, control, process, trouble, ending, stopPc>>

(* One update closes the case and adds the cost, only while it is working. *)
CloseDone(t) ==
  /\ pc[t] = "ended"
  /\ Close(TurnCase[t], "done", "none")
  /\ added' = IF MayClose(TurnCase[t])
              THEN [added EXCEPT ![t] = @ + TurnCost(t)] ELSE added
  /\ Goto(t, "settled")
  /\ UNCHANGED <<lifecycle, work, billed, control, process, trouble, ending, stopPc>>

-----------------------------------------------------------------------------
(* The catch block.                                                        *)

BillPartly(t) ==
  /\ pc[t] = "caught"
  /\ spentInSteps[t] > 0
  /\ billed' = [billed EXCEPT ![t] = @ + spentInSteps[t]]
  /\ Goto(t, "partlyBilled")
  /\ UNCHANGED <<database, work, added, control, process, trouble, ending, stopPc>>

(* This update of cost_usd does not look at the status.                    *)
AddPartly(t) ==
  /\ pc[t] = "partlyBilled"
  /\ added' = [added EXCEPT ![t] = @ + spentInSteps[t]]
  /\ Goto(t, "partlyAdded")
  /\ UNCHANGED <<database, work, billed, control, process, trouble, ending, stopPc>>

(* Mutant: an aborted or failed turn may leave without billing its steps.  *)
AccountedAtOnce(t) == pc[t] \in {"caught", "partlyAdded"}

(* Mutant: a turn that spent nothing never leaves the catch block.         *)
AccountedWhenBilled(t) == pc[t] = "partlyAdded"

(* What was spent is on record, or nothing was spent.                      *)
Accounted(t) == pc[t] = "partlyAdded" \/ (pc[t] = "caught" /\ spentInSteps[t] = 0)

(* An abort writes no status: whoever aborted is trusted to have done it.  *)
ReturnAborted(t) ==
  /\ Accounted(t)
  /\ ending[t] = "abort"
  /\ Goto(t, "finally")
  /\ UNCHANGED <<database, work, money, control, process, trouble, ending, stopPc>>

(* Mutant: the failure is logged and the status of the case is forgotten.  *)
LogFailedOnly(t) ==
  /\ Accounted(t)
  /\ ending[t] = "failure"
  /\ LogLifecycle(TurnCase[t], "failed")
  /\ Goto(t, "finally")
  /\ UNCHANGED <<status, reason, work, money, control, process, trouble, ending, stopPc>>

LogFailed(t) ==
  /\ Accounted(t)
  /\ ending[t] = "failure"
  /\ LogLifecycle(TurnCase[t], "failed")
  /\ Goto(t, "failed")
  /\ UNCHANGED <<status, reason, work, money, control, process, trouble, ending, stopPc>>

CloseFailed(t) ==
  /\ pc[t] = "failed"
  /\ Close(TurnCase[t], "failed", "failure")
  /\ Goto(t, "finally")
  /\ UNCHANGED <<lifecycle, work, money, control, process, trouble, ending, stopPc>>

-----------------------------------------------------------------------------
(* finally: endTurn deletes whatever controller the case has.              *)

(* Mutant: the controller stays behind.                                    *)
DeregisterNothing(c) == UNCHANGED turns

Deregister(c) == turns' = [turns EXCEPT ![c] = NoTurn]

EndTurn(t) ==
  /\ pc[t] \in {"settled", "finally"}
  /\ Deregister(TurnCase[t])
  /\ Goto(t, "closed")
  /\ UNCHANGED <<database, work, money, aborted, alone, process, trouble, ending, stopPc>>

-----------------------------------------------------------------------------
(* POST stop.                                                              *)

(* Mutant: the controller is forgotten and its signal never given.         *)
StopForgets(s) ==
  /\ migration = "ready"
  /\ stopPc[s] = "idle"
  /\ Deregister(StopCase[s])
  /\ stopPc' = [stopPc EXCEPT ![s] = "aborting"]
  /\ UNCHANGED <<database, work, money, aborted, alone, process, trouble, pc, ending>>

(* stopTurn: abort the registered controller, if any, and forget it.       *)
StopAbort(s) ==
  LET c == StopCase[s]
  IN  /\ migration = "ready"
      /\ stopPc[s] = "idle"
      /\ aborted' = aborted \cup ({turns[c]} \ {NoTurn})
      /\ Deregister(c)
      /\ stopPc' = [stopPc EXCEPT ![s] = "aborting"]
      /\ UNCHANGED <<database, work, money, alone, process, trouble, pc, ending>>

StopMark(s) ==
  /\ stopPc[s] = "aborting"
  /\ Close(StopCase[s], "stopped", "stopped-by-you")
  /\ stopPc' = [stopPc EXCEPT ![s] = "marked"]
  /\ UNCHANGED <<lifecycle, work, money, control, process, trouble, pc, ending>>

(* Mutant: the stopped event is appended only when the case is stopped.    *)
StopLogIfClosed(s) ==
  /\ stopPc[s] = "marked"
  /\ IF status[StopCase[s]] = "stopped"
     THEN LogLifecycle(StopCase[s], "stopped") ELSE UNCHANGED lifecycle
  /\ stopPc' = [stopPc EXCEPT ![s] = "done"]
  /\ UNCHANGED <<status, reason, work, money, control, process, trouble, pc, ending>>

(* The stopped event is appended whether or not a row was closed.          *)
StopLog(s) ==
  /\ stopPc[s] = "marked"
  /\ LogLifecycle(StopCase[s], "stopped")
  /\ stopPc' = [stopPc EXCEPT ![s] = "done"]
  /\ UNCHANGED <<status, reason, work, money, control, process, trouble, pc, ending>>

-----------------------------------------------------------------------------
(* A database call fails: where the exception lands.                       *)

Fault(r) == /\ faults < MaxFaults
            /\ faults' = faults + 1
            /\ faulted' = faulted \cup {r}

(* In the request: it answers 500, and what it wrote so far stays.         *)
RequestFails(t) ==
  /\ pc[t] \in Asked \cup Prelude
  /\ Fault(t)
  /\ Goto(t, "errored")
  /\ UNCHANGED <<database, work, money, control, process, ending, stopPc>>

(* In the try block: the catch block runs, cost event written or not.      *)
ClosingFails(t) ==
  /\ pc[t] \in Closing
  /\ Fault(t)
  /\ \E how \in {"failure", "abort"} : ending' = [ending EXCEPT ![t] = how]
  /\ Goto(t, "caught")
  /\ UNCHANGED <<database, work, money, control, process, stopPc>>

(* In the catch block: straight to finally.                                *)
CatchingFails(t) ==
  /\ pc[t] \in Catching
  /\ Fault(t)
  /\ Goto(t, "finally")
  /\ UNCHANGED <<database, work, money, control, process, ending, stopPc>>

StopFails(s) ==
  /\ stopPc[s] \in {"aborting", "marked"}
  /\ Fault(s)
  /\ stopPc' = [stopPc EXCEPT ![s] = "errored"]
  /\ UNCHANGED <<database, work, money, control, process, pc, ending>>

-----------------------------------------------------------------------------
TurnRequest(t) == Admit(t) \/ RefuseOverLimit(t)

TurnStep(t) ==
  \/ LogPrompt(t) \/ MarkWorking(t) \/ LogStart(t) \/ Begin(t)
  \/ CallTool(t) \/ FinishTool(t) \/ Answer(t) \/ AbortRequest(t) \/ ModelFails(t)
  \/ RecordCost(t) \/ LogEnd(t) \/ CloseDone(t)
  \/ BillPartly(t) \/ AddPartly(t) \/ ReturnAborted(t) \/ LogFailed(t) \/ CloseFailed(t)
  \/ EndTurn(t)

TurnFault(t) == RequestFails(t) \/ ClosingFails(t) \/ CatchingFails(t)

StopStep(s) == StopMark(s) \/ StopLog(s)

Next ==
  \/ Migrate \/ MigrateFails \/ OtherProcessMigrates \/ Restart
  \/ \E t \in Turns : TurnRequest(t) \/ TurnStep(t) \/ TurnFault(t)
  \/ \E s \in Stops : StopAbort(s) \/ StopStep(s) \/ StopFails(s)

Spec == Init /\ [][Next]_vars

(* The event loop of the process runs every continuation that is ready;    *)
(* the provider answers or its connection fails, a tool returns or throws  *)
(* (the runtime sets no deadline of its own on the model).  Nobody has to  *)
(* send a request, restart the process or fail.                            *)
Fairness ==
  /\ WF_vars(Migrate)
  /\ \A t \in Turns : WF_vars(TurnStep(t))
  /\ \A s \in Stops : WF_vars(StopStep(s))

FairSpec == Spec /\ Fairness

-----------------------------------------------------------------------------
(* Safety.                                                                 *)

(* The controller "stop" would find belongs to a turn of that case which   *)
(* has begun, has not ended, and was not aborted before (turn-control.ts). *)
RegistryHoldsLiveTurn ==
  \A c \in Cases : turns[c] # NoTurn =>
    /\ TurnCase[turns[c]] = c
    /\ pc[turns[c]] \in Begun
    /\ turns[c] \notin aborted

(* wasAborted took a failure nobody asked for as an abort.                 *)
Misread(t) == ending[t] = "abort" /\ t \notin aborted

(* A restart, a failed database call or a misread failure hit the case.    *)
Damaged(c) ==
  \/ \E t \in TurnsOf(c) : pc[t] = "lost" \/ t \in faulted \/ Misread(t)
  \/ \E s \in StopsOf(c) : stopPc[s] = "lost" \/ s \in faulted

(* A case shown as working has a turn that will still close it, or a stop  *)
(* about to close it; only damage leaves it working with nobody at work.   *)
NoOrphanWorking ==
  \A c \in Cases : status[c] = "working" =>
    \/ \E t \in TurnsOf(c) : pc[t] \in Busy /\ t \notin aborted
    \/ \E s \in StopsOf(c) : stopPc[s] = "aborting"
    \/ Damaged(c)

(* What a finished turn owes: the steps the proxy priced, or the estimate  *)
(* of a turn that came to an answer without a price.                       *)
Due(t) == IF ending[t] \in {"success", "exhausted"} THEN TurnCost(t) ELSE spentInSteps[t]

(* However a turn ended, its cost events sum up to what it owes, unless a  *)
(* database call failed under it: the daily limit counts these events.     *)
ClosedTurnIsBilled ==
  \A t \in Turns : pc[t] = "closed" /\ t \notin faulted => billed[t] = Due(t)

(* case_file.cost_usd never runs ahead of the cost events it stands beside:*)
(* no turn adds to the column more than it put on record, faults included. *)
ColumnNeverAhead == \A t \in Turns : added[t] <= billed[t]

(* The turn still has its ending to tell: nobody gave it its signal, or it *)
(* has its answer or its failure and no signal can keep it from telling.   *)
Telling(t) ==
  \/ pc[t] = "started"
  \/ pc[t] \in Generating /\ t \notin aborted
  \/ pc[t] \in {"answered", "costed"}
  \/ pc[t] \in {"caught", "partlyBilled", "partlyAdded"} /\ ending[t] = "failure"

(* What history says began is still told to an end, by a turn or by a stop *)
(* of the case: an abort tells nothing itself and trusts whoever aborted,  *)
(* so the stopped event has to be appended even when another turn closed   *)
(* the case before, and only damage leaves a beginning without an end.     *)
HistoryIsClosed ==
  \A c \in Cases : lifecycle[c] = "start" =>
    \/ \E t \in TurnsOf(c) : Telling(t)
    \/ \E s \in StopsOf(c) : stopPc[s] \in {"aborting", "marked"}
    \/ Damaged(c)

(* turn-control.ts: "the one place where stop really stops" is true of the *)
(* turns that began alone: a stop request gives every one of them that is  *)
(* generating its signal (StopReallyStops, below, asks it of all turns).   *)
StopReachesWhoBeganAlone ==
  [][\A s \in Stops : stopPc[s] = "idle" /\ stopPc'[s] = "aborting" =>
       \A t \in TurnsOf(StopCase[s]) \cap alone :
         pc[t] \in Generating => t \in aborted']_vars

(* The case file keeps its promise: an ending is never rewritten into      *)
(* another ending, whatever turns, stops and restarts interleave.          *)
CaseFileSpec == CF!Spec

-----------------------------------------------------------------------------
(* Liveness, under FairSpec.                                               *)

(* A turn whose work is detached reaches its finally block.                *)
TurnCloses == \A t \in Turns : pc[t] \in Begun ~> pc[t] \in Over

(* A working case does not stay working, unless it is damaged.             *)
WorkSettles == \A c \in Cases : status[c] = "working" ~> status[c] # "working" \/ Damaged(c)

-----------------------------------------------------------------------------
(* What comments of the code say, and the code does not do.                *)

(* turn-control.ts: "the one place where stop really stops".  A stop       *)
(* request aborts every turn of its case that is generating.               *)
StopReallyStops ==
  [][\A s \in Stops : stopPc[s] = "idle" /\ stopPc'[s] = "aborting" =>
       \A t \in TurnsOf(StopCase[s]) : pc[t] \in Generating => t \in aborted']_vars

(* db.ts: a turn cut off by a restart of the process must not stay working *)
(* for ever.                                                               *)
LostTurnIsReaped ==
  \A t \in Turns : pc[t] = "lost" ~> status[TurnCase[t]] # "working"
=============================================================================
