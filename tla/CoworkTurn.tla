------------------------------ MODULE CoworkTurn ------------------------------
(***************************************************************************)
(* The turns of one session of the Cowork chat                             *)
(* (app/idp/features/cortex-cowork/server/chat-engine.ts, sandbox-store.ts *)
(* and the routes that call them): a request reads the session from disk,  *)
(* records the message, spawns a process that works in the sandbox of the  *)
(* session, registers the files it left, records the answer and the usage. *)
(*                                                                         *)
(* A request keeps its own copy of the session and saves the whole of it   *)
(* each time, so an action is what happens between two calls to the disk.  *)
(* The child process may write, crash, end without a result, or run over   *)
(* its time; then it is told to end and may write on for a while.  A save  *)
(* empties the file before it writes it, and may fail at either.  The      *)
(* session may be deleted at any moment, directory and all; the process is *)
(* taken not to make the directory anew.                                   *)
(*                                                                         *)
(* The order of messages and what they say are left out, as are prompts,   *)
(* credentials, the events streamed while the process runs, and a crash of *)
(* the shell itself.                                                       *)
(***************************************************************************)
EXTENDS FiniteSets, Naturals

CONSTANTS
  Turns,      \* requests POST .../messages and .../messages/stream
  Files,      \* names the process may write in artifacts/
  MaxFaults   \* bound: saves that fail on a disk that is there

ASSUME NamesAssumption == Files \cap Turns = {}

ASSUME BoundAssumption == MaxFaults \in Nat

VARIABLES
  saved,      \* session.json: the messages and artifacts it held when last whole
  shape,      \* session.json is whole, emptied by a save, or torn
  deleted,    \* the sandbox is gone
  files,      \* artifacts/
  pc,         \* per turn: where its request is
  copy,       \* per turn: the session in its memory
  writing,    \* turns whose save has emptied the file and not yet written it
  attempt,    \* per turn: which attempt runs, 1 or 2
  before,     \* per turn: artifacts/ before the attempt
  fresh,      \* per turn: new files still to be registered
  child,      \* per turn: its process
  faults,     \* counted against MaxFaults
  crossed,    \* history: turns that ran beside another turn or process
  unsaved     \* history: turns a save of which failed

json    == <<saved, shape>>
store   == <<json, deleted, files>>
local   == <<copy, writing, attempt, before, fresh>>
history == <<crossed, unsaved>>

vars == <<store, pc, local, child, faults, history>>

-----------------------------------------------------------------------------

(* The file the keyword fallback writes is named by the millisecond: here, *)
(* by its turn.                                                            *)
Names == Files \cup Turns

Message(t, kind) == [turn |-> t, kind |-> kind]

Messages == {Message(t, kind) : t \in Turns, kind \in {"user", "reply", "degraded"}}

(* An artifact is registered with an id of its own: here, by whom.         *)
Artifacts == {[file |-> f, by |-> t] : f \in Names, t \in Turns}

EmptySession == [messages |-> {}, artifacts |-> {}]

Over == {"idle", "done", "errored"}

Live(t) == pc[t] \notin Over

Busy(t) == Live(t) \/ child[t] # "none"

Init == /\ saved = EmptySession
        /\ shape = "whole"
        /\ deleted = FALSE
        /\ files = {}
        /\ pc = [t \in Turns |-> "idle"]
        /\ copy = [t \in Turns |-> EmptySession]
        /\ writing = {}
        /\ attempt = [t \in Turns |-> 0]
        /\ before = [t \in Turns |-> {}]
        /\ fresh = [t \in Turns |-> {}]
        /\ child = [t \in Turns |-> "none"]
        /\ faults = 0
        /\ crossed = {} /\ unsaved = {}

Goto(t, where) == pc' = [pc EXCEPT ![t] = where]

-----------------------------------------------------------------------------
(* Saving.                                                                 *)

WithMessage(t, kind) ==
  [copy[t] EXCEPT !.messages = @ \cup {Message(t, kind)}]

(* Mutant: an artifact replaces the list instead of joining it.            *)
OnlyArtifact(t, f) ==
  [copy[t] EXCEPT !.artifacts = {[file |-> f, by |-> t]}]

WithArtifact(t, f) ==
  [copy[t] EXCEPT !.artifacts = @ \cup {[file |-> f, by |-> t]}]

Fault(t, otherwise) ==
  /\ faults' = IF deleted THEN faults ELSE faults + 1
  /\ unsaved' = unsaved \cup {t}
  /\ Goto(t, otherwise)

(* writeFile opens the file first, which empties it; nobody locks it.      *)
Truncate(t) ==
  /\ t \notin writing
  /\ ~deleted
  /\ shape' = "empty"
  /\ writing' = writing \cup {t}
  /\ UNCHANGED <<saved, pc, copy, faults, unsaved>>

(* Then it writes the whole session of the request, from the beginning of  *)
(* the file.  Over what another save wrote meanwhile, a rest of the longer *)
(* one may remain; into a deleted file the write succeeds.                 *)
Fill(t, session, then) ==
  /\ t \in writing
  /\ writing' = writing \ {t}
  /\ copy' = [copy EXCEPT ![t] = session]
  /\ Goto(t, then)
  /\ \/ ~deleted /\ saved' = session /\ shape' = "whole"
     \/ ~deleted /\ shape # "empty" /\ shape' = "torn" /\ UNCHANGED saved
     \/ deleted /\ UNCHANGED json
  /\ UNCHANGED <<faults, unsaved>>

(* Either fails: the file is as it was before the call, or torn.  The copy *)
(* in memory, which only its own request sees, keeps the change.           *)
Fail(t, session, otherwise) ==
  /\ IF t \in writing THEN ~deleted /\ shape' \in {shape, "torn"} ELSE UNCHANGED shape
  /\ deleted \/ faults < MaxFaults
  /\ writing' = writing \ {t}
  /\ copy' = [copy EXCEPT ![t] = session]
  /\ Fault(t, otherwise)
  /\ UNCHANGED saved

(* The whole session of the request replaces what is on disk.              *)
Save(t, session, then, otherwise) ==
  /\ Truncate(t) \/ Fill(t, session, then) \/ Fail(t, session, otherwise)
  /\ UNCHANGED <<deleted, files, attempt, before, child, crossed>>

-----------------------------------------------------------------------------
(* The request.                                                            *)

(* Mutant: a request starts from an empty session.                         *)
OpenedEmpty == EmptySession

(* What getSandboxSession reads.                                           *)
Opened == saved

(* requireSessionAccess: no session that can be read, no turn.             *)
Open(t) ==
  /\ pc[t] = "idle"
  /\ ~deleted /\ shape = "whole"
  /\ copy' = [copy EXCEPT ![t] = Opened]
  /\ Goto(t, "opened")
  /\ LET beside == {q \in Turns \ {t} : Busy(q)}
     IN  crossed' = crossed \cup beside \cup (IF beside = {} THEN {} ELSE {t})
  /\ UNCHANGED <<store, writing, attempt, before, fresh, child, faults, unsaved>>

(* recordUserMessage                                                       *)
RecordUserMessage(t) ==
  /\ pc[t] = "opened"
  /\ Save(t, WithMessage(t, "user"), "asked", "errored")
  /\ UNCHANGED fresh

(* runFlueTurn: artifacts/ is listed and the process is spawned.           *)
StartAttempt(t) ==
  /\ pc[t] = "asked"
  /\ attempt' = [attempt EXCEPT ![t] = @ + 1]
  /\ before' = [before EXCEPT ![t] = files]
  /\ child' = [child EXCEPT ![t] = "running"]
  /\ Goto(t, "running")
  /\ UNCHANGED <<store, copy, writing, fresh, faults, history>>

(* The configuration cannot be read or the binary is missing: retrying     *)
(* would fail alike.                                                       *)
SpawnFails(t) ==
  /\ pc[t] = "asked"
  /\ Goto(t, "falling")
  /\ UNCHANGED <<store, local, child, faults, history>>

(* The process writes a file of any name.                                  *)
ChildWrites(t, f) ==
  /\ child[t] # "none"
  /\ ~deleted
  /\ files' = files \cup {f}
  /\ UNCHANGED <<json, deleted, pc, local, child, faults, history>>

EndChild(t) == child' = [child EXCEPT ![t] = "none"]

(* Exit code 0 with a result line.                                         *)
ChildEnds(t) ==
  /\ pc[t] = "running"
  /\ EndChild(t)
  /\ Goto(t, "ran")
  /\ UNCHANGED <<store, local, faults, history>>

(* Mutant: every crash is worth another attempt.                           *)
AlwaysRetry(t) == TRUE

MayRetry(t) == attempt[t] = 1

(* A non-zero exit is worth one more attempt, once.                        *)
ChildCrashes(t) ==
  /\ pc[t] = "running"
  /\ EndChild(t)
  /\ Goto(t, IF MayRetry(t) THEN "asked" ELSE "falling")
  /\ UNCHANGED <<store, local, faults, history>>

(* Exit code 0 without a result line: no retry.                            *)
ChildSaysNothing(t) ==
  /\ pc[t] = "running"
  /\ EndChild(t)
  /\ Goto(t, "falling")
  /\ UNCHANGED <<store, local, faults, history>>

(* Mutant: the deadline holds until the turn is answered.                  *)
RunsUntilAnswered(t) == pc[t] \in {"running", "ran", "registering", "metering"}

(* Mutant: an attempt has no deadline.                                     *)
NoTimer(t) == FALSE

(* The timer is cleared when the process closes.                           *)
TimerRuns(t) == pc[t] = "running"

(* Out of time: the process is told to end, and the request does not wait  *)
(* for it.                                                                 *)
TimeOut(t) ==
  /\ TimerRuns(t)
  /\ child' = [child EXCEPT ![t] = "dying"]
  /\ Goto(t, "falling")
  /\ UNCHANGED <<store, local, faults, history>>

(* SIGTERM, and SIGKILL ten seconds later.                                 *)
ChildDies(t) ==
  /\ child[t] = "dying"
  /\ EndChild(t)
  /\ UNCHANGED <<store, pc, local, faults, history>>

(* Mutant: every file is registered, new or not.                           *)
AllFiles(t) == files

NewFiles(t) == files \ before[t]

(* registerNewArtifacts: what is new in artifacts/ since the attempt began.*)
ListNewFiles(t) ==
  /\ pc[t] = "ran"
  /\ fresh' = [fresh EXCEPT ![t] = NewFiles(t)]
  /\ Goto(t, "registering")
  /\ UNCHANGED <<store, copy, writing, attempt, before, child, faults, history>>

Register(t, f) ==
  /\ pc[t] = "registering"
  /\ f \in fresh[t]
  /\ fresh' = IF t \in writing THEN [fresh EXCEPT ![t] = @ \ {f}] ELSE fresh
  /\ Save(t, WithArtifact(t, f), "registering", "falling")

(* A file that is gone when it is looked at is passed over.                *)
PassOver(t, f) ==
  /\ pc[t] = "registering" /\ t \notin writing
  /\ f \in fresh[t] \ files
  /\ fresh' = [fresh EXCEPT ![t] = @ \ {f}]
  /\ UNCHANGED <<store, pc, copy, writing, attempt, before, child, faults, history>>

(* Mutant: the answer does not wait for the files to be registered.        *)
AppendReplyAtOnce(t) ==
  /\ pc[t] = "registering"
  /\ Save(t, WithMessage(t, "reply"), "metering", "falling")
  /\ UNCHANGED fresh

(* appendMessage; a failure here or below is answered by the fallback.     *)
AppendReply(t) ==
  /\ pc[t] = "registering"
  /\ fresh[t] = {}
  /\ Save(t, WithMessage(t, "reply"), "metering", "falling")
  /\ UNCHANGED fresh

(* recordUsage, when the process reported any.                             *)
RecordUsage(t) ==
  /\ pc[t] = "metering"
  /\ Save(t, copy[t], "done", "falling")
  /\ UNCHANGED fresh

SkipUsage(t) ==
  /\ pc[t] = "metering" /\ t \notin writing
  /\ Goto(t, "done")
  /\ UNCHANGED <<store, local, child, faults, history>>

(* runKeywordFallback: a file of its own when the words ask for one...     *)
FallbackWrites(t) ==
  /\ pc[t] = "falling" /\ t \notin writing
  /\ IF deleted
     THEN Goto(t, "errored") /\ UNCHANGED files
     ELSE Goto(t, "fallenWithFile") /\ files' = files \cup {t}
  /\ UNCHANGED <<json, deleted, local, child, faults, history>>

FallbackRegisters(t) ==
  /\ pc[t] = "fallenWithFile"
  /\ Save(t, WithArtifact(t, t), "fallen", "errored")
  /\ UNCHANGED fresh

(* ... and a degraded answer.                                              *)
FallbackReplies(t) ==
  /\ pc[t] \in {"falling", "fallen"}
  /\ Save(t, WithMessage(t, "degraded"), "done", "errored")
  /\ UNCHANGED fresh

(* deleteSandboxSession: the directory with everything in it.              *)
Delete ==
  /\ ~deleted
  /\ deleted' = TRUE
  /\ saved' = EmptySession /\ shape' = "empty"
  /\ files' = {}
  /\ UNCHANGED <<pc, local, child, faults, history>>

Continues(t) == \/ RecordUserMessage(t)
                \/ StartAttempt(t) \/ SpawnFails(t) \/ TimeOut(t)
                \/ ListNewFiles(t)
                \/ \E f \in Names : Register(t, f) \/ PassOver(t, f)
                \/ AppendReply(t) \/ RecordUsage(t) \/ SkipUsage(t)
                \/ FallbackWrites(t) \/ FallbackRegisters(t) \/ FallbackReplies(t)

ChildSteps(t) == \/ ChildEnds(t) \/ ChildCrashes(t) \/ ChildSaysNothing(t) \/ ChildDies(t)
                 \/ \E f \in Files : ChildWrites(t, f)

Next == \/ \E t \in Turns : Open(t) \/ Continues(t) \/ ChildSteps(t)
        \/ Delete

Spec == Init /\ [][Next]_vars

(* A continuation that is ready runs, the timer's among them.  Nothing is  *)
(* asked of the process.                                                   *)
FairSpec == Spec /\ \A t \in Turns : WF_vars(Continues(t))

-----------------------------------------------------------------------------

Sessions == [messages : SUBSET Messages, artifacts : SUBSET Artifacts]

TypeOK ==
  /\ saved \in Sessions /\ shape \in {"whole", "empty", "torn"}
  /\ deleted \in BOOLEAN
  /\ files \subseteq Names
  /\ pc \in [Turns -> Over \cup {"opened", "asked", "running", "ran", "registering",
                                 "metering", "falling", "fallenWithFile", "fallen"}]
  /\ copy \in [Turns -> Sessions] /\ writing \subseteq Turns
  /\ attempt \in [Turns -> 0..2]
  /\ before \in [Turns -> SUBSET Names]
  /\ fresh \in [Turns -> SUBSET Names]
  /\ child \in [Turns -> {"none", "running", "dying"}]
  /\ faults \in 0..MaxFaults
  /\ crossed \subseteq Turns /\ unsaved \subseteq Turns

(* One message, one answer: the fallback answers beside the model only     *)
(* when a save of the turn failed after the model had answered.            *)
AnsweredOnce ==
  \A t \in Turns \ unsaved : ~({Message(t, "reply"), Message(t, "degraded")} \subseteq saved.messages)

(* A turn that reached its end without a failed save is on disk with its   *)
(* question and its answer, whatever became of it on the way, until the    *)
(* session is deleted.  That the file cannot be read at all is always      *)
(* another turn's doing: one that saves this moment, one a save of which   *)
(* failed (it may leave the file so for good), or turns beside each other. *)
FinishedTurnIsKept ==
  \A t \in Turns \ (crossed \cup unsaved) :
    pc[t] = "done" /\ ~deleted
      => IF shape = "whole"
         THEN /\ Message(t, "user") \in saved.messages
              /\ \E kind \in {"reply", "degraded"} : Message(t, kind) \in saved.messages
         ELSE \E q \in Turns \ {t} : q \in writing \cup unsaved \cup crossed

Listed == {a.file : a \in saved.artifacts}

(* When the model's answer is recorded, every file that came up since the  *)
(* attempt that gave it began is registered, whatever the attempt before,  *)
(* other turns' processes told to end and failed saves did; only turns     *)
(* beside each other spoil it.                                             *)
AnswerListsItsFiles ==
  \A t \in Turns \ crossed : pc[t] = "metering" => files \ before[t] \subseteq Listed

(* A file is registered by two turns only when they ran beside each other. *)
ListedOnce ==
  \A a, b \in saved.artifacts : a.file = b.file /\ a.by # b.by => {a.by, b.by} \subseteq crossed

(* What turn t has in a session.                                           *)
By(t, session) ==
  {m \in session.messages : m.turn = t} \cup {a \in session.artifacts : a.by = t}

(* p ran beside another turn, and one that runs did too.                   *)
MayLose(p) == p \in crossed /\ \E t \in crossed \ {p} : Live(t)

(* From one whole file to the next a turn loses what it had there only     *)
(* when it ran beside another one, and to a turn that still runs, is       *)
(* another and crossed a turn too: no save of a turn takes its own words   *)
(* back, and a turn that ran alone takes nothing from anybody.  A failed   *)
(* save may leave no whole file behind; the next that succeeds brings all  *)
(* of it back.                                                             *)
OnlyCrossedTurnsLose ==
  [][~deleted' => \A p \in Turns : By(p, saved) \subseteq By(p, saved') \/ MayLose(p)]_vars

(* Every request is answered, whatever its process does and whoever        *)
(* deletes the session: at most two attempts, each cut by the timer, and   *)
(* then the fallback.                                                      *)
EveryTurnEnds == \A t \in Turns : []<>~Live(t)
=============================================================================
