--------------------------- MODULE CoworkTurnProofs ---------------------------
(* Proofs about CoworkTurn, for every number of turns and files.           *)
EXTENDS CoworkTurn, TLAPS

-----------------------------------------------------------------------------
(* Types.  TypeOK is not inductive: a third attempt would break it.  It is *)
(* ruled out by where a turn is when it may start one.                     *)

AttemptsLeft ==
  \A t \in Turns : /\ pc[t] \in {"idle", "opened"} => attempt[t] = 0
                   /\ pc[t] = "asked" => attempt[t] \in 0..1

Inv == TypeOK /\ AttemptsLeft

(* What is added to the copy of a turn.                                    *)
LEMMA CopyGrows ==
  ASSUME TypeOK, NEW t \in Turns
  PROVE  /\ \A kind \in {"user", "reply", "degraded"} :
              /\ WithMessage(t, kind) \in Sessions
              /\ WithMessage(t, kind).messages = copy[t].messages \cup {Message(t, kind)}
              /\ WithMessage(t, kind).artifacts = copy[t].artifacts
         /\ \A f \in Names :
              /\ WithArtifact(t, f) \in Sessions
              /\ WithArtifact(t, f).artifacts = copy[t].artifacts \cup {[file |-> f, by |-> t]}
              /\ WithArtifact(t, f).messages = copy[t].messages
<1>1. copy[t] \in Sessions
  BY DEF TypeOK
<1>2. \A kind \in {"user", "reply", "degraded"} : Message(t, kind) \in Messages
  BY DEF Messages
<1>3. \A f \in Names : [file |-> f, by |-> t] \in Artifacts
  BY DEF Artifacts
<1>4. \A k \in Messages : /\ [copy[t] EXCEPT !.messages = @ \cup {k}] \in Sessions
                          /\ [copy[t] EXCEPT !.messages = @ \cup {k}].messages = copy[t].messages \cup {k}
                          /\ [copy[t] EXCEPT !.messages = @ \cup {k}].artifacts = copy[t].artifacts
  BY <1>1 DEF Sessions
<1>5. \A a \in Artifacts : /\ [copy[t] EXCEPT !.artifacts = @ \cup {a}] \in Sessions
                           /\ [copy[t] EXCEPT !.artifacts = @ \cup {a}].artifacts = copy[t].artifacts \cup {a}
                           /\ [copy[t] EXCEPT !.artifacts = @ \cup {a}].messages = copy[t].messages
  BY <1>1 DEF Sessions
<1> QED
  BY <1>2, <1>3, <1>4, <1>5 DEF WithMessage, WithArtifact

(* A save that lands: it succeeds, it is lost on a file that is not empty  *)
(* any more or on none, or it fails.                                       *)
LEMMA SaveEither ==
  ASSUME TypeOK, NEW t \in Turns, NEW s \in Sessions, NEW then, NEW otherwise,
         Save(t, s, then, otherwise), ~Truncate(t)
  PROVE  /\ copy' = [copy EXCEPT ![t] = s]
         /\ \/ /\ saved' = s /\ ~deleted /\ t \in writing /\ shape' = "whole"
               /\ pc' = [pc EXCEPT ![t] = then]
               /\ unsaved' = unsaved /\ faults' = faults
            \/ /\ saved' = saved /\ t \in writing
               /\ deleted \/ (shape # "empty" /\ shape' = "torn")
               /\ pc' = [pc EXCEPT ![t] = then]
               /\ unsaved' = unsaved /\ faults' = faults
            \/ /\ saved' = saved /\ shape' \in {shape, "torn"}
               /\ pc' = [pc EXCEPT ![t] = otherwise]
               /\ unsaved' = unsaved \cup {t} /\ faults' \in 0..MaxFaults
         /\ writing' = writing \ {t} /\ shape' \in {shape, "whole", "torn"}
         /\ UNCHANGED <<deleted, files, attempt, before, child, crossed>>
<1>1. CASE Fill(t, s, then)
  BY <1>1 DEF Save, Fill, Goto, json, TypeOK
<1>2. CASE Fail(t, s, otherwise)
  BY <1>2, BoundAssumption DEF Save, Fail, Fault, Goto, TypeOK
<1> QED
  BY <1>1, <1>2 DEF Save

(* The steps that save.                                                    *)
Saves(t) ==
  \/ RecordUserMessage(t)
  \/ \E f \in Names : Register(t, f)
  \/ AppendReply(t) \/ RecordUsage(t)
  \/ FallbackRegisters(t) \/ FallbackReplies(t)

SavePlaces == {"opened", "registering", "metering", "falling", "fallenWithFile", "fallen"}

(* A save is a matter of one turn.                                         *)
LEMMA SavesOfOne ==
  ASSUME TypeOK, NEW t \in Turns, Saves(t)
  PROVE  /\ pc[t] \in SavePlaces /\ pc'[t] # "idle" /\ Live(t)
         /\ \A q \in Turns \ {t} : pc'[q] = pc[q] /\ fresh'[q] = fresh[q]
         /\ UNCHANGED <<deleted, files, attempt, before, child, crossed>>
         /\ deleted => saved' = saved
<1>1. ASSUME NEW s, NEW then, NEW otherwise, Save(t, s, then, otherwise)
      PROVE  /\ pc' \in {pc, [pc EXCEPT ![t] = then], [pc EXCEPT ![t] = otherwise]}
             /\ UNCHANGED <<deleted, files, attempt, before, child, crossed>>
             /\ deleted => saved' = saved
  BY <1>1 DEF Save, Truncate, Fill, Fail, Fault, Goto, json
<1>2. pc \in [Turns -> Over \cup {"opened", "asked", "running", "ran", "registering",
                                 "metering", "falling", "fallenWithFile", "fallen"}]
      /\ fresh \in [Turns -> SUBSET Names]
  BY DEF TypeOK
<1>3. pc[t] \in SavePlaces /\ Live(t)
  BY DEF Saves, RecordUserMessage, Register, AppendReply, RecordUsage, FallbackRegisters,
     FallbackReplies, SavePlaces, Live, Over
<1>4. \A q \in Turns \ {t} : fresh'[q] = fresh[q]
  BY <1>2 DEF Saves, RecordUserMessage, Register, AppendReply, RecordUsage, FallbackRegisters,
     FallbackReplies
<1>5. PICK s, then, otherwise :
        /\ Save(t, s, then, otherwise)
        /\ then # "idle" /\ otherwise # "idle"
  BY DEF Saves, RecordUserMessage, Register, AppendReply, RecordUsage, FallbackRegisters,
     FallbackReplies
<1>6. pc'[t] # "idle" /\ \A q \in Turns \ {t} : pc'[q] = pc[q]
  BY <1>1, <1>2, <1>3, <1>5 DEF SavePlaces
<1> QED
  BY <1>1, <1>3, <1>4, <1>5, <1>6

(* A save that has only emptied the file has moved nothing else.           *)
LEMMA EmptyingMovesNothing ==
  ASSUME NEW t \in Turns, Saves(t), Truncate(t)
  PROVE  /\ shape' = "empty" /\ t \notin writing /\ writing' = writing \cup {t}
         /\ ~deleted /\ pc[t] \in SavePlaces
         /\ UNCHANGED <<saved, deleted, files, pc, copy, attempt, before, fresh, child,
                        faults, crossed, unsaved>>
<1>1. pc[t] \in SavePlaces /\ UNCHANGED <<deleted, files, attempt, before, child, crossed>>
  BY DEF Saves, RecordUserMessage, Register, AppendReply, RecordUsage, FallbackRegisters,
     FallbackReplies, Save, SavePlaces
<1>2. fresh' = fresh
  BY DEF Saves, RecordUserMessage, Register, AppendReply, RecordUsage, FallbackRegisters,
     FallbackReplies, Truncate
<1> QED
  BY <1>1, <1>2 DEF Truncate

LEMMA SavesLand ==
  ASSUME Inv, NEW t \in Turns, Saves(t), ~Truncate(t)
  PROVE  /\ writing' = writing \ {t} /\ unsaved \subseteq unsaved'
         /\ UNCHANGED <<deleted, crossed>>
         /\ \A q \in Turns \ {t} : pc'[q] = pc[q]
         /\ \/ t \in writing /\ shape' = "whole"
            \/ t \in writing /\ (deleted \/ (shape # "empty" /\ shape' = "torn"))
            \/ t \in unsaved' /\ (t \in writing \/ shape' = shape)
<1>1. ASSUME NEW s, NEW then, NEW otherwise, Save(t, s, then, otherwise)
      PROVE  /\ writing' = writing \ {t} /\ unsaved \subseteq unsaved'
             /\ \/ t \in writing /\ shape' = "whole"
                \/ t \in writing /\ (deleted \/ (shape # "empty" /\ shape' = "torn"))
                \/ t \in unsaved' /\ (t \in writing \/ shape' = shape)
  BY <1>1 DEF Save, Fill, Fail, Fault
<1>2. PICK s, then, otherwise : Save(t, s, then, otherwise)
  BY DEF Saves, RecordUserMessage, Register, AppendReply, RecordUsage, FallbackRegisters,
     FallbackReplies
<1> QED
  BY <1>1, <1>2, SavesOfOne DEF Inv

LEMMA InvInit == Init => Inv
<1> SUFFICES ASSUME Init PROVE Inv
  OBVIOUS
<1>1. EmptySession \in Sessions
  BY DEF EmptySession, Sessions
<1>2. TypeOK
  <2>1. saved \in Sessions /\ copy \in [Turns -> Sessions]
    BY <1>1 DEF Init
  <2>2. pc \in [Turns -> Over]
    BY DEF Init, Over
  <2>3. faults \in 0..MaxFaults
    BY BoundAssumption DEF Init
  <2>4. /\ attempt \in [Turns -> 0..2]
        /\ before \in [Turns -> SUBSET Names] /\ fresh \in [Turns -> SUBSET Names]
        /\ child \in [Turns -> {"none", "running", "dying"}]
    BY DEF Init
  <2> QED
    BY <2>1, <2>2, <2>3, <2>4 DEF Init, TypeOK
<1>3. AttemptsLeft
  BY DEF Init, AttemptsLeft
<1> QED
  BY <1>2, <1>3 DEF Inv

LEMMA SaveKeepsInv == ASSUME Inv, NEW t \in Turns, Saves(t), ~Truncate(t) PROVE Inv'
<1> USE DEF Inv
<1>1. ASSUME NEW s \in Sessions, NEW then, NEW otherwise, Save(t, s, then, otherwise),
             {then, otherwise} \subseteq Over \cup {"asked", "registering", "metering",
                                                 "falling", "fallen"},
             then = "asked" => pc[t] = "opened",
             then # "idle", otherwise \notin {"idle", "asked"},
             fresh' \in [Turns -> SUBSET Names]
      PROVE  Inv'
  <2>1. /\ copy' \in [Turns -> Sessions]
        /\ saved' \in Sessions
        /\ faults' \in 0..MaxFaults
        /\ unsaved' \subseteq Turns /\ writing' \subseteq Turns
        /\ shape' \in {"whole", "empty", "torn"}
        /\ UNCHANGED <<deleted, files, attempt, before, child, crossed>>
        /\ pc' \in {[pc EXCEPT ![t] = then], [pc EXCEPT ![t] = otherwise]}
    <3>1. s \in Sessions /\ copy \in [Turns -> Sessions] /\ saved \in Sessions /\ faults \in 0..MaxFaults
      BY DEF TypeOK
    <3>2. UNCHANGED <<deleted, files, attempt, before, child, crossed>>
      BY <1>1, SaveEither
    <3> QED
      BY <1>1, <3>1, <3>2, SaveEither DEF TypeOK
  <2>2. pc' \in [Turns -> Over \cup {"opened", "asked", "running", "ran", "registering",
                                     "metering", "falling", "fallenWithFile", "fallen"}]
    BY <1>1, <2>1 DEF TypeOK
  <2>3. TypeOK'
    BY <1>1, <2>1, <2>2 DEF TypeOK
  <2>4. ASSUME NEW q \in Turns
        PROVE  /\ pc'[q] \in {"idle", "opened"} => attempt'[q] = 0
               /\ pc'[q] = "asked" => attempt'[q] \in 0..1
    <3>1. attempt'[q] = attempt[q]
      BY <2>1
    <3>2. pc'[q] = pc[q] \/ (q = t /\ pc'[q] \in {then, otherwise})
      BY <2>1 DEF TypeOK
    <3> QED
      BY <1>1, <3>1, <3>2 DEF AttemptsLeft, Over
  <2>5. AttemptsLeft'
    BY <2>4 DEF AttemptsLeft
  <2> QED
    BY <2>3, <2>5
<1>2. copy[t] \in Sessions /\ fresh[t] \subseteq Names /\ t \in Names
  BY DEF TypeOK, Names
<1>3. CASE RecordUserMessage(t)
  BY <1>1, <1>3, CopyGrows DEF RecordUserMessage, TypeOK, Over
<1>4. ASSUME NEW f \in Names, Register(t, f) PROVE Inv'
  <2>1. fresh' \in [Turns -> SUBSET Names]
    BY <1>4 DEF Register, TypeOK
  <2> QED
    BY <1>1, <1>4, <2>1, CopyGrows DEF Register, Over
<1>5. CASE AppendReply(t)
  <2>1. /\ Save(t, WithMessage(t, "reply"), "metering", "falling")
        /\ fresh' \in [Turns -> SUBSET Names] /\ WithMessage(t, "reply") \in Sessions
    BY <1>5, CopyGrows DEF AppendReply, TypeOK
  <2> QED
    BY <1>1, <2>1 DEF Over
<1>6. CASE RecordUsage(t)
  BY <1>1, <1>2, <1>6 DEF RecordUsage, TypeOK, Over
<1>7. CASE FallbackRegisters(t)
  BY <1>1, <1>2, <1>7, CopyGrows DEF FallbackRegisters, TypeOK, Over
<1>8. CASE FallbackReplies(t)
  BY <1>1, <1>8, CopyGrows DEF FallbackReplies, TypeOK, Over
<1> QED
  BY <1>3, <1>4, <1>5, <1>6, <1>7, <1>8 DEF Saves

(* The steps that save nothing.                                            *)
Quiet(t) ==
  \/ Open(t) \/ StartAttempt(t) \/ SpawnFails(t) \/ TimeOut(t) \/ ListNewFiles(t)
  \/ \E f \in Names : PassOver(t, f)
  \/ SkipUsage(t) \/ FallbackWrites(t) \/ ChildSteps(t)

LEMMA QuietKeepsInv == ASSUME Inv, NEW t \in Turns, Quiet(t) PROVE Inv'
<1> USE DEF Inv, TypeOK, AttemptsLeft, Over, store, json, local, history, Goto, EndChild, Names
<1>1. CASE Open(t)
  <2>1. crossed' \subseteq Turns
    BY <1>1 DEF Open
  <2> QED
    BY <1>1, <2>1 DEF Open, Opened
<1>2. CASE StartAttempt(t)
  BY <1>2 DEF StartAttempt
<1>3. CASE SpawnFails(t)
  BY <1>3 DEF SpawnFails
<1>4. CASE TimeOut(t)
  BY <1>4 DEF TimeOut
<1>5. CASE ListNewFiles(t)
  BY <1>5 DEF ListNewFiles, NewFiles
<1>6. ASSUME NEW f \in Names, PassOver(t, f) PROVE Inv'
  BY <1>6 DEF PassOver
<1>7. CASE SkipUsage(t)
  BY <1>7 DEF SkipUsage
<1>8. CASE FallbackWrites(t)
  BY <1>8 DEF FallbackWrites
<1>9. ASSUME NEW f \in Files, ChildWrites(t, f) PROVE Inv'
  BY <1>9 DEF ChildWrites
<1>10. CASE ChildCrashes(t)
  BY <1>10 DEF ChildCrashes, MayRetry
<1>11. CASE ChildEnds(t) \/ ChildSaysNothing(t) \/ ChildDies(t)
  BY <1>11 DEF ChildEnds, ChildSaysNothing, ChildDies
<1> QED
  BY <1>1, <1>2, <1>3, <1>4, <1>5, <1>6, <1>7, <1>8, <1>9, <1>10, <1>11 DEF Quiet, ChildSteps

(* Where a step that saves nothing takes its turn.                         *)
LEMMA QuietMoves ==
  ASSUME Inv, NEW t \in Turns, Quiet(t)
  PROVE  /\ \A q \in Turns \ {t} : pc'[q] = pc[q]
         /\ \/ pc' = pc
            \/ pc[t] = "idle" /\ pc'[t] = "opened"
            \/ pc[t] = "asked" /\ pc'[t] \in {"running", "falling"}
            \/ pc[t] = "running" /\ pc'[t] \in {"ran", "asked", "falling"}
            \/ pc[t] = "ran" /\ pc'[t] = "registering"
            \/ pc[t] = "metering" /\ pc'[t] = "done"
            \/ pc[t] = "falling" /\ pc'[t] \in {"errored", "fallenWithFile"}
<1>1. pc \in [Turns -> Over \cup {"opened", "asked", "running", "ran", "registering",
                                "metering", "falling", "fallenWithFile", "fallen"}]
  BY DEF Inv, TypeOK
<1>2. CASE Open(t)
  BY <1>1, <1>2 DEF Open, Goto
<1>3. CASE StartAttempt(t) \/ SpawnFails(t)
  BY <1>1, <1>3 DEF StartAttempt, SpawnFails, Goto
<1>4. CASE TimeOut(t) \/ ChildEnds(t) \/ ChildCrashes(t) \/ ChildSaysNothing(t)
  BY <1>1, <1>4 DEF TimeOut, TimerRuns, ChildEnds, ChildCrashes, ChildSaysNothing, Goto
<1>5. CASE ListNewFiles(t)
  BY <1>1, <1>5 DEF ListNewFiles, Goto
<1>6. CASE SkipUsage(t)
  BY <1>1, <1>6 DEF SkipUsage, Goto
<1>7. CASE FallbackWrites(t)
  BY <1>1, <1>7 DEF FallbackWrites, Goto
<1>8. CASE \/ \E f \in Names : PassOver(t, f)
           \/ ChildDies(t) \/ \E f \in Files : ChildWrites(t, f)
  BY <1>8 DEF PassOver, ChildDies, ChildWrites
<1> QED
  BY <1>2, <1>3, <1>4, <1>5, <1>6, <1>7, <1>8 DEF Quiet, ChildSteps

(* Every step lands a save, begins one, saves nothing, deletes or stutters.*)
LEMMA StepKinds ==
  ASSUME [Next]_vars
  PROVE  \/ \E t \in Turns : Saves(t) /\ ~Truncate(t)
         \/ \E t \in Turns : Saves(t) /\ Truncate(t)
         \/ \E t \in Turns : Quiet(t)
         \/ Delete \/ UNCHANGED vars
  BY DEF Next, Continues, Saves, Quiet

LEMMA DeleteKeepsInv == Inv /\ Delete => Inv'
<1>1. EmptySession \in Sessions
  BY DEF EmptySession, Sessions
<1> QED
  BY <1>1 DEF Delete, Inv, TypeOK, AttemptsLeft, local, history

LEMMA InvStep == Inv /\ [Next]_vars => Inv'
<1>1. Inv /\ UNCHANGED vars => Inv'
  BY DEF Inv, TypeOK, AttemptsLeft, vars, store, json, local, history
<1>2. ASSUME Inv, NEW t \in Turns, Saves(t), Truncate(t) PROVE Inv'
  BY <1>2, EmptyingMovesNothing DEF Inv, TypeOK, AttemptsLeft
<1> QED
  BY <1>1, <1>2, StepKinds, SaveKeepsInv, QuietKeepsInv, DeleteKeepsInv

(* Every variable keeps its type: no turn makes a third attempt.           *)
THEOREM TypeCorrect == Spec => []TypeOK
<1>1. Inv => TypeOK
  BY DEF Inv
<1> QED
  BY <1>1, InvInit, InvStep, PTL DEF Spec

-----------------------------------------------------------------------------
(* One answer.  Any copy of the session may come to be what is saved, so   *)
(* the invariant is about all of them, and says where a turn is when its   *)
(* answer is in one.                                                       *)

Held(m) == m \in saved.messages \/ \E q \in Turns : m \in copy[q].messages

AnswerFits(t) ==
  /\ Held(Message(t, "reply")) => pc[t] \in {"metering", "done"}
  /\ Held(Message(t, "degraded")) => pc[t] = "done"
  /\ ~(Held(Message(t, "reply")) /\ Held(Message(t, "degraded")))

AnswersFit == \A t \in Turns \ unsaved : AnswerFits(t)

LEMMA HeldAfterSave ==
  ASSUME Inv, NEW t \in Turns, NEW s \in Sessions, NEW then, NEW otherwise,
         Save(t, s, then, otherwise), ~Truncate(t), NEW M, s.messages \subseteq copy[t].messages \cup M
  PROVE  \A m : Held(m)' => Held(m) \/ m \in M
<1>1. saved' \in {saved, s} /\ copy' = [copy EXCEPT ![t] = s] /\ copy \in [Turns -> Sessions]
  BY SaveEither DEF Inv, TypeOK
<1> QED
  BY <1>1 DEF Held

(* A save adds no answer but the one of its own turn, and only where the   *)
(* turn is to go on.                                                       *)
LEMMA SaveKeepsAnswers ==
  ASSUME Inv, AnswersFit, NEW t \in Turns, Saves(t), ~Truncate(t)
  PROVE  AnswersFit'
<1>1. ASSUME NEW s \in Sessions, NEW then, NEW otherwise, Save(t, s, then, otherwise),
             NEW M, s.messages \subseteq copy[t].messages \cup M,
             \/ /\ M \subseteq {Message(t, "user")}
                /\ pc[t] \notin {"metering", "done"} \/ then = "done"
             \/ M = {Message(t, "reply")} /\ pc[t] = "registering" /\ then = "metering"
             \/ M = {Message(t, "degraded")} /\ pc[t] \in {"falling", "fallen"} /\ then = "done"
      PROVE  AnswersFit'
  <2>1. \A m : Held(m)' => Held(m) \/ m \in M
    BY <1>1, HeldAfterSave
  <2>2. /\ unsaved \subseteq unsaved'
        /\ t \notin unsaved' => pc' = [pc EXCEPT ![t] = then]
        /\ \A q \in Turns \ {t} : pc'[q] = pc[q]
    BY <1>1, SaveEither DEF Inv, TypeOK
  <2>3. SUFFICES ASSUME NEW q \in Turns \ unsaved' PROVE AnswerFits(q)'
    BY DEF AnswersFit
  <2>4. AnswerFits(q)
    BY <2>2 DEF AnswersFit
  <2>5. CASE q # t
    <3>1. \A kind \in {"reply", "degraded"} : Message(q, kind) \notin M
      BY <1>1, <2>5 DEF Message
    <3> QED
      BY <2>1, <2>2, <2>4, <2>5, <3>1 DEF AnswerFits
  <2>6. CASE q = t
    <3>1. pc'[t] = then
      BY <2>2, <2>6 DEF Inv, TypeOK
    <3>2. CASE M \subseteq {Message(t, "user")}
      <4>1. \A kind \in {"reply", "degraded"} : Message(t, kind) \notin M
        BY <3>2 DEF Message
      <4> QED
        BY <1>1, <2>1, <2>4, <2>6, <3>1, <4>1 DEF AnswerFits
    <3>3. CASE M = {Message(t, "reply")} /\ pc[t] = "registering" /\ then = "metering"
      <4>1. Message(t, "degraded") \notin M
        BY <3>3 DEF Message
      <4> QED
        BY <2>1, <2>4, <2>6, <3>1, <3>3, <4>1 DEF AnswerFits
    <3>4. CASE M = {Message(t, "degraded")} /\ pc[t] \in {"falling", "fallen"} /\ then = "done"
      <4>1. Message(t, "reply") \notin M
        BY <3>4 DEF Message
      <4> QED
        BY <2>1, <2>4, <2>6, <3>1, <3>4, <4>1 DEF AnswerFits
    <3> QED
      BY <1>1, <3>2, <3>3, <3>4
  <2> QED
    BY <2>5, <2>6
<1>2. TypeOK /\ copy[t] \in Sessions /\ t \in Names
  BY DEF Inv, TypeOK, Names
<1>3. CASE RecordUserMessage(t)
  <2>1. Save(t, WithMessage(t, "user"), "asked", "errored") /\ pc[t] = "opened"
    BY <1>3 DEF RecordUserMessage
  <2>2. /\ WithMessage(t, "user") \in Sessions
        /\ WithMessage(t, "user").messages \subseteq copy[t].messages \cup {Message(t, "user")}
    BY <1>2, CopyGrows
  <2> QED
    BY <1>1, <2>1, <2>2
<1>4. ASSUME NEW f \in Names, Register(t, f) PROVE AnswersFit'
  <2>1. Save(t, WithArtifact(t, f), "registering", "falling") /\ pc[t] = "registering"
    BY <1>4 DEF Register
  <2>2. WithArtifact(t, f) \in Sessions /\ WithArtifact(t, f).messages \subseteq copy[t].messages \cup {}
    BY <1>2, CopyGrows
  <2> QED
    BY <1>1, <2>1, <2>2
<1>5. CASE AppendReply(t)
  <2>1. Save(t, WithMessage(t, "reply"), "metering", "falling") /\ pc[t] = "registering"
    BY <1>5 DEF AppendReply
  <2>2. /\ WithMessage(t, "reply") \in Sessions
        /\ WithMessage(t, "reply").messages \subseteq copy[t].messages \cup {Message(t, "reply")}
    BY <1>2, CopyGrows
  <2> QED
    BY <1>1, <2>1, <2>2
<1>6. CASE RecordUsage(t)
  <2>1. Save(t, copy[t], "done", "falling") /\ copy[t].messages \subseteq copy[t].messages \cup {}
    BY <1>6 DEF RecordUsage
  <2> QED
    BY <1>1, <1>2, <2>1
<1>7. CASE FallbackRegisters(t)
  <2>1. Save(t, WithArtifact(t, t), "fallen", "errored") /\ pc[t] = "fallenWithFile"
    BY <1>7 DEF FallbackRegisters
  <2>2. WithArtifact(t, t) \in Sessions /\ WithArtifact(t, t).messages \subseteq copy[t].messages \cup {}
    BY <1>2, CopyGrows
  <2> QED
    BY <1>1, <2>1, <2>2
<1>8. CASE FallbackReplies(t)
  <2>1. Save(t, WithMessage(t, "degraded"), "done", "errored") /\ pc[t] \in {"falling", "fallen"}
    BY <1>8 DEF FallbackReplies
  <2>2. /\ WithMessage(t, "degraded") \in Sessions
        /\ WithMessage(t, "degraded").messages \subseteq copy[t].messages \cup {Message(t, "degraded")}
    BY <1>2, CopyGrows
  <2> QED
    BY <1>1, <2>1, <2>2
<1> QED
  BY <1>3, <1>4, <1>5, <1>6, <1>7, <1>8 DEF Saves

LEMMA QuietKeepsAnswers ==
  ASSUME Inv, AnswersFit, NEW t \in Turns, Quiet(t)
  PROVE  AnswersFit'
<1> USE DEF store, json, local, history, Goto, EndChild
<1>1. saved' = saved /\ unsaved' = unsaved
  BY DEF Quiet, ChildSteps, Open, StartAttempt, SpawnFails, TimeOut, ListNewFiles, PassOver,
     SkipUsage, FallbackWrites, ChildWrites, ChildEnds, ChildCrashes, ChildSaysNothing, ChildDies
<1>2. copy' = copy \/ copy' = [copy EXCEPT ![t] = saved]
  BY DEF Quiet, ChildSteps, Open, Opened, StartAttempt, SpawnFails, TimeOut, ListNewFiles,
     PassOver, SkipUsage, FallbackWrites, ChildWrites, ChildEnds, ChildCrashes,
     ChildSaysNothing, ChildDies
<1>3. \A m : Held(m)' => Held(m)
  BY <1>1, <1>2 DEF Held, Inv, TypeOK
<1>4. \A q \in Turns :
        \/ pc'[q] = pc[q]
        \/ pc[q] \notin {"metering", "done"}
        \/ pc[q] = "metering" /\ pc'[q] = "done"
  <2>1. \A q \in Turns \ {t} : pc'[q] = pc[q]
    BY QuietMoves
  <2>2. \/ pc' = pc
        \/ pc[t] \notin {"metering", "done"}
        \/ pc[t] = "metering" /\ pc'[t] = "done"
    BY QuietMoves
  <2> QED
    BY <2>1, <2>2
<1> QED
  BY <1>1, <1>3, <1>4 DEF AnswersFit, AnswerFits

LEMMA AnswersStep == Inv /\ AnswersFit /\ [Next]_vars => AnswersFit'
<1> SUFFICES ASSUME Inv, AnswersFit, [Next]_vars PROVE AnswersFit'
  OBVIOUS
<1>1. CASE Delete
  <2>1. \A m : Held(m)' => Held(m)
    BY <1>1 DEF Delete, EmptySession, Held, local
  <2> QED
    BY <1>1, <2>1 DEF Delete, AnswersFit, AnswerFits, history
<1>2. CASE UNCHANGED vars
  BY <1>2 DEF vars, store, json, local, history, AnswersFit, AnswerFits, Held
<1>3. ASSUME NEW t \in Turns, Saves(t), Truncate(t) PROVE AnswersFit'
  BY <1>3, EmptyingMovesNothing DEF AnswersFit, AnswerFits, Held
<1> QED
  BY <1>1, <1>2, <1>3, StepKinds, SaveKeepsAnswers, QuietKeepsAnswers

(* A message is answered once, by the model or by the fallback, whatever   *)
(* turns overlap and overwrite: both stand in the session only when a save *)
(* of that turn failed.                                                    *)
THEOREM OneAnswerEach == Spec => []AnsweredOnce
<1>1. Init => Inv /\ AnswersFit
  <2> SUFFICES ASSUME Init PROVE AnswersFit
    BY InvInit
  <2>1. \A m : ~Held(m)
    BY DEF Init, Held, EmptySession
  <2> QED
    BY <2>1 DEF AnswersFit, AnswerFits
<1>2. Inv /\ AnswersFit /\ [Next]_vars => (Inv /\ AnswersFit)'
  BY InvStep, AnswersStep
<1>3. AnswersFit => AnsweredOnce
  BY DEF AnswersFit, AnswerFits, AnsweredOnce, Held
<1> QED
  BY <1>1, <1>2, <1>3, PTL DEF Spec

-----------------------------------------------------------------------------
(* A file is registered once.  What is registered anywhere was there when  *)
(* an attempt of another turn began, unless the two ran beside each other; *)
(* and what an attempt registers was not there when it began.              *)

Registered(a) == a \in saved.artifacts \/ \E q \in Turns : a \in copy[q].artifacts

Crossed(t, q) == {t, q} \subseteq crossed

Beside == \A t, q \in Turns : t # q /\ Live(t) /\ Live(q) => Crossed(t, q)

Attempting(t) == pc[t] \in {"running", "ran", "registering"}

FilesAreThere == \A a : Registered(a) => a.file \in files /\ a.by \in Turns

SeenBefore ==
  \A a, t : Registered(a) /\ t \in Turns /\ Attempting(t) =>
    t = a.by \/ Crossed(t, a.by) \/ a.file \in before[t]

FreshIsNew == \A t \in Turns : pc[t] = "registering" => fresh[t] \subseteq files \ before[t]

(* The file of a fallback bears the name of its turn.                      *)
OwnFiles ==
  \A t \in Turns :
    /\ t \in files => pc[t] \in {"fallenWithFile", "fallen", "done", "errored"}
    /\ pc[t] = "fallenWithFile" => t \in files

OwnFileIsOwn ==
  \A a, t : Registered(a) /\ t \in Turns /\ pc[t] = "fallenWithFile" /\ a.file = t =>
    a.by = t \/ Crossed(t, a.by)

RegisteredOnce ==
  \A a, b : Registered(a) /\ Registered(b) /\ a.file = b.file => a.by = b.by \/ Crossed(a.by, b.by)

Order ==
  /\ FilesAreThere /\ SeenBefore /\ FreshIsNew
  /\ OwnFiles /\ OwnFileIsOwn /\ RegisteredOnce

(* When the session is deleted nothing is registered any more.             *)
OrderInv ==
  /\ Beside
  /\ deleted => saved = EmptySession
  /\ ~deleted => Order

LEMMA RegisteredAfterSave ==
  ASSUME Inv, NEW t \in Turns, NEW s \in Sessions, NEW then, NEW otherwise,
         Save(t, s, then, otherwise), ~Truncate(t), NEW A, s.artifacts \subseteq copy[t].artifacts \cup A
  PROVE  \A a : Registered(a)' => Registered(a) \/ a \in A
<1>1. saved' \in {saved, s} /\ copy' = [copy EXCEPT ![t] = s] /\ copy \in [Turns -> Sessions]
  BY SaveEither DEF Inv, TypeOK
<1> QED
  BY <1>1 DEF Registered

(* No step but the opening of a turn makes a turn live.                    *)
LEMMA BesideStep ==
  ASSUME Inv, Beside, NEW t \in Turns, Saves(t) \/ Quiet(t)
  PROVE  Beside' /\ crossed \subseteq crossed'
<1> USE DEF store, json, local, history, Goto, EndChild
<1>1. CASE Open(t)
  <2>1. /\ crossed' = crossed \cup {q \in Turns \ {t} : Busy(q)}
                      \cup (IF {q \in Turns \ {t} : Busy(q)} = {} THEN {} ELSE {t})
        /\ \A q \in Turns \ {t} : pc'[q] = pc[q]
    BY <1>1 DEF Open, Inv, TypeOK
  <2>2. \A q \in Turns \ {t} : Live(q) => q \in crossed' /\ t \in crossed'
    BY <2>1 DEF Busy
  <2>3. crossed \subseteq crossed'
    BY <2>1
  <2> QED
    BY <2>1, <2>2, <2>3 DEF Beside, Live, Crossed
<1>2. CASE Quiet(t) /\ ~Open(t)
  <2>1. crossed' = crossed
    BY <1>2 DEF Quiet, ChildSteps, StartAttempt, SpawnFails, TimeOut, ListNewFiles, PassOver,
       SkipUsage, FallbackWrites, ChildWrites, ChildEnds, ChildCrashes, ChildSaysNothing, ChildDies
  <2>2. \A q \in Turns : Live(q)' => Live(q)
    <3>1. \A q \in Turns \ {t} : pc'[q] = pc[q]
      BY <1>2, QuietMoves
    <3>2. pc' = pc \/ Live(t)
      BY <1>2 DEF Quiet, ChildSteps, StartAttempt, SpawnFails, TimeOut, TimerRuns, ListNewFiles,
         PassOver, SkipUsage, FallbackWrites, ChildWrites, ChildEnds, ChildCrashes,
         ChildSaysNothing, ChildDies, Live, Over
    <3> QED
      BY <3>1, <3>2 DEF Live
  <2> QED
    BY <2>1, <2>2 DEF Beside, Crossed
<1>3. CASE Saves(t)
  <2>1. crossed' = crossed /\ Live(t) /\ \A q \in Turns \ {t} : pc'[q] = pc[q]
    BY <1>3, SavesOfOne DEF Inv
  <2> QED
    BY <2>1 DEF Beside, Crossed, Live
<1> QED
  BY <1>1, <1>2, <1>3

(* The step registers nothing anew.                                        *)
LEMMA NothingRegistered ==
  ASSUME Inv, OrderInv, ~deleted, ~deleted',
         Beside', crossed \subseteq crossed', files \subseteq files',
         \A a : Registered(a)' => Registered(a),
         \A t \in Turns : Attempting(t)' =>
           (Attempting(t) /\ before'[t] = before[t]) \/ before'[t] = files,
         FreshIsNew', OwnFiles',
         \A t \in Turns : pc'[t] = "fallenWithFile" => pc[t] = "fallenWithFile" \/ t \notin files
  PROVE  OrderInv'
<1>1. Order
  BY DEF OrderInv
<1>2. FilesAreThere'
  BY <1>1 DEF Order, FilesAreThere
<1>3. SeenBefore'
  BY <1>1 DEF Order, FilesAreThere, SeenBefore, Crossed
<1>4. OwnFileIsOwn'
  BY <1>1 DEF Order, FilesAreThere, OwnFileIsOwn, Crossed
<1>5. RegisteredOnce'
  BY <1>1 DEF Order, RegisteredOnce, Crossed
<1> QED
  BY <1>2, <1>3, <1>4, <1>5 DEF OrderInv, Order

LEMMA QuietKeepsOrder ==
  ASSUME Inv, OrderInv, NEW t \in Turns, Quiet(t)
  PROVE  OrderInv'
<1> USE DEF store, json, local, history, Goto, EndChild
<1>1. Beside' /\ crossed \subseteq crossed'
  BY BesideStep DEF OrderInv
<1>2. saved' = saved /\ deleted' = deleted
  BY DEF Quiet, ChildSteps, Open, StartAttempt, SpawnFails, TimeOut, ListNewFiles, PassOver,
     SkipUsage, FallbackWrites, ChildWrites, ChildEnds, ChildCrashes, ChildSaysNothing, ChildDies
<1>3. CASE deleted
  BY <1>1, <1>2, <1>3 DEF OrderInv
<1>4. SUFFICES ASSUME ~deleted PROVE OrderInv'
  BY <1>3
<1>5. Order
  BY <1>4 DEF OrderInv
<1>6. copy' = copy \/ copy' = [copy EXCEPT ![t] = saved]
  BY DEF Quiet, ChildSteps, Open, Opened, StartAttempt, SpawnFails, TimeOut, ListNewFiles,
     PassOver, SkipUsage, FallbackWrites, ChildWrites, ChildEnds, ChildCrashes,
     ChildSaysNothing, ChildDies
<1>7. \A a : Registered(a)' => Registered(a)
  BY <1>2, <1>6 DEF Registered, Inv, TypeOK
<1>8. \A q \in Turns \ {t} : /\ pc'[q] = pc[q] /\ before'[q] = before[q] /\ fresh'[q] = fresh[q]
  BY DEF Quiet, ChildSteps, Open, StartAttempt, SpawnFails, TimeOut, ListNewFiles, PassOver,
     SkipUsage, FallbackWrites, ChildWrites, ChildEnds, ChildCrashes, ChildSaysNothing, ChildDies,
     Inv, TypeOK
<1>9. files \subseteq files' /\ files' \subseteq files \cup Files \cup (IF pc'[t] = "fallenWithFile" THEN {t} ELSE {})
  BY DEF Quiet, ChildSteps, Open, StartAttempt, SpawnFails, TimeOut, ListNewFiles, PassOver,
     SkipUsage, FallbackWrites, ChildWrites, ChildEnds, ChildCrashes, ChildSaysNothing, ChildDies,
     Inv, TypeOK
<1>10. Attempting(t)' => (Attempting(t) /\ before'[t] = before[t]) \/ before'[t] = files
  BY DEF Attempting, Quiet, ChildSteps, Open, StartAttempt, SpawnFails, TimeOut, ListNewFiles,
     PassOver, SkipUsage, FallbackWrites, ChildWrites, ChildEnds, ChildCrashes, ChildSaysNothing,
     ChildDies, Inv, TypeOK
<1>11. pc'[t] = "registering" => fresh'[t] \subseteq files \ before[t] /\ before'[t] = before[t]
  <2>1. CASE ListNewFiles(t)
    BY <2>1 DEF ListNewFiles, NewFiles, Inv, TypeOK
  <2>2. CASE ~ListNewFiles(t)
    <3>1. pc'[t] = "registering" =>
            pc[t] = "registering" /\ fresh'[t] \subseteq fresh[t] /\ before'[t] = before[t]
      BY <2>2 DEF Quiet, ChildSteps, Open, StartAttempt, SpawnFails, TimeOut, PassOver, SkipUsage,
         FallbackWrites, ChildWrites, ChildEnds, ChildCrashes, ChildSaysNothing, ChildDies,
         Inv, TypeOK
    <3> QED
      BY <1>5, <3>1 DEF Order, FreshIsNew
  <2> QED
    BY <2>1, <2>2
<1>12. \/ pc'[t] = pc[t]
       \/ pc'[t] = "fallenWithFile" /\ pc[t] = "falling" /\ t \in files'
       \/ pc'[t] # "fallenWithFile" /\ pc[t] \notin {"fallenWithFile", "fallen", "done", "errored"}
  <2>1. FallbackWrites(t) \/ pc'[t] # "fallenWithFile" \/ pc' = pc
    <3>1. pc'[t] = "fallenWithFile" => pc' = pc \/ pc[t] = "falling"
      BY QuietMoves
    <3> QED
      BY <3>1 DEF Quiet, ChildSteps, Open, StartAttempt, SpawnFails, TimeOut, TimerRuns,
         ListNewFiles, PassOver, SkipUsage, ChildWrites, ChildEnds, ChildCrashes, ChildSaysNothing,
         ChildDies
  <2>2. FallbackWrites(t) => t \in files'
    BY <1>4 DEF FallbackWrites, Inv, TypeOK
  <2> QED
    BY <2>1, <2>2, QuietMoves
<1>13. FreshIsNew'
  <2>1. files \subseteq files'
    BY <1>9
  <2>2. ASSUME NEW q \in Turns, pc'[q] = "registering" PROVE fresh'[q] \subseteq files \ before'[q]
    <3>1. CASE q = t
      BY <1>11, <2>2, <3>1
    <3>2. CASE q # t
      BY <1>5, <1>8, <2>2, <3>2 DEF Order, FreshIsNew
    <3> QED
      BY <3>1, <3>2
  <2> QED
    BY <2>1, <2>2 DEF FreshIsNew
<1>14. OwnFiles'
  BY <1>5, <1>8, <1>9, <1>12, NamesAssumption DEF Order, OwnFiles
<1>15. \A q \in Turns : pc'[q] = "fallenWithFile" => pc[q] = "fallenWithFile" \/ q \notin files
  BY <1>5, <1>8, <1>12 DEF Order, OwnFiles
<1>16. \A q \in Turns : Attempting(q)' =>
         (Attempting(q) /\ before'[q] = before[q]) \/ before'[q] = files
  BY <1>8, <1>10 DEF Attempting
<1>17. files \subseteq files'
  BY <1>9
<1> QED
  BY <1>1, <1>2, <1>4, <1>7, <1>13, <1>14, <1>15, <1>16, <1>17, NothingRegistered

(* The step registers one file of t, which no other turn registered that   *)
(* was not beside t.                                                       *)
LEMMA OneRegistered ==
  ASSUME Inv, OrderInv, ~deleted, ~deleted', NEW t \in Turns, Live(t), NEW f \in files,
         \A a : Registered(a) /\ a.file = f => a.by = t \/ Crossed(t, a.by),
         \A a : Registered(a)' => Registered(a) \/ a = [file |-> f, by |-> t],
         UNCHANGED <<files, before, crossed>>,
         \A q \in Turns : /\ Live(q)' => Live(q)
                          /\ Attempting(q)' => Attempting(q),
         \A q \in Turns : pc'[q] = "registering" => pc[q] = "registering" /\ fresh'[q] \subseteq fresh[q],
         \A q \in Turns : pc'[q] = "fallenWithFile" => pc[q] = "fallenWithFile",
         OwnFiles'
  PROVE  OrderInv'
<1> DEFINE new == [file |-> f, by |-> t]
<1>1. Order /\ Beside
  BY DEF OrderInv
<1>2. Beside'
  BY <1>1 DEF Beside, Crossed
<1>3. \A q \in Turns : Live(q) => q = t \/ Crossed(q, t)
  BY <1>1 DEF Beside
<1>4. FilesAreThere'
  BY <1>1 DEF Order, FilesAreThere
<1>5. SeenBefore'
  <2> SUFFICES ASSUME NEW a, NEW q \in Turns, Registered(a)', Attempting(q)'
               PROVE  q = a.by \/ Crossed(q, a.by) \/ a.file \in before[q]
    BY DEF SeenBefore, Crossed
  <2>1. CASE a = new
    <3>1. Live(q)'
      BY DEF Attempting, Live, Over
    <3> QED
      BY <1>3, <2>1, <3>1
  <2>2. CASE Registered(a)
    BY <1>1, <2>2 DEF Order, SeenBefore
  <2> QED
    BY <2>1, <2>2
<1>6. FreshIsNew'
  BY <1>1 DEF Order, FreshIsNew
<1>7. OwnFileIsOwn'
  <2> SUFFICES ASSUME NEW a, NEW q \in Turns, Registered(a)', pc'[q] = "fallenWithFile", a.file = q
               PROVE  a.by = q \/ Crossed(q, a.by)
    BY DEF OwnFileIsOwn, Crossed
  <2>1. pc[q] = "fallenWithFile" /\ Live(q)
    BY DEF Live, Over
  <2>2. CASE a = new
    BY <1>3, <2>1, <2>2
  <2>3. CASE Registered(a)
    BY <1>1, <2>1, <2>3 DEF Order, OwnFileIsOwn
  <2> QED
    BY <2>2, <2>3
<1>8. RegisteredOnce'
  <2> SUFFICES ASSUME NEW a, NEW b, Registered(a)', Registered(b)', a.file = b.file
               PROVE  a.by = b.by \/ Crossed(a.by, b.by)
    BY DEF RegisteredOnce, Crossed
  <2>1. CASE a = new
    BY <2>1 DEF Crossed
  <2>2. CASE b = new
    BY <2>2 DEF Crossed
  <2>3. CASE Registered(a) /\ Registered(b)
    BY <1>1, <2>3 DEF Order, RegisteredOnce
  <2> QED
    BY <2>1, <2>2, <2>3
<1> QED
  BY <1>2, <1>4, <1>5, <1>6, <1>7, <1>8 DEF OrderInv, Order

LEMMA SaveKeepsOrder ==
  ASSUME Inv, OrderInv, NEW t \in Turns, Saves(t), ~Truncate(t)
  PROVE  OrderInv'
<1>1. Beside' /\ crossed \subseteq crossed'
  BY BesideStep DEF OrderInv
<1>2. CASE deleted
  <2>1. deleted' /\ saved' = saved
    BY <1>2, SavesOfOne DEF Inv
  <2> QED
    BY <1>1, <1>2, <2>1 DEF OrderInv
<1>3. SUFFICES ASSUME ~deleted PROVE OrderInv'
  BY <1>2
<1>4. Order
  BY <1>3 DEF OrderInv
<1>5. TypeOK /\ copy[t] \in Sessions /\ t \in Names
  BY DEF Inv, TypeOK, Names
<1>6. UNCHANGED <<deleted, files, before, crossed>>
  BY SavesOfOne DEF Inv
(* A save that adds at most a message.                                     *)
<1>7. ASSUME NEW s \in Sessions, NEW then, NEW otherwise, Save(t, s, then, otherwise),
             s.artifacts = copy[t].artifacts, fresh' = fresh, Live(t),
             {then, otherwise} \subseteq {"asked", "metering", "done", "falling", "errored"},
             pc[t] \in {"fallen", "fallenWithFile"} => {then, otherwise} \subseteq {"done", "errored"}
      PROVE  OrderInv'
  <2>1. \A a : Registered(a)' => Registered(a)
    <3>1. s.artifacts \subseteq copy[t].artifacts \cup copy[t].artifacts
      BY <1>7
    <3>2. \A a : Registered(a)' => Registered(a) \/ a \in copy[t].artifacts
      BY <1>7, <3>1, RegisteredAfterSave
    <3> QED
      BY <3>2 DEF Registered
  <2>2. /\ \A q \in Turns \ {t} : pc'[q] = pc[q]
        /\ pc'[t] \in {then, otherwise}
    BY <1>7, SaveEither DEF Inv, TypeOK
  <2>3. \A q \in Turns : Attempting(q)' => Attempting(q)
    BY <1>7, <2>2 DEF Attempting
  <2>4. FreshIsNew'
    BY <1>4, <1>6, <1>7, <2>2 DEF Order, FreshIsNew
  <2>5. OwnFiles'
    BY <1>4, <1>6, <1>7, <2>2 DEF Order, OwnFiles, Live, Over
  <2>6. \A q \in Turns : pc'[q] = "fallenWithFile" => pc[q] = "fallenWithFile"
    BY <1>7, <2>2
  <2> QED
    BY <1>1, <1>3, <1>6, <2>1, <2>3, <2>4, <2>5, <2>6, NothingRegistered
(* A save that registers a file.                                           *)
<1>8. ASSUME NEW f \in Names, NEW then, NEW otherwise, Save(t, WithArtifact(t, f), then, otherwise),
             f \in files, Live(t),
             \A a : Registered(a) /\ a.file = f => a.by = t \/ Crossed(t, a.by),
             \/ /\ pc[t] = "registering" /\ then = "registering" /\ otherwise = "falling"
                /\ fresh' \in {fresh, [fresh EXCEPT ![t] = @ \ {f}]}
             \/ /\ pc[t] = "fallenWithFile" /\ then = "fallen" /\ otherwise = "errored"
                /\ fresh' = fresh
      PROVE  OrderInv'
  <2>1. \A a : Registered(a)' => Registered(a) \/ a = [file |-> f, by |-> t]
    <3>1. /\ WithArtifact(t, f) \in Sessions
          /\ WithArtifact(t, f).artifacts \subseteq copy[t].artifacts \cup {[file |-> f, by |-> t]}
      BY <1>5, CopyGrows
    <3>2. \A a : Registered(a)' => Registered(a) \/ a \in {[file |-> f, by |-> t]}
      BY <1>8, <3>1, RegisteredAfterSave
    <3> QED
      BY <3>2
  <2>2. /\ \A q \in Turns \ {t} : pc'[q] = pc[q] /\ fresh'[q] = fresh[q]
        /\ pc'[t] \in {then, otherwise}
        /\ fresh'[t] \subseteq fresh[t]
    <3>1. WithArtifact(t, f) \in Sessions
      BY <1>5, CopyGrows
    <3> QED
      BY <1>8, <3>1, SaveEither DEF Inv, TypeOK
  <2>3. \A q \in Turns : /\ Live(q)' => Live(q)
                         /\ Attempting(q)' => Attempting(q)
    BY <1>8, <2>2 DEF Attempting, Live
  <2>4. \A q \in Turns : /\ pc'[q] = "fallenWithFile" => pc[q] = "fallenWithFile"
                         /\ pc'[q] = "registering" =>
                              pc[q] = "registering" /\ fresh'[q] \subseteq fresh[q]
    BY <1>8, <2>2
  <2>5. OwnFiles'
    BY <1>4, <1>6, <1>8, <2>2 DEF Order, OwnFiles
  <2> QED
    BY <1>3, <1>6, <1>8, <2>1, <2>3, <2>4, <2>5, OneRegistered
<1>9. CASE RecordUserMessage(t)
  <2>1. /\ Save(t, WithMessage(t, "user"), "asked", "errored")
        /\ pc[t] = "opened" /\ fresh' = fresh
    BY <1>9 DEF RecordUserMessage
  <2>2. WithMessage(t, "user") \in Sessions /\ WithMessage(t, "user").artifacts = copy[t].artifacts
    BY <1>5, CopyGrows
  <2> QED
    BY <1>7, <2>1, <2>2 DEF Live, Over
<1>10. CASE AppendReply(t)
  <2>1. /\ Save(t, WithMessage(t, "reply"), "metering", "falling")
        /\ pc[t] = "registering" /\ fresh' = fresh
    BY <1>10 DEF AppendReply
  <2>2. WithMessage(t, "reply") \in Sessions /\ WithMessage(t, "reply").artifacts = copy[t].artifacts
    BY <1>5, CopyGrows
  <2> QED
    BY <1>7, <2>1, <2>2 DEF Live, Over
<1>11. CASE RecordUsage(t)
  <2>1. Save(t, copy[t], "done", "falling") /\ pc[t] = "metering" /\ fresh' = fresh
    BY <1>11 DEF RecordUsage
  <2> QED
    BY <1>5, <1>7, <2>1 DEF Live, Over
<1>12. CASE FallbackReplies(t)
  <2>1. /\ Save(t, WithMessage(t, "degraded"), "done", "errored")
        /\ pc[t] \in {"falling", "fallen"} /\ fresh' = fresh
    BY <1>12 DEF FallbackReplies
  <2>2. /\ WithMessage(t, "degraded") \in Sessions
        /\ WithMessage(t, "degraded").artifacts = copy[t].artifacts
    BY <1>5, CopyGrows
  <2> QED
    BY <1>7, <2>1, <2>2 DEF Live, Over
<1>13. ASSUME NEW f \in Names, Register(t, f) PROVE OrderInv'
  <2>1. /\ Save(t, WithArtifact(t, f), "registering", "falling")
        /\ pc[t] = "registering" /\ f \in fresh[t]
        /\ fresh' \in {fresh, [fresh EXCEPT ![t] = @ \ {f}]}
    BY <1>13 DEF Register
  <2>2. f \in files /\ f \notin before[t]
    BY <1>4, <2>1 DEF Order, FreshIsNew
  <2>3. \A a : Registered(a) /\ a.file = f => a.by = t \/ Crossed(t, a.by)
    BY <1>4, <2>1, <2>2 DEF Order, SeenBefore, Attempting
  <2> QED
    BY <1>8, <2>1, <2>2, <2>3 DEF Live, Over
<1>14. CASE FallbackRegisters(t)
  <2>1. /\ Save(t, WithArtifact(t, t), "fallen", "errored")
        /\ pc[t] = "fallenWithFile" /\ fresh' = fresh
    BY <1>14 DEF FallbackRegisters
  <2>2. t \in files /\ \A a : Registered(a) /\ a.file = t => a.by = t \/ Crossed(t, a.by)
    BY <1>4, <2>1 DEF Order, OwnFiles, OwnFileIsOwn
  <2> QED
    BY <1>5, <1>8, <2>1, <2>2 DEF Live, Over
<1> QED
  BY <1>9, <1>10, <1>11, <1>12, <1>13, <1>14 DEF Saves

LEMMA OrderStep == Inv /\ OrderInv /\ [Next]_vars => OrderInv'
<1> SUFFICES ASSUME Inv, OrderInv, [Next]_vars PROVE OrderInv'
  OBVIOUS
<1>1. CASE Delete
  BY <1>1 DEF Delete, OrderInv, Beside, Crossed, Live, history
<1>2. CASE UNCHANGED vars
  BY <1>2 DEF vars, store, json, local, history, OrderInv, Beside, Crossed, Live, Order, FilesAreThere,
     SeenBefore, FreshIsNew, OwnFiles, OwnFileIsOwn, RegisteredOnce, Registered, Attempting
<1>3. ASSUME NEW t \in Turns, Saves(t), Truncate(t) PROVE OrderInv'
  BY <1>3, EmptyingMovesNothing DEF OrderInv, Beside, Crossed, Live, Order, FilesAreThere,
     SeenBefore, FreshIsNew, OwnFiles, OwnFileIsOwn, RegisteredOnce, Registered, Attempting
<1> QED
  BY <1>1, <1>2, <1>3, StepKinds, SaveKeepsOrder, QuietKeepsOrder

LEMMA OrderInit == Init => OrderInv
<1> SUFFICES ASSUME Init PROVE OrderInv
  OBVIOUS
<1>1. \A a : ~Registered(a)
  BY DEF Init, Registered, EmptySession
<1>2. \A t \in Turns : pc[t] = "idle"
  BY DEF Init
<1>3. Beside
  BY <1>2 DEF Beside, Live, Over
<1>4. Order
  BY <1>1, <1>2 DEF Init, Order, FilesAreThere, SeenBefore, FreshIsNew, OwnFiles, OwnFileIsOwn,
                    RegisteredOnce
<1> QED
  BY <1>3, <1>4 DEF OrderInv, Init

LEMMA OrderInvariant == Spec => [](Inv /\ OrderInv)
  BY InvInit, InvStep, OrderInit, OrderStep, PTL DEF Spec

(* Two turns register the same file only when they ran beside each other,  *)
(* whatever attempts crash, run out of time or leave files behind.         *)
THEOREM FilesAreListedOnce == Spec => []ListedOnce
<1>1. OrderInv => ListedOnce
  <2> SUFFICES ASSUME OrderInv PROVE ListedOnce
    OBVIOUS
  <2>1. CASE deleted
    BY <2>1 DEF OrderInv, EmptySession, ListedOnce
  <2>2. CASE ~deleted
    BY <2>2 DEF OrderInv, Order, RegisteredOnce, Registered, Crossed, ListedOnce
  <2> QED
    BY <2>1, <2>2
<1> QED
  BY <1>1, OrderInvariant, PTL

-----------------------------------------------------------------------------
(* What was finished is kept.  A turn that ran alone has its messages on   *)
(* disk, and whoever saves later read them from there.                     *)

(* What a step that saves does, for the session as a whole.                *)
SavesGrown(t, s) ==
  /\ copy' = [copy EXCEPT ![t] = s]
  /\ copy[t].messages \subseteq s.messages /\ copy[t].artifacts \subseteq s.artifacts
  /\ \/ saved' = saved /\ (t \in unsaved' \/ deleted \/ (t \in writing /\ shape # "empty"))
     \/ /\ saved' = s /\ unsaved' = unsaved
        /\ \/ pc[t] = "opened" /\ pc'[t] = "asked" /\ Message(t, "user") \in s.messages
           \/ pc[t] = "registering" /\ pc'[t] = "registering"
           \/ pc[t] = "registering" /\ pc'[t] = "metering" /\ Message(t, "reply") \in s.messages
           \/ pc[t] = "metering" /\ pc'[t] = "done"
           \/ pc[t] = "fallenWithFile" /\ pc'[t] = "fallen"
           \/ /\ pc[t] \in {"falling", "fallen"} /\ pc'[t] = "done"
              /\ Message(t, "degraded") \in s.messages

LEMMA SavesAreGrown ==
  ASSUME Inv, NEW t \in Turns, Saves(t), ~Truncate(t)
  PROVE  /\ \E s \in Sessions : SavesGrown(t, s)
         /\ Live(t) /\ \A q \in Turns \ {t} : pc'[q] = pc[q]
         /\ UNCHANGED <<deleted, files, before, child, crossed>>
         /\ unsaved \subseteq unsaved'
<1>1. ASSUME NEW s \in Sessions, NEW then, NEW otherwise, Save(t, s, then, otherwise), Live(t),
             copy[t].messages \subseteq s.messages, copy[t].artifacts \subseteq s.artifacts,
             \/ pc[t] = "opened" /\ then = "asked" /\ Message(t, "user") \in s.messages
             \/ pc[t] = "registering" /\ then = "registering"
             \/ pc[t] = "registering" /\ then = "metering" /\ Message(t, "reply") \in s.messages
             \/ pc[t] = "metering" /\ then = "done"
             \/ pc[t] = "fallenWithFile" /\ then = "fallen"
             \/ /\ pc[t] \in {"falling", "fallen"} /\ then = "done"
                /\ Message(t, "degraded") \in s.messages
      PROVE  /\ \E z \in Sessions : SavesGrown(t, z)
             /\ Live(t) /\ \A q \in Turns \ {t} : pc'[q] = pc[q]
             /\ UNCHANGED <<deleted, files, before, child, crossed>>
             /\ unsaved \subseteq unsaved'
  <2>1. SavesGrown(t, s)
    BY <1>1, SaveEither DEF SavesGrown, Inv, TypeOK
  <2> QED
    BY <1>1, <2>1, SaveEither DEF Inv, TypeOK
<1>2. TypeOK /\ copy[t] \in Sessions /\ t \in Names
  BY DEF Inv, TypeOK, Names
<1>3. CASE RecordUserMessage(t)
  BY <1>1, <1>2, <1>3, CopyGrows DEF RecordUserMessage, Live, Over
<1>4. ASSUME NEW f \in Names, Register(t, f)
      PROVE  Save(t, WithArtifact(t, f), "registering", "falling") /\ pc[t] = "registering"
  BY <1>4 DEF Register
<1>5. CASE \E f \in Names : Register(t, f)
  BY <1>1, <1>2, <1>4, <1>5, CopyGrows DEF Live, Over
<1>6. CASE AppendReply(t)
  BY <1>1, <1>2, <1>6, CopyGrows DEF AppendReply, Live, Over
<1>7. CASE RecordUsage(t)
  BY <1>1, <1>2, <1>7 DEF RecordUsage, Live, Over
<1>8. CASE FallbackRegisters(t)
  BY <1>1, <1>2, <1>8, CopyGrows DEF FallbackRegisters, Live, Over
<1>9. CASE FallbackReplies(t)
  BY <1>1, <1>2, <1>9, CopyGrows DEF FallbackReplies, Live, Over
<1> QED
  BY <1>3, <1>5, <1>6, <1>7, <1>8, <1>9 DEF Saves

(* On disk, and in the copy of everybody who may still save.               *)
Everywhere(m) == m \in saved.messages /\ \A q \in Turns : Live(q) => m \in copy[q].messages

KeptFor(t) ==
  /\ pc[t] \notin {"idle", "opened", "errored"} => Everywhere(Message(t, "user"))
  /\ pc[t] = "metering" => Everywhere(Message(t, "reply"))
  /\ pc[t] = "done" => Everywhere(Message(t, "reply")) \/ Everywhere(Message(t, "degraded"))

KeptInv == ~deleted => \A t \in Turns \ (crossed \cup unsaved) : KeptFor(t)

(* A save that nobody is beside finds the file as it has left it, and a    *)
(* file that is not whole is somebody's doing.                             *)
ShapeInv ==
  /\ \A t \in writing : pc[t] \in SavePlaces
  /\ ~deleted => /\ \A t \in writing \ crossed : shape = "empty"
                 /\ shape # "whole" => writing \cup unsaved \cup crossed # {}

LEMMA ShapeStep == Inv /\ OrderInv /\ ShapeInv /\ [Next]_vars => ShapeInv'
<1> SUFFICES ASSUME Inv, OrderInv, ShapeInv, [Next]_vars PROVE ShapeInv'
  OBVIOUS
<1>1. ASSUME NEW t \in Turns, Saves(t), ~Truncate(t) PROVE ShapeInv'
  <2>1. /\ writing' = writing \ {t} /\ unsaved \subseteq unsaved'
        /\ UNCHANGED <<deleted, crossed>>
        /\ \A q \in Turns \ {t} : pc'[q] = pc[q]
        /\ \/ t \in writing /\ shape' = "whole"
           \/ t \in writing /\ (deleted \/ (shape # "empty" /\ shape' = "torn"))
           \/ t \in unsaved' /\ (t \in writing \/ shape' = shape)
    BY <1>1, SavesLand
  <2>2. \A q \in writing' : q \in Turns \ {t} /\ Live(q)
    BY <2>1 DEF ShapeInv, SavePlaces, Live, Over, Inv, TypeOK
  <2>3. \A q \in writing' : q \in crossed
    BY <1>1, <2>2, SavesOfOne DEF Inv, OrderInv, Beside, Crossed
  <2>4. \A q \in writing' : pc'[q] \in SavePlaces
    BY <2>1, <2>2 DEF ShapeInv
  <2> QED
    BY <2>1, <2>3, <2>4 DEF ShapeInv
<1>2. ASSUME NEW t \in Turns, Saves(t), Truncate(t) PROVE ShapeInv'
  BY <1>2, EmptyingMovesNothing DEF ShapeInv
<1>3. ASSUME NEW t \in Turns, Quiet(t) PROVE ShapeInv'
  <2>1. UNCHANGED <<json, deleted, writing, unsaved>>
    BY <1>3 DEF Quiet, ChildSteps, Open, StartAttempt, SpawnFails, TimeOut, ListNewFiles,
       PassOver, SkipUsage, FallbackWrites, ChildWrites, ChildEnds, ChildCrashes,
       ChildSaysNothing, ChildDies, store, local, history
  <2>2. crossed \subseteq crossed'
    BY <1>3, BesideStep DEF OrderInv
  <2>3. \A q \in writing : pc'[q] = pc[q]
    <3>1. \A q \in Turns \ {t} : pc'[q] = pc[q]
      BY <1>3, QuietMoves
    <3>2. t \in writing => pc' = pc
      BY <1>3 DEF Quiet, ChildSteps, Open, StartAttempt, SpawnFails, TimeOut, TimerRuns,
         ListNewFiles, PassOver, SkipUsage, FallbackWrites, ChildWrites, ChildEnds, ChildCrashes,
         ChildSaysNothing, ChildDies, ShapeInv, SavePlaces
    <3> QED
      BY <3>1, <3>2 DEF Inv, TypeOK
  <2> QED
    BY <2>1, <2>2, <2>3 DEF ShapeInv, json
<1>4. CASE Delete
  BY <1>4 DEF Delete, ShapeInv, local
<1>5. CASE UNCHANGED vars
  BY <1>5 DEF ShapeInv, vars, store, json, local, history
<1> QED
  BY <1>1, <1>2, <1>3, <1>4, <1>5, StepKinds

LEMMA SaveKeepsFinished ==
  ASSUME Inv, OrderInv, ShapeInv, KeptInv, NEW t \in Turns, Saves(t), ~Truncate(t)
  PROVE  KeptInv'
<1>1. PICK s \in Sessions : SavesGrown(t, s)
  BY SavesAreGrown
<1>2. /\ Live(t) /\ \A q \in Turns \ {t} : pc'[q] = pc[q]
      /\ deleted' = deleted /\ crossed' = crossed /\ unsaved \subseteq unsaved'
  BY SavesAreGrown
<1>3. saved' \in {saved, s} /\ copy'[t] = s /\ \A q \in Turns \ {t} : copy'[q] = copy[q]
  BY <1>1 DEF SavesGrown, Inv, TypeOK
<1>4. ASSUME NEW m, Everywhere(m) PROVE Everywhere(m)'
  BY <1>1, <1>2, <1>3, <1>4 DEF Everywhere, SavesGrown, Live
<1>5. SUFFICES ASSUME ~deleted, NEW q \in Turns \ (crossed \cup unsaved'), KeptFor(q)
               PROVE  KeptFor(q)'
  BY <1>2 DEF KeptInv
<1>6. CASE q # t
  BY <1>2, <1>4, <1>5, <1>6 DEF KeptFor, Message
<1>7. CASE q = t
  <2>1. saved' = s /\ \A p \in Turns \ {t} : ~Live(p)
    BY <1>1, <1>2, <1>5, <1>7 DEF SavesGrown, OrderInv, Beside, Crossed, ShapeInv
  <2>2. ASSUME NEW m \in s.messages PROVE Everywhere(m)'
    BY <1>2, <1>3, <2>1 DEF Everywhere, Live
  <2>3. ASSUME NEW m, Everywhere(m) PROVE m \in s.messages
    BY <1>1, <1>2, <2>3 DEF Everywhere, SavesGrown
  <2>4. ASSUME pc[t] # "opened" PROVE Message(t, "user") \in s.messages
    BY <1>2, <1>5, <1>7, <2>3, <2>4 DEF KeptFor, Live, Over
  <2>5. ASSUME pc[t] = "metering" PROVE Message(t, "reply") \in s.messages
    BY <1>5, <1>7, <2>3, <2>5 DEF KeptFor
  <2>6. \A kind : Message(t, kind)' = Message(t, kind)
    BY DEF Message
  <2>7. t \notin unsaved' /\ ~deleted /\ ~(t \in writing /\ shape # "empty")
    BY <1>5, <1>7 DEF ShapeInv
  <2> QED
    BY <1>1, <1>5, <1>7, <2>2, <2>4, <2>5, <2>6, <2>7 DEF SavesGrown, KeptFor
<1> QED
  BY <1>6, <1>7

LEMMA QuietKeepsFinished ==
  ASSUME Inv, KeptInv, NEW t \in Turns, Quiet(t), crossed \subseteq crossed'
  PROVE  KeptInv'
<1> USE DEF store, json, local, history, Goto, EndChild
<1>1. saved' = saved /\ deleted' = deleted /\ unsaved' = unsaved
  BY DEF Quiet, ChildSteps, Open, StartAttempt, SpawnFails, TimeOut, ListNewFiles, PassOver,
     SkipUsage, FallbackWrites, ChildWrites, ChildEnds, ChildCrashes, ChildSaysNothing, ChildDies
<1>2. copy' = copy \/ copy' = [copy EXCEPT ![t] = saved]
  BY DEF Quiet, ChildSteps, Open, Opened, StartAttempt, SpawnFails, TimeOut, ListNewFiles,
     PassOver, SkipUsage, FallbackWrites, ChildWrites, ChildEnds, ChildCrashes,
     ChildSaysNothing, ChildDies
<1>3. copy' = copy \/ pc[t] = "idle"
  BY DEF Quiet, ChildSteps, Open, Opened, StartAttempt, SpawnFails, TimeOut, ListNewFiles,
     PassOver, SkipUsage, FallbackWrites, ChildWrites, ChildEnds, ChildCrashes,
     ChildSaysNothing, ChildDies
<1>4. ASSUME NEW m, Everywhere(m) PROVE Everywhere(m)'
  <2>1. \A q \in Turns : Live(q)' => Live(q) \/ (q = t /\ pc[t] = "idle")
    BY QuietMoves DEF Live, Over
  <2>2. pc[t] = "idle" /\ Live(t)' => copy'[t] = saved
    <3>1. pc[t] = "idle" /\ Live(t)' => Open(t)
      BY DEF Live, Over, Quiet, ChildSteps, StartAttempt, SpawnFails, TimeOut, TimerRuns,
         ListNewFiles, PassOver, SkipUsage, FallbackWrites, ChildWrites, ChildEnds, ChildCrashes,
         ChildSaysNothing, ChildDies
    <3> QED
      BY <3>1 DEF Open, Opened, Inv, TypeOK
  <2>3. \A q \in Turns \ {t} : copy'[q] = copy[q]
    BY <1>2 DEF Inv, TypeOK
  <2> QED
    BY <1>1, <1>3, <1>4, <2>1, <2>2, <2>3 DEF Everywhere
<1>5. SUFFICES ASSUME ~deleted, NEW q \in Turns \ (crossed \cup unsaved), KeptFor(q)
               PROVE  KeptFor(q)'
  BY <1>1 DEF KeptInv
<1>6. CASE q # t
  BY <1>4, <1>5, <1>6, QuietMoves DEF KeptFor, Message
<1>7. CASE q = t
  BY <1>4, <1>5, <1>7, QuietMoves DEF KeptFor, Message
<1> QED
  BY <1>6, <1>7

LEMMA KeptStep == Inv /\ OrderInv /\ ShapeInv /\ KeptInv /\ [Next]_vars => KeptInv'
<1> SUFFICES ASSUME Inv, OrderInv, ShapeInv, KeptInv, [Next]_vars PROVE KeptInv'
  OBVIOUS
<1>1. ASSUME NEW t \in Turns, Quiet(t) PROVE crossed \subseteq crossed'
  BY <1>1, BesideStep DEF OrderInv
<1>2. CASE Delete
  BY <1>2 DEF Delete, KeptInv
<1>3. CASE UNCHANGED vars
  BY <1>3 DEF vars, store, json, local, history, KeptInv, KeptFor, Everywhere, Live, Message
<1>4. ASSUME NEW t \in Turns, Saves(t), Truncate(t) PROVE KeptInv'
  BY <1>4, EmptyingMovesNothing DEF KeptInv, KeptFor, Everywhere, Live, Message
<1> QED
  BY <1>1, <1>2, <1>3, <1>4, StepKinds, SaveKeepsFinished, QuietKeepsFinished

(* A turn that reached its end is on disk with its question and its answer *)
(* until the session is deleted, unless it ran beside another or a save of *)
(* it failed; and where the file cannot be read another turn is to blame.  *)
THEOREM FinishedStays == Spec => []FinishedTurnIsKept
<1>1. Init => ShapeInv /\ KeptInv
  BY DEF Init, ShapeInv, KeptInv, KeptFor
<1>2. Inv /\ ShapeInv /\ KeptInv => FinishedTurnIsKept
  <2> SUFFICES ASSUME Inv, ShapeInv, KeptInv, ~deleted,
                      NEW t \in Turns \ (crossed \cup unsaved), pc[t] = "done"
               PROVE  IF shape = "whole"
                      THEN /\ Message(t, "user") \in saved.messages
                           /\ \E kind \in {"reply", "degraded"} : Message(t, kind) \in saved.messages
                      ELSE \E q \in Turns \ {t} : q \in writing \cup unsaved \cup crossed
    BY DEF FinishedTurnIsKept
  <2>1. CASE shape = "whole"
    BY <2>1 DEF KeptInv, KeptFor, Everywhere
  <2>2. CASE shape # "whole"
    <3>1. t \notin writing /\ writing \cup unsaved \cup crossed \subseteq Turns
      BY DEF ShapeInv, SavePlaces, Inv, TypeOK
    <3> QED
      BY <2>2, <3>1 DEF ShapeInv
  <2> QED
    BY <2>1, <2>2
<1> QED
  BY <1>1, <1>2, ShapeStep, KeptStep, OrderInvariant, PTL DEF Spec

-----------------------------------------------------------------------------
(* The files of an answer are listed.  While the turn that gives it runs   *)
(* beside nobody, nothing comes up in artifacts/ once its process closed.  *)

(* A process told to end may write on: whoever runs beside it has crossed. *)
BesideChild == \A t, q \in Turns : t # q /\ Live(t) /\ child[q] # "none" => t \in crossed

ChildrenEnded ==
  \A t \in Turns : pc[t] \in {"ran", "registering", "metering"} => child[t] = "none"

ListedIn(session) == {a.file : a \in session.artifacts}

ListsFor(t) ==
  /\ pc[t] = "registering" => files \ before[t] \subseteq fresh[t] \cup ListedIn(copy[t])
  /\ pc[t] = "metering" => files \ before[t] \subseteq ListedIn(saved)

ListInv ==
  /\ BesideChild /\ ChildrenEnded
  /\ deleted => files = {}
  /\ ~deleted => \A t \in Turns \ crossed : ListsFor(t)

LEMMA SaveKeepsList ==
  ASSUME Inv, OrderInv, ShapeInv, ListInv, NEW t \in Turns, Saves(t), ~Truncate(t)
  PROVE  ListInv'
<1>1. /\ Live(t) /\ \A q \in Turns \ {t} : pc'[q] = pc[q] /\ fresh'[q] = fresh[q]
      /\ UNCHANGED <<deleted, files, before, child, crossed>>
  BY SavesOfOne DEF Inv
<1>2. pc'[t] \in {"ran", "registering", "metering"} => pc[t] = "registering"
  <2>1. ASSUME NEW s, NEW then, NEW otherwise, Save(t, s, then, otherwise)
        PROVE  pc'[t] \in {then, otherwise}
    BY <2>1 DEF Save, Fill, Fail, Fault, Goto, Inv, TypeOK
  <2> QED
    BY <2>1 DEF Saves, RecordUserMessage, Register, AppendReply, RecordUsage, FallbackRegisters,
       FallbackReplies
<1>3. BesideChild' /\ ChildrenEnded'
  BY <1>1, <1>2 DEF ListInv, BesideChild, ChildrenEnded, Live
<1>4. SUFFICES ASSUME ~deleted, NEW q \in Turns \ crossed, ListsFor(q)
               PROVE  ListsFor(q)'
  BY <1>1, <1>3 DEF ListInv
<1>5. CASE q # t
  <2>1. pc[q] \notin {"registering", "metering"}
    BY <1>1, <1>4, <1>5 DEF OrderInv, Beside, Crossed, Live, Over
  <2> QED
    BY <1>1, <1>4, <1>5, <2>1 DEF ListsFor
<1>6. CASE q = t
  <2>1. t \in writing => shape = "empty"
    BY <1>4, <1>6 DEF ShapeInv
  <2>2. TypeOK /\ copy \in [Turns -> Sessions]
    BY DEF Inv, TypeOK
  <2>3. ASSUME NEW f \in Names, Register(t, f) PROVE ListsFor(t)'
    <3>1. /\ Save(t, WithArtifact(t, f), "registering", "falling") /\ pc[t] = "registering"
          /\ WithArtifact(t, f) \in Sessions
          /\ WithArtifact(t, f).artifacts = copy[t].artifacts \cup {[file |-> f, by |-> t]}
      BY <2>2, <2>3, CopyGrows DEF Register
    <3>2. copy'[t] = WithArtifact(t, f) /\ pc'[t] # "metering"
      BY <2>2, <3>1, SaveEither DEF TypeOK
    <3>3. fresh[t] \ {f} \subseteq fresh'[t]
      BY <2>3 DEF Register, Inv, TypeOK
    <3>4. ListedIn(copy[t]) \cup {f} \subseteq ListedIn(copy'[t])
      <4>1. copy'[t].artifacts = copy[t].artifacts \cup {[file |-> f, by |-> t]}
        BY <3>1, <3>2
      <4>2. [file |-> f, by |-> t].file = f /\ [file |-> f, by |-> t] \in copy'[t].artifacts
        BY <4>1
      <4>3. f \in ListedIn(copy'[t])
        BY <4>2 DEF ListedIn
      <4>4. ListedIn(copy[t]) \subseteq ListedIn(copy'[t])
        BY <4>1 DEF ListedIn
      <4> QED
        BY <4>3, <4>4
    <3> QED
      BY <1>1, <1>4, <1>6, <3>1, <3>2, <3>3, <3>4 DEF ListsFor, ListedIn
  <2>4. CASE AppendReply(t)
    <3>1. /\ Save(t, WithMessage(t, "reply"), "metering", "falling")
          /\ pc[t] = "registering" /\ fresh[t] = {}
          /\ WithMessage(t, "reply") \in Sessions
          /\ WithMessage(t, "reply").artifacts = copy[t].artifacts
      BY <2>2, <2>4, CopyGrows DEF AppendReply
    <3>2. \/ pc'[t] = "falling"
          \/ pc'[t] = "metering" /\ saved' = WithMessage(t, "reply")
      BY <1>4, <2>1, <2>2, <3>1, SaveEither DEF TypeOK
    <3> QED
      BY <1>1, <1>4, <1>6, <3>1, <3>2 DEF ListsFor, ListedIn
  <2>5. CASE RecordUserMessage(t) \/ RecordUsage(t) \/ FallbackRegisters(t) \/ FallbackReplies(t)
    <3>1. pc'[t] \notin {"registering", "metering"}
      <4>1. ASSUME NEW s, NEW then, NEW otherwise, Save(t, s, then, otherwise)
            PROVE  pc'[t] \in {then, otherwise}
        BY <4>1 DEF Save, Fill, Fail, Fault, Goto, Inv, TypeOK
      <4> QED
        BY <2>5, <4>1 DEF RecordUserMessage, RecordUsage, FallbackRegisters, FallbackReplies
    <3> QED
      BY <1>6, <3>1 DEF ListsFor
  <2> QED
    BY <1>6, <2>3, <2>4, <2>5 DEF Saves
<1> QED
  BY <1>5, <1>6

LEMMA QuietKeepsChildren ==
  ASSUME Inv, OrderInv, ListInv, NEW t \in Turns, Quiet(t)
  PROVE  BesideChild' /\ ChildrenEnded' /\ (deleted' => files' = {})
<1> USE DEF store, json, local, history, Goto, EndChild
<1>1. deleted' = deleted /\ (deleted => files' = files)
  BY DEF Quiet, ChildSteps, Open, StartAttempt, SpawnFails, TimeOut, ListNewFiles, PassOver,
     SkipUsage, FallbackWrites, ChildWrites, ChildEnds, ChildCrashes, ChildSaysNothing, ChildDies
<1>2. \A q \in Turns \ {t} : pc'[q] = pc[q] /\ child'[q] = child[q]
  BY DEF Quiet, ChildSteps, Open, StartAttempt, SpawnFails, TimeOut, ListNewFiles, PassOver,
     SkipUsage, FallbackWrites, ChildWrites, ChildEnds, ChildCrashes, ChildSaysNothing, ChildDies,
     Inv, TypeOK
<1>3. pc'[t] \in {"ran", "registering", "metering"} => child'[t] = "none"
  <2>1. CASE Open(t) \/ StartAttempt(t) \/ SpawnFails(t) \/ SkipUsage(t) \/ FallbackWrites(t)
    BY <2>1 DEF Open, StartAttempt, SpawnFails, SkipUsage, FallbackWrites, Inv, TypeOK
  <2>2. CASE TimeOut(t) \/ ChildEnds(t) \/ ChildCrashes(t) \/ ChildSaysNothing(t)
    BY <2>2 DEF TimeOut, ChildEnds, ChildCrashes, ChildSaysNothing, Inv, TypeOK
  <2>3. CASE ListNewFiles(t)
    BY <2>3 DEF ListNewFiles, ListInv, ChildrenEnded
  <2>4. CASE ChildDies(t) \/ (\E f \in Names : PassOver(t, f)) \/ \E f \in Files : ChildWrites(t, f)
    BY <2>4 DEF ChildDies, PassOver, ChildWrites, ListInv, ChildrenEnded, Inv, TypeOK
  <2> QED
    BY <2>1, <2>2, <2>3, <2>4 DEF Quiet, ChildSteps
<1>4. crossed \subseteq crossed'
  BY BesideStep DEF OrderInv
<1>5. BesideChild'
  <2>1. CASE Open(t)
    <3>1. /\ \A q \in Turns \ {t} : Busy(q) => t \in crossed'
          /\ child' = child
      BY <2>1 DEF Open
    <3> QED
      BY <1>2, <1>4, <3>1 DEF ListInv, BesideChild, Live, Busy
  <2>2. CASE ~Open(t)
    <3>1. Live(t)' => Live(t)
      BY <2>2 DEF Quiet, ChildSteps, StartAttempt, SpawnFails, TimeOut, TimerRuns, ListNewFiles,
         PassOver, SkipUsage, FallbackWrites, ChildWrites, ChildEnds, ChildCrashes,
         ChildSaysNothing, ChildDies, Live, Over
    <3>2. child'[t] # "none" => child[t] # "none" \/ Live(t)
      <4>1. CASE StartAttempt(t) \/ TimeOut(t)
        BY <4>1 DEF StartAttempt, TimeOut, TimerRuns, Live, Over
      <4>2. CASE ~StartAttempt(t) /\ ~TimeOut(t)
        BY <2>2, <4>2 DEF Quiet, ChildSteps, SpawnFails, ListNewFiles, PassOver, SkipUsage,
           FallbackWrites, ChildWrites, ChildEnds, ChildCrashes, ChildSaysNothing, ChildDies,
           Inv, TypeOK
      <4> QED
        BY <4>1, <4>2
    <3>3. \A q \in Turns \ {t} : Live(q) /\ Live(t) => q \in crossed /\ t \in crossed
      BY DEF OrderInv, Beside, Crossed
    <3> QED
      BY <1>2, <1>4, <3>1, <3>2, <3>3 DEF ListInv, BesideChild, Live
  <2> QED
    BY <2>1, <2>2
<1> QED
  BY <1>1, <1>2, <1>3, <1>5 DEF ListInv, ChildrenEnded

LEMMA QuietKeepsList ==
  ASSUME Inv, OrderInv, ListInv, NEW t \in Turns, Quiet(t)
  PROVE  ListInv'
<1> USE DEF store, json, local, history, Goto, EndChild
<1>1. crossed \subseteq crossed'
  BY BesideStep DEF OrderInv
<1>2. saved' = saved /\ deleted' = deleted
  BY DEF Quiet, ChildSteps, Open, StartAttempt, SpawnFails, TimeOut, ListNewFiles, PassOver,
     SkipUsage, FallbackWrites, ChildWrites, ChildEnds, ChildCrashes, ChildSaysNothing, ChildDies
<1>3. SUFFICES ASSUME ~deleted, NEW q \in Turns \ crossed', ListsFor(q)
               PROVE  ListsFor(q)'
  BY <1>1, <1>2, QuietKeepsChildren DEF ListInv
<1>4. q \notin crossed
  BY <1>1, <1>3
<1>5. CASE q # t
  <2>1. /\ pc'[q] = pc[q] /\ before'[q] = before[q] /\ fresh'[q] = fresh[q]
        /\ copy'[q] = copy[q]
    BY <1>5 DEF Quiet, ChildSteps, Open, StartAttempt, SpawnFails, TimeOut, ListNewFiles, PassOver,
       SkipUsage, FallbackWrites, ChildWrites, ChildEnds, ChildCrashes, ChildSaysNothing, ChildDies,
       Inv, TypeOK
  <2>2. SUFFICES ASSUME pc[q] \in {"registering", "metering"} PROVE files' = files
    BY <1>2, <1>3, <2>1 DEF ListsFor, ListedIn
  <2>3. Live(q)
    BY <2>2 DEF Live, Over
  <2>4. child[t] = "none" /\ ~Live(t)
    BY <1>4, <1>5, <2>3 DEF ListInv, BesideChild, OrderInv, Beside, Crossed
  <2> QED
    BY <2>4 DEF Quiet, ChildSteps, Open, StartAttempt, SpawnFails, TimeOut, ListNewFiles,
       PassOver, SkipUsage, FallbackWrites, ChildWrites, ChildEnds, ChildCrashes,
       ChildSaysNothing, ChildDies, Live, Over
<1>6. CASE q = t
  <2>1. CASE ListNewFiles(t)
    BY <1>6, <2>1 DEF ListNewFiles, NewFiles, ListsFor, Inv, TypeOK
  <2>2. CASE \E f \in Names : PassOver(t, f)
    BY <1>3, <1>6, <2>2 DEF PassOver, ListsFor, ListedIn, Inv, TypeOK
  <2>3. CASE \/ Open(t) \/ StartAttempt(t) \/ SpawnFails(t) \/ SkipUsage(t) \/ FallbackWrites(t)
            \/ TimeOut(t) \/ ChildEnds(t) \/ ChildCrashes(t) \/ ChildSaysNothing(t)
    <3>1. pc'[t] \notin {"registering", "metering"}
      BY <2>3 DEF Open, StartAttempt, SpawnFails, SkipUsage, FallbackWrites, TimeOut, ChildEnds,
         ChildCrashes, ChildSaysNothing, Inv, TypeOK
    <3> QED
      BY <1>6, <3>1 DEF ListsFor
  <2>4. CASE ChildDies(t) \/ \E f \in Files : ChildWrites(t, f)
    <3>1. pc' = pc /\ pc[t] \notin {"registering", "metering"}
      BY <2>4 DEF ChildDies, ChildWrites, ListInv, ChildrenEnded
    <3> QED
      BY <1>6, <3>1 DEF ListsFor
  <2> QED
    BY <2>1, <2>2, <2>3, <2>4 DEF Quiet, ChildSteps
<1> QED
  BY <1>5, <1>6

LEMMA ListStep == Inv /\ OrderInv /\ ShapeInv /\ ListInv /\ [Next]_vars => ListInv'
<1> SUFFICES ASSUME Inv, OrderInv, ShapeInv, ListInv, [Next]_vars PROVE ListInv'
  OBVIOUS
<1>1. CASE Delete
  BY <1>1 DEF Delete, local, history, ListInv, BesideChild, ChildrenEnded, Live
<1>2. CASE UNCHANGED vars
  BY <1>2 DEF vars, store, json, local, history, ListInv, BesideChild, ChildrenEnded, ListsFor,
     ListedIn, Live
<1>3. ASSUME NEW t \in Turns, Saves(t), Truncate(t) PROVE ListInv'
  BY <1>3, EmptyingMovesNothing DEF ListInv, BesideChild, ChildrenEnded, ListsFor, ListedIn, Live
<1> QED
  BY <1>1, <1>2, <1>3, StepKinds, SaveKeepsList, QuietKeepsList

(* When an answer of the model is on disk, so is the list of every file    *)
(* that came up since the attempt that gave it began, unless the turn ran  *)
(* beside another turn or another turn's process.                          *)
THEOREM AnswersListTheirFiles == Spec => []AnswerListsItsFiles
<1>1. Init => ShapeInv /\ ListInv
  BY DEF Init, ShapeInv, ListInv, BesideChild, ChildrenEnded, ListsFor, Live, Over
<1>2. ListInv => AnswerListsItsFiles
  BY DEF ListInv, ListsFor, ListedIn, AnswerListsItsFiles, Listed
<1> QED
  BY <1>1, <1>2, ShapeStep, ListStep, OrderInvariant, PTL DEF Spec

-----------------------------------------------------------------------------
(* Who overwrites whom.  What a turn has anywhere is in its own copy while *)
(* it runs; a turn that runs lacks something that is on disk, or keeps     *)
(* something that is not, only where turns crossed.                        *)

OwnIsKept ==
  \A p \in Turns :
    /\ pc[p] = "idle" => By(p, saved) = {} /\ \A q \in Turns : By(p, copy[q]) = {}
    /\ Live(p) => /\ By(p, saved) \subseteq By(p, copy[p])
                  /\ \A q \in Turns : By(p, copy[q]) \subseteq By(p, copy[p])

NothingLacks ==
  \A p, q \in Turns : p # q /\ Live(q) =>
    By(p, saved) \subseteq By(p, copy[q]) \/ Crossed(p, q)

NothingLingers ==
  \A p, q \in Turns : p # q /\ Live(q) =>
    By(p, copy[q]) \subseteq By(p, saved) \/ p \in crossed

LossInv == OwnIsKept /\ (~deleted => NothingLacks /\ NothingLingers)

(* A save adds to the copy of its turn what is that turn's own.            *)
LEMMA SavesAddOwn ==
  ASSUME Inv, NEW t \in Turns, Saves(t), ~Truncate(t)
  PROVE  /\ \A q \in Turns \ {t} : copy'[q] = copy[q]
         /\ \A p \in Turns \ {t} : By(p, copy'[t]) = By(p, copy[t])
         /\ By(t, copy[t]) \subseteq By(t, copy'[t])
         /\ saved' \in {saved, copy'[t]}
<1>1. TypeOK /\ copy \in [Turns -> Sessions] /\ t \in Names
  BY DEF Inv, TypeOK, Names
<1>2. ASSUME NEW s \in Sessions, NEW then, NEW otherwise, Save(t, s, then, otherwise),
             copy[t].messages \subseteq s.messages,
             \A m \in s.messages \ copy[t].messages : m.turn = t,
             copy[t].artifacts \subseteq s.artifacts,
             \A a \in s.artifacts \ copy[t].artifacts : a.by = t
      PROVE  /\ \A q \in Turns \ {t} : copy'[q] = copy[q]
             /\ \A p \in Turns \ {t} : By(p, copy'[t]) = By(p, copy[t])
             /\ By(t, copy[t]) \subseteq By(t, copy'[t])
             /\ saved' \in {saved, copy'[t]}
  <2>1. copy' = [copy EXCEPT ![t] = s] /\ saved' \in {saved, s}
    BY <1>1, <1>2, SaveEither
  <2>2. copy'[t] = s /\ \A q \in Turns \ {t} : copy'[q] = copy[q]
    BY <1>1, <2>1
  <2>3. ASSUME NEW p \in Turns \ {t} PROVE By(p, s) = By(p, copy[t])
    BY <1>2 DEF By
  <2>4. By(t, copy[t]) \subseteq By(t, s)
    BY <1>2 DEF By
  <2> QED
    BY <2>1, <2>2, <2>3, <2>4
<1>3. ASSUME NEW kind \in {"user", "reply", "degraded"}, NEW then, NEW otherwise,
             Save(t, WithMessage(t, kind), then, otherwise)
      PROVE  /\ \A q \in Turns \ {t} : copy'[q] = copy[q]
             /\ \A p \in Turns \ {t} : By(p, copy'[t]) = By(p, copy[t])
             /\ By(t, copy[t]) \subseteq By(t, copy'[t])
             /\ saved' \in {saved, copy'[t]}
  <2>1. /\ WithMessage(t, kind) \in Sessions
        /\ WithMessage(t, kind).messages = copy[t].messages \cup {Message(t, kind)}
        /\ WithMessage(t, kind).artifacts = copy[t].artifacts
    BY <1>1, CopyGrows
  <2>2. Message(t, kind).turn = t
    BY DEF Message
  <2> QED
    BY <1>2, <1>3, <2>1, <2>2
<1>4. ASSUME NEW f \in Names, NEW then, NEW otherwise,
             Save(t, WithArtifact(t, f), then, otherwise)
      PROVE  /\ \A q \in Turns \ {t} : copy'[q] = copy[q]
             /\ \A p \in Turns \ {t} : By(p, copy'[t]) = By(p, copy[t])
             /\ By(t, copy[t]) \subseteq By(t, copy'[t])
             /\ saved' \in {saved, copy'[t]}
  <2>1. /\ WithArtifact(t, f) \in Sessions
        /\ WithArtifact(t, f).artifacts = copy[t].artifacts \cup {[file |-> f, by |-> t]}
        /\ WithArtifact(t, f).messages = copy[t].messages
    BY <1>1, CopyGrows
  <2> QED
    BY <1>2, <1>4, <2>1
<1>5. CASE RecordUserMessage(t)
  BY <1>3, <1>5 DEF RecordUserMessage
<1>6. CASE AppendReply(t)
  BY <1>3, <1>6 DEF AppendReply
<1>7. CASE FallbackReplies(t)
  BY <1>3, <1>7 DEF FallbackReplies
<1>8. CASE RecordUsage(t)
  <2>1. Save(t, copy[t], "done", "falling") /\ copy[t] \in Sessions
    BY <1>1, <1>8 DEF RecordUsage
  <2> QED
    BY <1>2, <2>1
<1>9. ASSUME NEW f \in Names, Register(t, f)
      PROVE  Save(t, WithArtifact(t, f), "registering", "falling")
  BY <1>9 DEF Register
<1>10. CASE FallbackRegisters(t)
  <2>1. Save(t, WithArtifact(t, t), "fallen", "errored")
    BY <1>10 DEF FallbackRegisters
  <2> QED
    BY <1>1, <1>4, <2>1
<1> QED
  BY <1>4, <1>5, <1>6, <1>7, <1>8, <1>9, <1>10 DEF Saves

(* What a save takes from disk, it takes from a turn that crossed another, *)
(* and is itself of one that did.                                          *)
LEMMA SaveLosesLittle ==
  ASSUME Inv, LossInv, ~deleted, NEW t \in Turns, Saves(t), ~Truncate(t), NEW p \in Turns
  PROVE  By(p, saved) \subseteq By(p, saved') \/ (p # t /\ Crossed(p, t))
<1>1. Live(t)
  BY SavesAreGrown
<1>2. CASE p = t
  BY <1>1, <1>2, SavesAddOwn DEF LossInv, OwnIsKept
<1>3. CASE p # t
  BY <1>1, <1>3, SavesAddOwn DEF LossInv, NothingLacks
<1> QED
  BY <1>2, <1>3

LEMMA SaveKeepsLoss ==
  ASSUME Inv, OrderInv, LossInv, NEW t \in Turns, Saves(t), ~Truncate(t)
  PROVE  LossInv'
<1>1. /\ Live(t) /\ \A q \in Turns \ {t} : pc'[q] = pc[q]
      /\ deleted' = deleted /\ crossed' = crossed
  BY SavesAreGrown
<1>2. /\ \A q \in Turns \ {t} : copy'[q] = copy[q]
      /\ \A p \in Turns \ {t} : By(p, copy'[t]) = By(p, copy[t])
      /\ By(t, copy[t]) \subseteq By(t, copy'[t])
      /\ saved' \in {saved, copy'[t]}
  BY SavesAddOwn
<1>3. pc'[t] # "idle"
  BY SavesOfOne DEF Inv
<1>4. OwnIsKept'
  <2> SUFFICES ASSUME NEW p \in Turns
               PROVE  /\ pc'[p] = "idle" =>
                           By(p, saved') = {} /\ \A q \in Turns : By(p, copy'[q]) = {}
                      /\ Live(p)' => /\ By(p, saved') \subseteq By(p, copy'[p])
                                     /\ \A q \in Turns : By(p, copy'[q]) \subseteq By(p, copy'[p])
    BY DEF OwnIsKept, By
  <2>1. CASE p = t
    <3>1. /\ By(t, saved) \subseteq By(t, copy[t])
          /\ \A q \in Turns : By(t, copy[q]) \subseteq By(t, copy[t])
      BY <1>1 DEF LossInv, OwnIsKept
    <3> QED
      BY <1>2, <1>3, <2>1, <3>1
  <2>2. CASE p # t
    <3>1. pc'[p] = pc[p] /\ (Live(p)' <=> Live(p)) /\ copy'[p] = copy[p]
      BY <1>1, <1>2, <2>2 DEF Live
    <3>2. \A q \in Turns : By(p, copy'[q]) = By(p, copy[q])
      BY <1>2, <2>2
    <3>3. By(p, saved') \in {By(p, saved), By(p, copy[t])}
      BY <1>2, <2>2
    <3> QED
      BY <3>1, <3>2, <3>3 DEF LossInv, OwnIsKept
  <2> QED
    BY <2>1, <2>2
<1>5. SUFFICES ASSUME ~deleted PROVE NothingLacks' /\ NothingLingers'
  BY <1>1, <1>4 DEF LossInv
<1>6. NothingLacks /\ NothingLingers
  BY <1>5 DEF LossInv
<1>7. SUFFICES ASSUME NEW p \in Turns, NEW q \in Turns, p # q, Live(q)'
               PROVE  /\ By(p, saved') \subseteq By(p, copy'[q]) \/ Crossed(p, q)
                      /\ By(p, copy'[q]) \subseteq By(p, saved') \/ p \in crossed
  BY <1>1 DEF NothingLacks, NothingLingers, Crossed, By
<1>8. Live(q)
  BY <1>1, <1>7 DEF Live
<1>9. /\ By(p, saved) \subseteq By(p, copy[q]) \/ Crossed(p, q)
      /\ By(p, copy[q]) \subseteq By(p, saved) \/ p \in crossed
  BY <1>6, <1>7, <1>8 DEF NothingLacks, NothingLingers
<1>10. CASE saved' = saved
  <2>1. By(p, copy'[q]) = By(p, copy[q])
    BY <1>2, <1>7
  <2> QED
    BY <1>9, <1>10, <2>1
<1>11. CASE saved' = copy'[t] /\ q = t
  BY <1>11
<1>12. CASE saved' = copy'[t] /\ q # t
  <2>1. Crossed(t, q) /\ copy'[q] = copy[q]
    BY <1>1, <1>2, <1>8, <1>12 DEF OrderInv, Beside
  <2>2. CASE p = t
    <3>1. By(t, copy[q]) \subseteq By(t, copy[t])
      BY <1>1 DEF LossInv, OwnIsKept
    <3> QED
      BY <1>2, <1>12, <2>1, <2>2, <3>1
  <2>3. CASE p # t
    <3>1. By(p, saved') = By(p, copy[t])
      BY <1>2, <1>12, <2>3
    <3>2. /\ By(p, saved) \subseteq By(p, copy[t]) \/ Crossed(p, t)
          /\ By(p, copy[t]) \subseteq By(p, saved) \/ p \in crossed
      BY <1>1, <1>6, <2>3 DEF NothingLacks, NothingLingers
    <3> QED
      BY <1>9, <2>1, <3>1, <3>2 DEF Crossed
  <2> QED
    BY <2>2, <2>3
<1> QED
  BY <1>2, <1>10, <1>11, <1>12

LEMMA QuietKeepsLoss ==
  ASSUME Inv, OrderInv, LossInv, NEW t \in Turns, Quiet(t)
  PROVE  LossInv' /\ saved' = saved /\ deleted' = deleted
<1> USE DEF store, json, local, history, Goto, EndChild
<1>1. crossed \subseteq crossed'
  BY BesideStep DEF OrderInv
<1>2. saved' = saved /\ deleted' = deleted
  BY DEF Quiet, ChildSteps, Open, StartAttempt, SpawnFails, TimeOut, ListNewFiles, PassOver,
     SkipUsage, FallbackWrites, ChildWrites, ChildEnds, ChildCrashes, ChildSaysNothing, ChildDies
<1>3. CASE Open(t)
  <2>1. pc[t] = "idle" /\ ~deleted /\ pc'[t] = "opened" /\ copy'[t] = saved
    BY <1>3 DEF Open, Opened, Inv, TypeOK
  <2>2. \A q \in Turns \ {t} : copy'[q] = copy[q] /\ pc'[q] = pc[q] /\ (Live(q)' <=> Live(q))
    BY <1>3 DEF Open, Live, Inv, TypeOK
  <2>3. By(t, saved) = {} /\ \A q \in Turns : By(t, copy[q]) = {}
    BY <2>1 DEF LossInv, OwnIsKept
  <2>4. OwnIsKept'
    <3> SUFFICES ASSUME NEW p \in Turns
                 PROVE  /\ pc'[p] = "idle" =>
                             By(p, saved) = {} /\ \A q \in Turns : By(p, copy'[q]) = {}
                        /\ Live(p)' => /\ By(p, saved) \subseteq By(p, copy'[p])
                                       /\ \A q \in Turns : By(p, copy'[q]) \subseteq By(p, copy'[p])
      BY <1>2 DEF OwnIsKept, By
    <3>1. CASE p = t
      BY <2>1, <2>2, <2>3, <3>1
    <3>2. CASE p # t
      <4>1. /\ pc[p] = "idle" => By(p, saved) = {} /\ \A q \in Turns : By(p, copy[q]) = {}
            /\ Live(p) => /\ By(p, saved) \subseteq By(p, copy[p])
                          /\ \A q \in Turns : By(p, copy[q]) \subseteq By(p, copy[p])
        BY DEF LossInv, OwnIsKept
      <4> QED
        BY <2>1, <2>2, <3>2, <4>1
    <3> QED
      BY <3>1, <3>2
  <2>5. SUFFICES ASSUME NEW p \in Turns, NEW q \in Turns, p # q, Live(q)'
                 PROVE  /\ By(p, saved) \subseteq By(p, copy'[q]) \/ Crossed(p, q)
                        /\ By(p, copy'[q]) \subseteq By(p, saved) \/ p \in crossed
    BY <1>1, <1>2, <2>4 DEF LossInv, NothingLacks, NothingLingers, Crossed, By
  <2>6. CASE q = t
    BY <2>1, <2>6
  <2>7. CASE q # t
    BY <2>1, <2>2, <2>5, <2>7 DEF LossInv, NothingLacks, NothingLingers
  <2> QED
    BY <2>6, <2>7
<1>4. CASE ~Open(t)
  <2>1. copy' = copy
    BY <1>4 DEF Quiet, ChildSteps, StartAttempt, SpawnFails, TimeOut, ListNewFiles, PassOver,
       SkipUsage, FallbackWrites, ChildWrites, ChildEnds, ChildCrashes, ChildSaysNothing, ChildDies
  <2>2. pc' = pc \/ (Live(t) /\ pc'[t] # "idle")
    BY <1>4, QuietMoves DEF Quiet, ChildSteps, StartAttempt, SpawnFails, TimeOut, TimerRuns,
       ListNewFiles, PassOver, SkipUsage, FallbackWrites, ChildWrites, ChildEnds, ChildCrashes,
       ChildSaysNothing, ChildDies, Live, Over
  <2>3. \A q \in Turns : (Live(q)' => Live(q)) /\ (pc'[q] = "idle" => pc[q] = "idle")
    BY <2>2, QuietMoves DEF Live
  <2> QED
    BY <1>1, <1>2, <2>1, <2>3 DEF LossInv, OwnIsKept, NothingLacks, NothingLingers, Crossed, By
<1> QED
  BY <1>2, <1>3, <1>4

LEMMA LossStep == Inv /\ OrderInv /\ LossInv /\ [Next]_vars => LossInv'
<1> SUFFICES ASSUME Inv, OrderInv, LossInv, [Next]_vars PROVE LossInv'
  OBVIOUS
<1>1. CASE Delete
  <2>1. \A p : By(p, saved') = {}
    BY <1>1 DEF Delete, EmptySession, By
  <2> QED
    BY <1>1, <2>1 DEF Delete, local, LossInv, OwnIsKept, Live, By
<1>2. CASE UNCHANGED vars
  BY <1>2 DEF vars, store, json, local, history, LossInv, OwnIsKept, NothingLacks, NothingLingers,
     Crossed, Live, By
<1>3. ASSUME NEW t \in Turns, Saves(t), Truncate(t) PROVE LossInv'
  BY <1>3, EmptyingMovesNothing DEF LossInv, OwnIsKept, NothingLacks, NothingLingers, Crossed,
     Live, By
<1> QED
  BY <1>1, <1>2, <1>3, StepKinds, SaveKeepsLoss, QuietKeepsLoss

(* What a turn has on disk it loses only when it ran beside another one,   *)
(* and only to another turn that crossed one too and still runs.           *)
THEOREM OverwritesNeedACrossing == Spec => OnlyCrossedTurnsLose
<1>1. Init => LossInv
  <2> SUFFICES ASSUME Init PROVE LossInv
    OBVIOUS
  <2>1. \A p : By(p, EmptySession) = {}
    BY DEF EmptySession, By
  <2>2. saved = EmptySession /\ \A q \in Turns : copy[q] = EmptySession /\ ~Live(q)
    BY DEF Init, Live, Over
  <2> QED
    BY <2>1, <2>2 DEF LossInv, OwnIsKept, NothingLacks, NothingLingers
<1>2. ASSUME Inv, OrderInv, LossInv, [Next]_vars, ~deleted', NEW p \in Turns
      PROVE  By(p, saved) \subseteq By(p, saved') \/ MayLose(p)
  <2>1. ASSUME NEW t \in Turns, Saves(t), ~Truncate(t)
        PROVE  By(p, saved) \subseteq By(p, saved') \/ MayLose(p)
    <3>1. Live(t) /\ ~deleted
      BY <1>2, <2>1, SavesAreGrown
    <3>2. By(p, saved) \subseteq By(p, saved') \/ (p # t /\ Crossed(p, t))
      BY <1>2, <2>1, <3>1, SaveLosesLittle
    <3> QED
      BY <3>1, <3>2 DEF MayLose, Crossed
  <2>2. ASSUME NEW t \in Turns, Quiet(t) PROVE saved' = saved
    BY <1>2, <2>2, QuietKeepsLoss
  <2>3. ~Delete /\ (UNCHANGED vars => saved' = saved)
    BY <1>2 DEF Delete, vars, store, json
  <2>4. ASSUME NEW t \in Turns, Saves(t), Truncate(t) PROVE saved' = saved
    BY <2>4, EmptyingMovesNothing
  <2> QED
    BY <1>2, <2>1, <2>2, <2>3, <2>4, StepKinds
<1>3. Inv /\ OrderInv /\ LossInv /\ [Next]_vars
        => [~deleted' => \A p \in Turns : By(p, saved) \subseteq By(p, saved') \/ MayLose(p)]_vars
  BY <1>2
<1> QED
  BY <1>1, <1>3, LossStep, OrderInvariant, PTL DEF Spec, OnlyCrossedTurnsLose

-----------------------------------------------------------------------------
(* No turn goes back.                                                      *)

(* How many moves a turn has left at most, but for the files it registers  *)
(* and for the emptying of the file before each save.                      *)
MovesLeft(t) ==
  CASE pc[t] = "idle"           -> 12
    [] pc[t] = "opened"         -> 11
    [] pc[t] = "asked"          -> IF attempt[t] = 0 THEN 10 ELSE 8
    [] pc[t] = "running"        -> IF attempt[t] = 1 THEN 9 ELSE 7
    [] pc[t] = "ran"            -> 6
    [] pc[t] = "registering"    -> 5
    [] pc[t] = "metering"       -> 4
    [] pc[t] = "falling"        -> 3
    [] pc[t] = "fallenWithFile" -> 2
    [] pc[t] = "fallen"         -> 1
    [] OTHER                    -> 0

(* No turn goes back or round in a circle: each of its moves leaves fewer  *)
(* to make, or a file less to register; the second attempt is the last.    *)
(* Where a turn does not move, a save it has begun stays begun.            *)
EveryMoveAdvances ==
  [][\A t \in Turns :
       \/ pc'[t] = pc[t] /\ fresh'[t] = fresh[t] /\ (t \in writing => t \in writing')
       \/ MovesLeft(t)' < MovesLeft(t)
       \/ pc'[t] = pc[t] /\ fresh'[t] \subseteq fresh[t] /\ fresh'[t] # fresh[t]]_vars

LEMMA SaveAdvances ==
  ASSUME Inv, NEW t \in Turns, Saves(t), ~Truncate(t)
  PROVE  \/ MovesLeft(t)' < MovesLeft(t)
         \/ pc'[t] = pc[t] /\ fresh'[t] \subseteq fresh[t] /\ fresh'[t] # fresh[t]
<1>1. pc \in [Turns -> Over \cup {"opened", "asked", "running", "ran", "registering",
                                "metering", "falling", "fallenWithFile", "fallen"}]
      /\ fresh \in [Turns -> SUBSET Names]
  BY DEF Inv, TypeOK
<1>2. CASE \E f \in Names : Register(t, f)
  <2>1. /\ pc[t] = "registering" /\ pc'[t] \in {"registering", "falling"}
        /\ fresh'[t] \subseteq fresh[t] /\ (fresh'[t] # fresh[t] \/ pc'[t] = "falling")
    BY <1>1, <1>2 DEF Register, Save, Fill, Fail, Fault, Goto
  <2> QED
    BY <2>1 DEF MovesLeft
<1>3. CASE RecordUserMessage(t)
  <2>1. pc[t] = "opened" /\ pc'[t] \in {"asked", "errored"}
    BY <1>1, <1>3 DEF RecordUserMessage, Save, Fill, Fail, Fault, Goto
  <2> QED
    BY <2>1 DEF MovesLeft
<1>4. CASE AppendReply(t) \/ RecordUsage(t)
  <2>1. \/ pc[t] = "registering" /\ pc'[t] \in {"metering", "falling"}
        \/ pc[t] = "metering" /\ pc'[t] \in {"done", "falling"}
    BY <1>1, <1>4 DEF AppendReply, RecordUsage, Save, Fill, Fail, Fault, Goto
  <2> QED
    BY <2>1 DEF MovesLeft
<1>5. CASE FallbackRegisters(t) \/ FallbackReplies(t)
  <2>1. \/ pc[t] = "fallenWithFile" /\ pc'[t] \in {"fallen", "errored"}
        \/ pc[t] \in {"falling", "fallen"} /\ pc'[t] \in {"done", "errored"}
    BY <1>1, <1>5 DEF FallbackRegisters, FallbackReplies, Save, Fill, Fail, Fault, Goto
  <2> QED
    BY <2>1 DEF MovesLeft
<1> QED
  BY <1>2, <1>3, <1>4, <1>5 DEF Saves

(* Only a first attempt leads back to where attempts start.                *)
LEMMA QuietAdvances ==
  ASSUME Inv, NEW t \in Turns, Quiet(t)
  PROVE  \/ pc'[t] = pc[t] /\ fresh'[t] = fresh[t] /\ writing' = writing
         \/ MovesLeft(t)' < MovesLeft(t)
         \/ pc'[t] = pc[t] /\ fresh'[t] \subseteq fresh[t] /\ fresh'[t] # fresh[t]
<1> USE DEF store, json, local, history
<1>1. /\ pc \in [Turns -> Over \cup {"opened", "asked", "running", "ran", "registering",
                                   "metering", "falling", "fallenWithFile", "fallen"}]
      /\ attempt \in [Turns -> 0..2]
      /\ fresh \in [Turns -> SUBSET Names]
      /\ pc[t] = "asked" => attempt[t] \in 0..1
  BY DEF Inv, TypeOK, AttemptsLeft
<1>2. CASE StartAttempt(t)
  <2>1. pc[t] = "asked" /\ pc'[t] = "running" /\ attempt'[t] = attempt[t] + 1
    BY <1>1, <1>2 DEF StartAttempt, Goto
  <2> QED
    BY <1>1, <2>1 DEF MovesLeft
<1>3. CASE ChildCrashes(t)
  <2>1. /\ pc[t] = "running" /\ attempt' = attempt
        /\ pc'[t] = "falling" \/ (attempt[t] = 1 /\ pc'[t] = "asked")
    BY <1>1, <1>3 DEF ChildCrashes, MayRetry, Goto
  <2> QED
    BY <1>1, <2>1 DEF MovesLeft
<1>4. CASE Open(t) \/ SpawnFails(t) \/ TimeOut(t) \/ ListNewFiles(t) \/ SkipUsage(t)
  <2>1. \/ pc[t] = "idle" /\ pc'[t] = "opened"
        \/ pc[t] = "asked" /\ pc'[t] = "falling"
        \/ pc[t] = "running" /\ pc'[t] = "falling"
        \/ pc[t] = "ran" /\ pc'[t] = "registering"
        \/ pc[t] = "metering" /\ pc'[t] = "done"
    BY <1>1, <1>4 DEF Open, SpawnFails, TimeOut, TimerRuns, ListNewFiles, SkipUsage, Goto
  <2> QED
    BY <2>1 DEF MovesLeft
<1>5. CASE FallbackWrites(t) \/ ChildEnds(t) \/ ChildSaysNothing(t)
  <2>1. \/ pc[t] = "falling" /\ pc'[t] \in {"errored", "fallenWithFile"}
        \/ pc[t] = "running" /\ pc'[t] \in {"ran", "falling"}
    BY <1>1, <1>5 DEF FallbackWrites, ChildEnds, ChildSaysNothing, Goto
  <2> QED
    BY <2>1 DEF MovesLeft
<1>6. CASE \E f \in Names : PassOver(t, f)
  BY <1>1, <1>6 DEF PassOver
<1>7. CASE ChildDies(t) \/ \E f \in Files : ChildWrites(t, f)
  BY <1>7 DEF ChildDies, ChildWrites
<1> QED
  BY <1>2, <1>3, <1>4, <1>5, <1>6, <1>7 DEF Quiet, ChildSteps

(* No turn goes back or round in a circle: each of its moves leaves fewer  *)
(* to make, or a file less to register.  What is left of EveryTurnEnds is  *)
(* that some move is always made.                                          *)
THEOREM TurnsComeCloser == Spec => EveryMoveAdvances
<1> DEFINE Advances(t) ==
      \/ pc'[t] = pc[t] /\ fresh'[t] = fresh[t] /\ (t \in writing => t \in writing')
      \/ MovesLeft(t)' < MovesLeft(t)
      \/ pc'[t] = pc[t] /\ fresh'[t] \subseteq fresh[t] /\ fresh'[t] # fresh[t]
<1>1. ASSUME Inv, [Next]_vars, NEW q \in Turns PROVE Advances(q)
  <2>1. ASSUME NEW t \in Turns, Saves(t) \/ Quiet(t), t # q
        PROVE  pc'[q] = pc[q] /\ fresh'[q] = fresh[q] /\ (q \in writing => q \in writing')
    <3>1. CASE Quiet(t)
      <4>1. pc'[q] = pc[q]
        BY <1>1, <2>1, <3>1, QuietMoves
      <4>2. fresh'[q] = fresh[q] /\ writing' = writing
        BY <1>1, <2>1, <3>1 DEF Quiet, ChildSteps, Open, StartAttempt, SpawnFails, TimeOut,
           ListNewFiles, PassOver, SkipUsage, FallbackWrites, ChildWrites, ChildEnds, ChildCrashes,
           ChildSaysNothing, ChildDies, store, json, local, history, Inv, TypeOK
      <4> QED
        BY <4>1, <4>2
    <3>2. CASE Saves(t)
      <4>1. pc'[q] = pc[q] /\ fresh'[q] = fresh[q]
        BY <1>1, <2>1, <3>2, SavesOfOne DEF Inv
      <4>2. writing' \in {writing \ {t}, writing \cup {t}}
        BY <1>1, <3>2, SavesLand, EmptyingMovesNothing
      <4> QED
        BY <2>1, <4>1, <4>2
    <3> QED
      BY <2>1, <3>1, <3>2
  <2>2. ASSUME Quiet(q) \/ (Saves(q) /\ ~Truncate(q)) PROVE Advances(q)
    BY <1>1, <2>2, SaveAdvances, QuietAdvances
  <2>3. ASSUME Saves(q), Truncate(q) PROVE Advances(q)
    BY <2>3, EmptyingMovesNothing
  <2>4. Delete \/ UNCHANGED vars => pc'[q] = pc[q] /\ fresh'[q] = fresh[q] /\ writing' = writing
    BY DEF Delete, vars, store, json, local, history
  <2> QED
    BY <1>1, <2>1, <2>2, <2>3, <2>4, StepKinds
<1>2. Inv /\ [Next]_vars => [\A t \in Turns : Advances(t)]_vars
  BY <1>1
<1> QED
  BY <1>2, InvInit, InvStep, PTL DEF Spec, EveryMoveAdvances
=============================================================================
