--------------------------- MODULE RbacCacheProofs ---------------------------
(***************************************************************************)
(* RbacCache is type correct, keeps no stale entry and answers with what   *)
(* was true after the question, for any sets of people, readers and        *)
(* mutations and any number of entries.                                    *)
(***************************************************************************)
EXTENDS RbacCache, TLAPS

(* A reading of the current generation saw what the database says now,     *)
(* once every change was cleared.                                          *)
FreshReading ==
  uncleared = {} =>
    \A r \in fresh : at[r] = "loaded" => answer[r] = granted[email[r]]

Reading(r) == at[r] \in {"loading", "loaded"}

(* A shared reading is one of the current generation, of that very person, *)
(* and not over yet.                                                       *)
SharedReading ==
  \A p \in People :
    inFlight[p] # Absent => /\ inFlight[p] \in fresh
                            /\ email[inFlight[p]] = p
                            /\ Reading(inFlight[p])

(* Who waits, waits for a reading of the same person that is not over, and *)
(* what that reading saw was true after the question.                      *)
Waiting ==
  \A r \in Readers :
    at[r] = "waiting" => /\ email[joined[r]] = email[r]
                         /\ joined[r] \in Readers
                         /\ Reading(joined[r])
                         /\ at[joined[r]] = "loaded" => answer[joined[r]] \in since[r]

(* What is true now is among what was true since the question, and so is   *)
(* what a reading saw.                                                     *)
Witnessed ==
  \A r \in Readers :
    at[r] # "idle" => /\ email[r] \in People
                      /\ granted[email[r]] \in since[r]
                      /\ at[r] = "loaded" => answer[r] \in since[r]

Coherent == /\ NoStaleEntry /\ FreshReading
            /\ SharedReading /\ Waiting /\ Witnessed
            /\ AnswersAreFresh

IInv == TypeOK /\ Coherent

-----------------------------------------------------------------------------

LEMMA InitIInv == Init => IInv
  BY DEF Init, IInv, TypeOK, Coherent, NoStaleEntry, FreshReading, SharedReading,
         Waiting, Witnessed, AnswersAreFresh, Cached, Reading

(* A question: answered at once, or waiting, or a reading of its own.      *)
LEMMA AnswerKeeps ==
  ASSUME IInv, NEW r \in Readers, NEW p \in People, AnswerFromStore(r, p)
  PROVE  IInv'
<1> USE DEF AnswerFromStore, Asks, Hit, cache
<1>1. TypeOK'
  BY DEF IInv, TypeOK, Cached
<1>2. answer'[r] \in since'[r] /\ granted'[p] \in since'[r]
  BY DEF IInv, TypeOK, Coherent, NoStaleEntry, Cached
<1>3. NoStaleEntry' /\ FreshReading' /\ SharedReading'
  BY DEF IInv, TypeOK, Coherent, NoStaleEntry, FreshReading, SharedReading, Reading, Cached
<1>4. Waiting' /\ Witnessed' /\ AnswersAreFresh'
  BY <1>2 DEF IInv, TypeOK, Coherent, Waiting, Witnessed, AnswersAreFresh, Reading
<1> QED
  BY <1>1, <1>3, <1>4 DEF IInv, Coherent

LEMMA JoinKeeps ==
  ASSUME IInv, NEW r \in Readers, NEW p \in People, Join(r, p)
  PROVE  IInv'
<1> USE DEF Join, Asks, Hit, DropExpired
<1> DEFINE q == inFlight[p]
<1>1. TypeOK'
  BY DEF IInv, TypeOK, Cached
<1>2. q \in Readers /\ q \in fresh /\ q # r /\ email[q] = p /\ Reading(q)
  BY DEF IInv, TypeOK, Coherent, SharedReading, Reading
<1>3. granted[p] \in since'[r] /\ (at[q] = "loaded" => answer[q] \in since'[r])
  BY <1>2 DEF IInv, TypeOK, Coherent, FreshReading, Witnessed
<1>4. NoStaleEntry' /\ FreshReading' /\ SharedReading'
  BY <1>2 DEF IInv, TypeOK, Coherent, NoStaleEntry, FreshReading, SharedReading, Reading, Cached
<1>5. Waiting'
  BY <1>2, <1>3 DEF IInv, TypeOK, Coherent, Waiting, Reading
<1>6. Witnessed' /\ AnswersAreFresh'
  BY <1>3 DEF IInv, TypeOK, Coherent, Witnessed, AnswersAreFresh
<1> QED
  BY <1>1, <1>4, <1>5, <1>6 DEF IInv, Coherent

LEMMA LoadKeeps ==
  ASSUME IInv, NEW r \in Readers, NEW p \in People, Load(r, p)
  PROVE  IInv'
<1> USE DEF Load, Asks, Hit, DropExpired
<1>1. TypeOK'
  BY DEF IInv, TypeOK, Cached
<1>2. NoStaleEntry' /\ FreshReading'
  BY DEF IInv, TypeOK, Coherent, NoStaleEntry, FreshReading, Cached
<1>3. SharedReading'
  BY DEF IInv, TypeOK, Coherent, SharedReading, Reading
<1>4. Waiting' /\ Witnessed' /\ AnswersAreFresh'
  BY DEF IInv, TypeOK, Coherent, Waiting, Witnessed, AnswersAreFresh, Reading
<1> QED
  BY <1>1, <1>2, <1>3, <1>4 DEF IInv, Coherent

(* The reading: it runs, it arrives, it fails.                             *)
LEMMA ReadKeeps ==
  ASSUME IInv, NEW r \in Readers, Read(r)
  PROVE  IInv'
<1> USE DEF Read, cache
<1>1. TypeOK'
  BY DEF IInv, TypeOK, Coherent, Witnessed, Cached
<1>2. NoStaleEntry' /\ FreshReading'
  BY DEF IInv, TypeOK, Coherent, NoStaleEntry, FreshReading, Cached
<1>3. SharedReading'
  BY DEF IInv, TypeOK, Coherent, SharedReading, Reading
<1>4. Waiting' /\ Witnessed' /\ AnswersAreFresh'
  BY DEF IInv, TypeOK, Coherent, Waiting, Witnessed, AnswersAreFresh, Reading
<1> QED
  BY <1>1, <1>2, <1>3, <1>4 DEF IInv, Coherent

(* The end of a reading, whatever it tells those who wait for it.          *)
LEMMA EndKeeps ==
  ASSUME IInv, NEW r \in Readers, Reading(r), NEW a, Withdraw(r), Deliver(r, a),
         \/ a = Denied
         \/ at[r] = "loaded" /\ a = answer[r],
         UNCHANGED <<granted, email, since, uncleared>>
  PROVE  /\ FreshReading' /\ SharedReading' /\ Waiting' /\ Witnessed' /\ AnswersAreFresh'
         /\ inFlight' \in [People -> Readers \cup {Absent}]
         /\ fresh' \subseteq Readers
         /\ at' \in [Readers -> {"idle", "loading", "loaded", "waiting", "answered"}]
         /\ joined' \in [Readers -> Readers \cup {Absent}]
         /\ answer' \in [Readers -> Answers \cup {Denied}]
<1> DEFINE told == {r} \cup {q \in Readers : at[q] = "waiting" /\ joined[q] = r}
<1>1. \A q \in Readers : at'[q] = (IF q \in told THEN "answered" ELSE at[q])
  BY DEF Deliver
<1>2. \A q \in Readers : answer'[q] = (IF q \in told THEN a ELSE answer[q])
  BY DEF Deliver
<1>3. \A q \in Readers : joined'[q] = (IF q \in told THEN Absent ELSE joined[q])
  BY DEF Deliver
<1>4. \A q \in told : q \in Readers /\ a \in since[q] \cup {Denied}
  BY DEF IInv, Coherent, Waiting, Witnessed, Reading
<1>5. \A q \in Readers : Reading(q) /\ q # r => q \notin told
  BY DEF Reading
<1>6. a \in Answers \cup {Denied}
  BY DEF IInv, TypeOK
<1>7. FreshReading'
  BY <1>1, <1>2 DEF Withdraw, IInv, TypeOK, Coherent, FreshReading
<1>8. SharedReading'
  <2> SUFFICES ASSUME NEW p \in People, inFlight'[p] # Absent
               PROVE  /\ inFlight'[p] \in fresh' /\ email'[inFlight'[p]] = p
                      /\ Reading(inFlight[p])'
    BY DEF SharedReading, Reading
  <2>1. inFlight'[p] = inFlight[p] /\ inFlight[p] # r
    BY DEF Withdraw
  <2>2. inFlight[p] \in fresh /\ email[inFlight[p]] = p /\ Reading(inFlight[p])
        /\ inFlight[p] \in Readers
    BY <2>1 DEF IInv, TypeOK, Coherent, SharedReading
  <2> QED
    BY <2>1, <2>2, <1>1, <1>5 DEF Withdraw, Reading
<1>9. Waiting'
  <2> SUFFICES ASSUME NEW q \in Readers, at'[q] = "waiting"
               PROVE  /\ email'[joined'[q]] = email'[q]
                      /\ joined'[q] \in Readers
                      /\ Reading(joined[q])'
                      /\ at'[joined'[q]] = "loaded" => answer'[joined'[q]] \in since'[q]
    BY DEF Waiting, Reading
  <2>1. q \notin told /\ at[q] = "waiting" /\ joined'[q] = joined[q] /\ joined[q] # r
    BY <1>1, <1>3
  <2>2. /\ email[joined[q]] = email[q] /\ joined[q] \in Readers /\ Reading(joined[q])
        /\ at[joined[q]] = "loaded" => answer[joined[q]] \in since[q]
    BY <2>1 DEF IInv, Coherent, Waiting
  <2>3. joined[q] \notin told
    BY <1>5, <2>1, <2>2
  <2> QED
    BY <1>1, <1>2, <2>1, <2>2, <2>3 DEF Reading
<1>10. Witnessed' /\ AnswersAreFresh'
  <2>1. \A q \in told : at[q] # "idle"
    BY DEF Reading
  <2> QED
    BY <2>1, <1>1, <1>2, <1>4 DEF IInv, Coherent, Witnessed, AnswersAreFresh
<1>11. inFlight' \in [People -> Readers \cup {Absent}] /\ fresh' \subseteq Readers
  BY DEF Withdraw, IInv, TypeOK
<1>12. /\ at' \in [Readers -> {"idle", "loading", "loaded", "waiting", "answered"}]
       /\ joined' \in [Readers -> Readers \cup {Absent}]
       /\ answer' \in [Readers -> Answers \cup {Denied}]
  BY <1>6 DEF Deliver, IInv, TypeOK
<1> QED
  BY <1>7, <1>8, <1>9, <1>10, <1>11, <1>12

(* What is remembered of a reading is what the database says.              *)
LEMMA RememberKeeps ==
  ASSUME IInv, NEW r \in Readers, at[r] = "loaded",
         UNCHANGED <<granted, uncleared>>,
         \/ SameGeneration(r) /\ Remember(email[r], answer[r])
         \/ ~SameGeneration(r) /\ UNCHANGED <<store, expired>>
  PROVE  /\ NoStaleEntry'
         /\ store' \in [People -> Answers \cup {Absent}]
         /\ expired' \subseteq Cached'
<1>1. CASE SameGeneration(r) /\ Remember(email[r], answer[r])
  <2> DEFINE p == email[r]
  <2>1. p \in People /\ answer[r] \in Answers
    BY DEF IInv, TypeOK, Coherent, Witnessed
  <2>2. PICK gone \in GivenUp(p) :
          /\ store' = [q \in People |-> IF q = p THEN answer[r]
                                        ELSE IF q \in gone THEN Absent ELSE store[q]]
          /\ expired' = expired \ (gone \cup {p})
    BY <1>1 DEF Remember
  <2>3. uncleared = {} => answer[r] = granted[p]
    BY <1>1 DEF IInv, Coherent, FreshReading, SameGeneration
  <2> QED
    BY <2>1, <2>2, <2>3 DEF IInv, TypeOK, Coherent, NoStaleEntry, Cached
<1>2. CASE UNCHANGED <<store, expired>>
  BY <1>2 DEF IInv, TypeOK, Coherent, NoStaleEntry, Cached
<1> QED
  BY <1>1, <1>2

LEMMA ResolveKeeps ==
  ASSUME IInv, NEW r \in Readers, Resolve(r)
  PROVE  IInv'
<1>1. at[r] = "loaded" /\ Reading(r) /\ Withdraw(r) /\ Deliver(r, answer[r])
      /\ UNCHANGED <<granted, email, since, uncleared>>
  BY DEF Resolve, Reading
<1>2. /\ NoStaleEntry' /\ store' \in [People -> Answers \cup {Absent}]
      /\ expired' \subseteq Cached'
  BY <1>1, RememberKeeps DEF Resolve
<1>3. /\ FreshReading' /\ SharedReading' /\ Waiting' /\ Witnessed' /\ AnswersAreFresh'
      /\ inFlight' \in [People -> Readers \cup {Absent}]
      /\ fresh' \subseteq Readers
      /\ at' \in [Readers -> {"idle", "loading", "loaded", "waiting", "answered"}]
      /\ joined' \in [Readers -> Readers \cup {Absent}]
      /\ answer' \in [Readers -> Answers \cup {Denied}]
  BY <1>1, EndKeeps
<1> QED
  BY <1>1, <1>2, <1>3 DEF IInv, TypeOK, Coherent

LEMMA FailKeeps ==
  ASSUME IInv, NEW r \in Readers, Fail(r)
  PROVE  IInv'
<1>1. /\ Reading(r) /\ Withdraw(r) /\ Deliver(r, Denied)
      /\ UNCHANGED <<granted, store, expired, email, since, uncleared>>
  BY DEF Fail, Reading
<1>2. /\ FreshReading' /\ SharedReading' /\ Waiting' /\ Witnessed' /\ AnswersAreFresh'
      /\ inFlight' \in [People -> Readers \cup {Absent}]
      /\ fresh' \subseteq Readers
      /\ at' \in [Readers -> {"idle", "loading", "loaded", "waiting", "answered"}]
      /\ joined' \in [Readers -> Readers \cup {Absent}]
      /\ answer' \in [Readers -> Answers \cup {Denied}]
  BY <1>1, EndKeeps
<1> QED
  BY <1>1, <1>2 DEF IInv, TypeOK, Coherent, NoStaleEntry, Cached

LEMMA LeaveKeeps ==
  ASSUME IInv, NEW r \in Readers, Leave(r)
  PROVE  IInv'
<1> USE DEF Leave, cache
<1>1. TypeOK'
  BY DEF IInv, TypeOK, Cached
<1>2. NoStaleEntry' /\ FreshReading' /\ SharedReading'
  BY DEF IInv, TypeOK, Coherent, NoStaleEntry, FreshReading, SharedReading, Reading, Cached
<1>3. Waiting' /\ Witnessed' /\ AnswersAreFresh'
  BY DEF IInv, TypeOK, Coherent, Waiting, Witnessed, AnswersAreFresh, Reading
<1> QED
  BY <1>1, <1>2, <1>3 DEF IInv, Coherent

LEMMA ExpireKeeps ==
  ASSUME IInv, NEW p \in People, Expire(p)
  PROVE  IInv'
BY DEF Expire, Hit, readers, IInv, TypeOK, Coherent, NoStaleEntry, FreshReading,
       SharedReading, Waiting, Witnessed, AnswersAreFresh, Reading, Cached

(* A change commits: no entry need be right until it is cleared, and what  *)
(* becomes true joins what may be answered.                                *)
LEMMA MutateKeeps ==
  ASSUME IInv, NEW m \in Mutations, granted' \in [People -> Answers], Mutate(m)
  PROVE  IInv'
<1> USE DEF Mutate, Witness, cache
<1>1. uncleared' # {}
  OBVIOUS
<1>2. TypeOK'
  BY DEF IInv, TypeOK, Coherent, Witnessed, Cached
<1>3. NoStaleEntry' /\ FreshReading' /\ SharedReading'
  BY <1>1 DEF IInv, TypeOK, Coherent, NoStaleEntry, FreshReading, SharedReading, Reading
<1>4. Waiting' /\ Witnessed' /\ AnswersAreFresh'
  BY DEF IInv, TypeOK, Coherent, Waiting, Witnessed, AnswersAreFresh, Reading
<1> QED
  BY <1>2, <1>3, <1>4 DEF IInv, Coherent

(* A clearing leaves nothing that could be stale.                          *)
LEMMA ClearKeeps ==
  ASSUME IInv, NEW m \in Mutations, Clear(m)
  PROVE  IInv'
<1> USE DEF Clear, Empty, readers
<1>1. TypeOK'
  BY DEF IInv, TypeOK, Cached
<1>2. NoStaleEntry' /\ FreshReading' /\ SharedReading'
  BY DEF NoStaleEntry, FreshReading, SharedReading, Cached
<1>3. Waiting' /\ Witnessed' /\ AnswersAreFresh'
  BY DEF IInv, Coherent, Waiting, Witnessed, AnswersAreFresh, Reading
<1> QED
  BY <1>1, <1>2, <1>3 DEF IInv, Coherent

-----------------------------------------------------------------------------

LEMMA NextIInv == IInv /\ [Next]_vars => IInv'
<1> SUFFICES ASSUME IInv, [Next]_vars PROVE IInv'
  OBVIOUS
<1>1. CASE \E r \in Readers : ReaderStep(r)
  BY <1>1, AnswerKeeps, JoinKeeps, LoadKeeps, ReadKeeps, ResolveKeeps, FailKeeps, LeaveKeeps
     DEF ReaderStep, Ask
<1>2. CASE \E p \in People : Expire(p)
  BY <1>2, ExpireKeeps
<1>3. CASE \E m \in Mutations : granted' \in [People -> Answers] /\ Mutate(m)
  BY <1>3, MutateKeeps
<1>4. CASE \E m \in Mutations : Clear(m)
  BY <1>4, ClearKeeps
<1>5. CASE UNCHANGED vars
  BY <1>5 DEF vars, cache, readers, IInv, TypeOK, Coherent, NoStaleEntry, FreshReading,
              SharedReading, Waiting, Witnessed, AnswersAreFresh, Reading, Cached
<1> QED
  BY <1>1, <1>2, <1>3, <1>4, <1>5 DEF Next

(* Reachable states are well typed and coherent.                           *)
THEOREM AlwaysCoherent == Spec => []IInv
<1> QED
  BY InitIInv, NextIInv, PTL DEF Spec

(* Every variable keeps its type.                                          *)
THEOREM TypeCorrect == Spec => []TypeOK
<1>1. IInv => TypeOK
  BY DEF IInv
<1> QED
  BY <1>1, AlwaysCoherent, PTL

(* However readings, changes and clearings cross, no entry is out of date  *)
(* once every change was followed by its clearing: the generation counter  *)
(* of rbac.ts does what it is there for.                                   *)
THEOREM StoreIsFresh == Spec => []NoStaleEntry
<1>1. IInv => NoStaleEntry
  BY DEF IInv, Coherent
<1> QED
  BY <1>1, AlwaysCoherent, PTL

(* A gate that shares a reading answers with what was true after its own   *)
(* question, or denies.                                                    *)
THEOREM GateAnswersAreFresh == Spec => []AnswersAreFresh
<1>1. IInv => AnswersAreFresh
  BY DEF IInv, Coherent
<1> QED
  BY <1>1, AlwaysCoherent, PTL
=============================================================================
