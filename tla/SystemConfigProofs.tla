------------------------- MODULE SystemConfigProofs -------------------------
(***************************************************************************)
(* Proofs about SystemConfig, for every set of users, roles and calls and  *)
(* every size of the cache: the module stays reachable unless a write took *)
(* no lock, the calls use the cache as RbacCache says, and so what is      *)
(* proved of RbacCache holds of the cache the gate asks.                   *)
(***************************************************************************)
EXTENDS SystemConfig, TLAPS

-----------------------------------------------------------------------------
(* The tables and the transactions.                                        *)

DirectoryTypes ==
  /\ active \in [Users -> BOOLEAN]
  /\ roles \subseteq Roles
  /\ holds \subseteq Users \X roles
  /\ grants \subseteq roles
  /\ pc \in [Calls -> {"idle", "opened", "checked", "committed"}]
  /\ op \in [Calls -> Ops \cup {NoOp}]
  /\ overwritten \in BOOLEAN
  /\ overtaken \subseteq {c \in Calls : pc[c] = "checked"}

(* One transaction at a time is past its check: the lock is on one row.    *)
OneChecked ==
  \A c \in Calls :
    pc[c] = "checked" => Locks(op[c]) /\ \A d \in Calls : pc[d] = "checked" => d = c

(* What was checked still holds, unless a writer without the lock overtook *)
(* the check: nobody else changes what a check has read.                   *)
CheckStillHolds ==
  \A c \in Calls \ overtaken : pc[c] = "checked" => Allowed(op[c])

(* Until the first such write the module is reachable and no check stale.  *)
ReachedSoFar == overwritten \/ (Reachable /\ overtaken = {})

TablesInv == DirectoryTypes /\ OneChecked /\ CheckStillHolds /\ ReachedSoFar

LEMMA InitTables == Init => TablesInv
  BY DEF Init, TablesInv, DirectoryTypes, OneChecked, CheckStillHolds, ReachedSoFar

LEMMA OpCases ==
  ASSUME NEW o \in Ops \cup {NoOp}
  PROVE  \/ o = NoOp
         \/ \E u \in Users, rs \in SUBSET Roles : o = UserRoles(u, rs)
         \/ \E rs \in SUBSET Roles : o = ModuleRoles(rs)
         \/ \E r \in Roles, on \in BOOLEAN : o = RoleTiles(r, on)
         \/ \E r \in Roles : o = DropRole(r)
         \/ \E u \in Users, next \in BOOLEAN, changed \in BOOLEAN : o = Patch(u, next, changed)
  BY DEF Ops

(* Every change leaves tables that refer to what exists.                   *)
LEMMA WritesAreTyped ==
  ASSUME TablesInv, NEW o \in Ops \cup {NoOp}, Effective(o)
  PROVE  /\ ActiveAfter(o) \in [Users -> BOOLEAN]
         /\ RolesAfter(o) \subseteq Roles
         /\ HoldsAfter(o) \subseteq Users \X RolesAfter(o)
         /\ GrantsAfter(o) \subseteq RolesAfter(o)
<1> USE DEF TablesInv, DirectoryTypes, ActiveAfter, RolesAfter, HoldsAfter, GrantsAfter,
            Effective, Named
<1>1. CASE o = NoOp
  BY <1>1 DEF NoOp
<1>2. ASSUME NEW u \in Users, NEW rs \in SUBSET Roles, o = UserRoles(u, rs)
      PROVE  /\ ActiveAfter(o) \in [Users -> BOOLEAN] /\ RolesAfter(o) \subseteq Roles
             /\ HoldsAfter(o) \subseteq Users \X RolesAfter(o)
             /\ GrantsAfter(o) \subseteq RolesAfter(o)
  BY <1>2 DEF UserRoles
<1>3. ASSUME NEW rs \in SUBSET Roles, o = ModuleRoles(rs)
      PROVE  /\ ActiveAfter(o) \in [Users -> BOOLEAN] /\ RolesAfter(o) \subseteq Roles
             /\ HoldsAfter(o) \subseteq Users \X RolesAfter(o)
             /\ GrantsAfter(o) \subseteq RolesAfter(o)
  BY <1>3 DEF ModuleRoles
<1>4. ASSUME NEW r \in Roles, NEW on \in BOOLEAN, o = RoleTiles(r, on)
      PROVE  /\ ActiveAfter(o) \in [Users -> BOOLEAN] /\ RolesAfter(o) \subseteq Roles
             /\ HoldsAfter(o) \subseteq Users \X RolesAfter(o)
             /\ GrantsAfter(o) \subseteq RolesAfter(o)
  BY <1>4 DEF RoleTiles
<1>5. ASSUME NEW r \in Roles, o = DropRole(r)
      PROVE  /\ ActiveAfter(o) \in [Users -> BOOLEAN] /\ RolesAfter(o) \subseteq Roles
             /\ HoldsAfter(o) \subseteq Users \X RolesAfter(o)
             /\ GrantsAfter(o) \subseteq RolesAfter(o)
  BY <1>5 DEF DropRole
<1>6. ASSUME NEW u \in Users, NEW next \in BOOLEAN, NEW changed \in BOOLEAN,
             o = Patch(u, next, changed)
      PROVE  /\ ActiveAfter(o) \in [Users -> BOOLEAN] /\ RolesAfter(o) \subseteq Roles
             /\ HoldsAfter(o) \subseteq Users \X RolesAfter(o)
             /\ GrantsAfter(o) \subseteq RolesAfter(o)
  BY <1>6 DEF Patch
<1> QED
  BY OpCases, <1>1, <1>2, <1>3, <1>4, <1>5, <1>6

(* A change without a lock is a PATCH of a user, and no other table's.     *)
LEMMA LocklessWrites ==
  ASSUME NEW o \in Ops \cup {NoOp}, ~Locks(o)
  PROVE  RolesAfter(o) = roles /\ HoldsAfter(o) = holds /\ GrantsAfter(o) = grants
BY DEF Locks, RolesAfter, HoldsAfter, GrantsAfter

(* While the tables stand still, what a check found of a change does.      *)
LEMMA SameTablesSameOutcome ==
  ASSUME UNCHANGED directory, NEW c, op'[c] = op[c]
  PROVE  Allowed(op[c])' <=> Allowed(op[c])
BY DEF directory, Allowed, Reachable, ActiveUsers, ReachableAfter, ActiveAfter, GrantsAfter,
       HoldsAfter, SomeoneHolds

LEMMA SameTablesSameReach == UNCHANGED directory => (Reachable' <=> Reachable)
BY DEF directory, Reachable, ActiveUsers, SomeoneHolds

(* A step that leaves the tables alone and checks nothing.                 *)
LEMMA QuietKeepsTables ==
  ASSUME TablesInv, UNCHANGED <<directory, overwritten>>,
         pc' \in [Calls -> {"idle", "opened", "checked", "committed"}],
         op' \in [Calls -> Ops \cup {NoOp}],
         \A c \in Calls : pc'[c] = "checked" => pc[c] = "checked" /\ op'[c] = op[c],
         overtaken' = overtaken \cap {c \in Calls : pc'[c] = "checked"}
  PROVE  TablesInv'
<1>1. DirectoryTypes'
  BY DEF TablesInv, DirectoryTypes, directory
<1>2. OneChecked'
  BY DEF TablesInv, OneChecked, Locks
<1>3. ReachedSoFar'
  BY SameTablesSameReach DEF TablesInv, ReachedSoFar
<1>4. CheckStillHolds'
  <2> SUFFICES ASSUME NEW c \in Calls \ overtaken', pc'[c] = "checked" PROVE Allowed(op[c])'
    BY DEF CheckStillHolds
  <2>1. pc[c] = "checked" /\ op'[c] = op[c] /\ c \notin overtaken
    OBVIOUS
  <2> QED
    BY <2>1, SameTablesSameOutcome DEF TablesInv, CheckStillHolds
<1> QED
  BY <1>1, <1>2, <1>3, <1>4 DEF TablesInv

LEMMA CheckKeepsTables ==
  ASSUME TablesInv, NEW c \in Calls, Check(c)
  PROVE  TablesInv'
<1> USE DEF Check, Goto, history
<1>1. \A d \in Calls : pc[d] # "checked"
  BY DEF TablesInv, OneChecked, LockFree
<1>2. DirectoryTypes'
  BY <1>1 DEF TablesInv, DirectoryTypes, directory
<1>3. OneChecked'
  BY <1>1 DEF TablesInv, DirectoryTypes, OneChecked, Locks
<1>4. ReachedSoFar'
  BY SameTablesSameReach DEF TablesInv, ReachedSoFar
<1>5. CheckStillHolds'
  BY <1>1, SameTablesSameOutcome DEF TablesInv, DirectoryTypes, CheckStillHolds
<1> QED
  BY <1>2, <1>3, <1>4, <1>5 DEF TablesInv

(* The commit of a change under the lock is the commit of what was checked;*)
(* one without the lock changes an activity or changes nothing.            *)
LEMMA CommitKeepsTables ==
  ASSUME TablesInv, NEW c \in Calls, Commit(c)
  PROVE  TablesInv'
<1> DEFINE o == op[c]
           lockless == ~Locks(o) /\ active # ActiveAfter(o)
           checked == {d \in Calls : pc[d] = "checked"}
<1>1. /\ active' = ActiveAfter(o) /\ roles' = RolesAfter(o)
      /\ holds' = HoldsAfter(o) /\ grants' = GrantsAfter(o)
      /\ overwritten' = (overwritten \/ lockless)
      /\ overtaken' = (overtaken \cup (IF lockless THEN checked ELSE {})) \ {c}
      /\ pc' = [pc EXCEPT ![c] = "committed"] /\ op' = op
      /\ MayWrite(c) /\ Effective(o)
  BY DEF Commit, Goto, NoteOverwrite
<1>2. /\ o \in Ops \cup {NoOp} /\ op \in [Calls -> Ops \cup {NoOp}]
      /\ pc \in [Calls -> {"idle", "opened", "checked", "committed"}]
      /\ overwritten \in BOOLEAN /\ overtaken \subseteq checked
  BY DEF TablesInv, DirectoryTypes
<1> HIDE DEF o
<1>3. DirectoryTypes'
  <2>1. overwritten' \in BOOLEAN /\ overtaken' \subseteq {d \in Calls : pc'[d] = "checked"}
    BY <1>1, <1>2
  <2> QED
    BY <1>1, <1>2, <2>1, WritesAreTyped DEF DirectoryTypes
<1>4. OneChecked'
  BY <1>1, <1>2 DEF TablesInv, OneChecked, Locks
<1>5. CASE Locks(o)
  <2>1. pc[c] = "checked"
    BY <1>1, <1>5 DEF MayWrite, o
  <2>2. \A d \in Calls : pc'[d] # "checked"
    BY <1>1, <1>2, <2>1 DEF TablesInv, OneChecked
  <2>3. ~overwritten => Reachable'
    BY <1>1, <2>1 DEF TablesInv, ReachedSoFar, CheckStillHolds, Allowed, ReachableAfter,
                      Reachable, ActiveUsers, SomeoneHolds, o
  <2>4. ReachedSoFar'
    BY <1>1, <1>2, <1>5, <2>3 DEF TablesInv, ReachedSoFar
  <2> QED
    BY <1>3, <1>4, <2>2, <2>4 DEF TablesInv, CheckStillHolds
<1>6. CASE ~Locks(o) /\ ~lockless
  <2>1. UNCHANGED directory
    BY <1>1, <1>2, <1>6, LocklessWrites DEF directory
  <2>2. ReachedSoFar'
    BY <1>1, <1>2, <1>6, <2>1, SameTablesSameReach DEF TablesInv, ReachedSoFar
  <2>3. CheckStillHolds'
    <3> SUFFICES ASSUME NEW d \in Calls \ overtaken', pc'[d] = "checked"
                 PROVE  Allowed(op[d])'
      BY DEF CheckStillHolds
    <3>1. d # c /\ pc[d] = "checked" /\ d \notin overtaken /\ op'[d] = op[d]
      BY <1>1, <1>2
    <3> QED
      BY <2>1, <3>1, SameTablesSameOutcome DEF TablesInv, CheckStillHolds
  <2> QED
    BY <1>3, <1>4, <2>2, <2>3 DEF TablesInv
<1>7. CASE lockless
  <2>1. \A d \in Calls : pc'[d] = "checked" => d \in overtaken'
    BY <1>1, <1>2, <1>7
  <2> QED
    BY <1>1, <1>3, <1>4, <1>7, <2>1 DEF TablesInv, CheckStillHolds, ReachedSoFar
<1> QED
  BY <1>5, <1>6, <1>7

LEMMA NextTables == TablesInv /\ [Next]_vars => TablesInv'
<1> SUFFICES ASSUME TablesInv, [Next]_vars PROVE TablesInv'
  OBVIOUS
<1>1. /\ pc \in [Calls -> {"idle", "opened", "checked", "committed"}]
      /\ op \in [Calls -> Ops \cup {NoOp}]
      /\ overtaken \subseteq {c \in Calls : pc[c] = "checked"}
  BY DEF TablesInv, DirectoryTypes
<1> USE DEF history
<1>2. ASSUME NEW c \in Calls, NEW u \in Users, Knock(c, u) \/ EntryExpires(u) PROVE TablesInv'
  BY <1>1, <1>2, QuietKeepsTables DEF Knock, EntryExpires
<1>3. ASSUME NEW c \in Calls, GateReads(c) \/ TurnAway(c) PROVE TablesInv'
  BY <1>1, <1>3, QuietKeepsTables DEF GateReads, TurnAway
<1>4. ASSUME NEW c \in Calls, NEW o \in Ops, Open(c, o) PROVE TablesInv'
  BY <1>1, <1>4, QuietKeepsTables DEF Open, Goto
<1>5. ASSUME NEW c \in Calls, Refuse(c) \/ Abandon(c) \/ Clear(c) PROVE TablesInv'
  <2>1. /\ UNCHANGED <<directory, overwritten>>
        /\ pc' = [pc EXCEPT ![c] = "idle"] /\ op' = [op EXCEPT ![c] = NoOp]
    BY <1>5 DEF Refuse, Abandon, Clear, Done, Goto
  <2>2. overtaken' = overtaken \cap {d \in Calls : pc'[d] = "checked"}
    BY <1>1, <1>5, <2>1 DEF Refuse, Abandon, Clear
  <2> QED
    BY <1>1, <2>1, <2>2, QuietKeepsTables
<1>6. CASE UNCHANGED vars
  BY <1>1, <1>6, QuietKeepsTables DEF vars
<1>7. CASE \E c \in Calls : CallStep(c)
  BY <1>7, <1>2, <1>3, <1>4, <1>5, CheckKeepsTables, CommitKeepsTables DEF CallStep
<1>8. CASE \E u \in Users : EntryExpires(u)
  BY <1>1, <1>8, QuietKeepsTables DEF EntryExpires
<1> QED
  BY <1>6, <1>7, <1>8 DEF Next

(* At least one active person reaches the module, whatever changes cross,  *)
(* until a write of activity that took no lock changes somebody's.         *)
THEOREM StaysReachableUnderTheLock == Spec => []ReachableUnlessOverwritten
<1>1. TablesInv => ReachableUnlessOverwritten
  BY DEF TablesInv, ReachedSoFar, ReachableUnlessOverwritten
<1> QED
  BY <1>1, InitTables, NextTables, PTL DEF Spec

(* Reachability falls only with a commit, and a commit under the lock whose*)
(* check nothing overtook keeps what it checked.                           *)
LEMMA LossIsAnOverwrite ==
  ASSUME TablesInv, [Next]_vars, Reachable, ~Reachable'
  PROVE  LossyWrite
<1>1. ~UNCHANGED directory
  BY SameTablesSameReach
<1>2. PICK c \in Calls : Commit(c)
  BY <1>1 DEF Next, CallStep, Knock, GateReads, TurnAway, Open, Check, Refuse, Abandon, Clear,
              EntryExpires, vars
<1>3. pc[c] # pc'[c] /\ MayWrite(c)
  BY <1>2 DEF Commit, Goto, MayWrite, TablesInv, DirectoryTypes
<1>4. ASSUME Locks(op[c]), c \notin overtaken PROVE FALSE
  <2>1. Allowed(op[c])
    BY <1>3, <1>4 DEF TablesInv, CheckStillHolds, MayWrite
  <2>2. ReachableAfter(op[c])
    BY <2>1 DEF Allowed
  <2> QED
    BY <1>2, <2>2 DEF Commit, Reachable, ActiveUsers, ReachableAfter, SomeoneHolds
<1> QED
  BY <1>3, <1>4 DEF LossyWrite

(* The module loses its last active person only to a write of activity that*)
(* took no lock or to a change whose check such a write overtook: also     *)
(* after such a loss was repaired, which the invariant does not say.       *)
THEOREM OnlyOverwritesLoseAccess == Spec => LossOnlyByOverwrite
<1>1. TablesInv /\ [Next]_vars => (Reachable /\ ~Reachable' => LossyWrite)
  BY LossIsAnOverwrite
<1> QED
  BY <1>1, InitTables, NextTables, PTL DEF Spec, LossOnlyByOverwrite

-----------------------------------------------------------------------------
(* The cache.                                                              *)

(* A step of the calls that is none of the cache.                          *)
LEMMA QuietIsStutter ==
  ASSUME UNCHANGED <<directory, cache, gate>>,
         \A c \in Calls : pc'[c] = "committed" <=> pc[c] = "committed"
  PROVE  UNCHANGED Cache!vars
<1>1. Granted' = Granted
  BY DEF directory, Granted, MayEnter, SomeoneHolds
<1>2. Uncleared' = Uncleared
  BY DEF Uncleared
<1> QED
  BY <1>1, <1>2 DEF Cache!vars, Cache!cache, Cache!readers, cache, gate

LEMMA StepOfTheCache ==
  ASSUME TablesInv, TablesInv', [Next]_vars
  PROVE  [Cache!Next]_Cache!vars
<1> USE DEF Cache!Next, Cache!ReaderStep
<1>1. pc \in [Calls -> {"idle", "opened", "checked", "committed"}]
  BY DEF TablesInv, DirectoryTypes
<1>2. ASSUME NEW c \in Calls, NEW u \in Users, Knock(c, u) PROVE Cache!Next
  BY <1>2 DEF Knock
<1>3. ASSUME NEW c \in Calls, GateReads(c) \/ TurnAway(c) PROVE Cache!Next
  BY <1>3 DEF GateReads, TurnAway
<1>4. ASSUME NEW c \in Calls, NEW o \in Ops, Open(c, o) PROVE Cache!Next
  BY <1>4 DEF Open
<1>5. ASSUME NEW c \in Calls, Check(c) \/ Refuse(c) \/ Abandon(c)
      PROVE  UNCHANGED Cache!vars
  BY <1>1, <1>5, QuietIsStutter DEF Check, Refuse, Abandon, Done, Goto, MayWrite
<1>6. ASSUME NEW c \in Calls, Commit(c) PROVE Cache!Next
  <2>1. Granted' \in [Users -> BOOLEAN]
    BY DEF TablesInv, DirectoryTypes, Granted, MayEnter, SomeoneHolds
  <2> QED
    BY <1>6, <2>1 DEF Commit
<1>7. ASSUME NEW c \in Calls, Clear(c) PROVE Cache!Next
  BY <1>7 DEF Clear
<1>8. CASE UNCHANGED vars
  BY <1>8, QuietIsStutter DEF vars
<1>9. CASE \E c \in Calls : CallStep(c)
  BY <1>9, <1>2, <1>3, <1>4, <1>5, <1>6, <1>7 DEF CallStep
<1>10. CASE \E u \in Users : EntryExpires(u)
  BY <1>10 DEF EntryExpires
<1> QED
  BY <1>8, <1>9, <1>10 DEF Next

(* The calls use the cache as RbacCache says: a change that commits is a   *)
(* mutation, and nothing else changes what the cache would read.           *)
THEOREM CallsUseTheCache == Spec => CacheSpec
<1>1. Init => Cache!Init
  BY DEF Init
<1> QED
  BY <1>1, InitTables, NextTables, StepOfTheCache, PTL DEF Spec, CacheSpec, Cache!Spec

-----------------------------------------------------------------------------
(* What is proved of RbacCache, taken over.  CacheProofs and Cache are two *)
(* instances of the same definitions.                                      *)

CacheProofs == INSTANCE RbacCacheProofs WITH
                 People <- Users, Answers <- BOOLEAN, Readers <- Calls,
                 Mutations <- Calls, granted <- Granted, uncleared <- Uncleared

LEMMA SameCached == Cache!Cached = CacheProofs!Cached
  BY Zenon DEF Cache!Cached, CacheProofs!Cached

LEMMA SameAnswerFromStore ==
  ASSUME NEW c, NEW u
  PROVE  Cache!AnswerFromStore(c, u) <=> CacheProofs!AnswerFromStore(c, u)
  BY Zenon DEF Cache!AnswerFromStore, Cache!Asks, Cache!Hit, Cache!Cached,
               Cache!cache, CacheProofs!AnswerFromStore, CacheProofs!Asks,
               CacheProofs!Hit, CacheProofs!Cached, CacheProofs!cache

LEMMA SameJoin ==
  ASSUME NEW c, NEW u
  PROVE  Cache!Join(c, u) <=> CacheProofs!Join(c, u)
  BY Zenon DEF Cache!Join, Cache!Asks, Cache!Hit, Cache!Cached, Cache!DropExpired,
               CacheProofs!Join, CacheProofs!Asks, CacheProofs!Hit,
               CacheProofs!Cached, CacheProofs!DropExpired

LEMMA SameLoad ==
  ASSUME NEW c, NEW u
  PROVE  Cache!Load(c, u) <=> CacheProofs!Load(c, u)
  BY Zenon DEF Cache!Load, Cache!Asks, Cache!Hit, Cache!Cached, Cache!DropExpired,
               CacheProofs!Load, CacheProofs!Asks, CacheProofs!Hit,
               CacheProofs!Cached, CacheProofs!DropExpired

LEMMA SameRead ==
  ASSUME NEW c
  PROVE  Cache!Read(c) <=> CacheProofs!Read(c)
  BY Zenon DEF Cache!Read, Cache!cache, CacheProofs!Read, CacheProofs!cache

LEMMA SameFail ==
  ASSUME NEW c
  PROVE  Cache!Fail(c) <=> CacheProofs!Fail(c)
  BY Zenon DEF Cache!Fail, Cache!Withdraw, Cache!Deliver, CacheProofs!Fail,
               CacheProofs!Withdraw, CacheProofs!Deliver

LEMMA SameLeave ==
  ASSUME NEW c
  PROVE  Cache!Leave(c) <=> CacheProofs!Leave(c)
  BY Zenon DEF Cache!Leave, Cache!cache, CacheProofs!Leave, CacheProofs!cache

LEMMA SameExpire ==
  ASSUME NEW u
  PROVE  Cache!Expire(u) <=> CacheProofs!Expire(u)
  BY Zenon DEF Cache!Expire, Cache!Hit, Cache!Cached, Cache!readers,
               CacheProofs!Expire, CacheProofs!Hit, CacheProofs!Cached,
               CacheProofs!readers

LEMMA SameMutate ==
  ASSUME NEW c
  PROVE  Cache!Mutate(c) <=> CacheProofs!Mutate(c)
  BY Zenon DEF Cache!Mutate, Cache!Witness, Cache!cache, CacheProofs!Mutate,
               CacheProofs!Witness, CacheProofs!cache

LEMMA SameClear ==
  ASSUME NEW c
  PROVE  Cache!Clear(c) <=> CacheProofs!Clear(c)
  BY Zenon DEF Cache!Clear, Cache!Empty, Cache!readers, CacheProofs!Clear,
               CacheProofs!Empty, CacheProofs!readers

LEMMA SameGivenUp ==
  ASSUME NEW u
  PROVE  Cache!GivenUp(u) = CacheProofs!GivenUp(u)
<1>1. Cache!Cardinality(Cache!Cached) = CacheProofs!Cardinality(CacheProofs!Cached)
  BY SameCached, Zenon DEF Cache!Cardinality, CacheProofs!Cardinality
<1> QED
  BY <1>1, SameCached, Zenon DEF Cache!GivenUp, CacheProofs!GivenUp

LEMMA SameRemember ==
  ASSUME NEW u, NEW a
  PROVE  Cache!Remember(u, a) <=> CacheProofs!Remember(u, a)
  BY SameGivenUp, Zenon DEF Cache!Remember, CacheProofs!Remember

LEMMA SameEnd ==
  ASSUME NEW c, NEW a
  PROVE  (Cache!Withdraw(c) /\ Cache!Deliver(c, a))
           <=> (CacheProofs!Withdraw(c) /\ CacheProofs!Deliver(c, a))
  BY Zenon DEF Cache!Withdraw, Cache!Deliver, CacheProofs!Withdraw, CacheProofs!Deliver

LEMMA SameResolve ==
  ASSUME NEW c
  PROVE  Cache!Resolve(c) <=> CacheProofs!Resolve(c)
  BY SameRemember, SameEnd DEF Cache!Resolve, CacheProofs!Resolve,
                               Cache!SameGeneration, CacheProofs!SameGeneration

LEMMA SameStep == [Cache!Next]_Cache!vars => [CacheProofs!Next]_CacheProofs!vars
<1>1. Cache!Next => CacheProofs!Next
  <2>1. \A c, u : Cache!Ask(c, u) => CacheProofs!Ask(c, u)
    BY SameAnswerFromStore, SameJoin, SameLoad, Zenon DEF Cache!Ask, CacheProofs!Ask
  <2> QED
    BY <2>1, SameRead, SameResolve, SameFail, SameLeave, SameExpire, SameMutate, SameClear, Zenon
       DEF Cache!Next, Cache!ReaderStep, CacheProofs!Next, CacheProofs!ReaderStep
<1>2. UNCHANGED Cache!vars => UNCHANGED CacheProofs!vars
  BY DEF Cache!vars, Cache!cache, Cache!readers,
         CacheProofs!vars, CacheProofs!cache, CacheProofs!readers
<1> QED
  BY <1>1, <1>2

LEMMA SpecOfTheCache == Spec => CacheProofs!Spec
<1>1. Cache!Init => CacheProofs!Init
  BY DEF Cache!Init, CacheProofs!Init
<1> QED
  BY <1>1, SameStep, CallsUseTheCache, PTL DEF CacheSpec, Cache!Spec, CacheProofs!Spec

(* Every variable keeps its type, those of the cache included: rows refer  *)
(* to roles that exist although roles are deleted between a transaction's  *)
(* reads and its writes.                                                   *)
THEOREM TypeCorrect == Spec => []TypeOK
<1>1. TablesInv /\ CacheProofs!TypeOK => TypeOK
  BY DEF TablesInv, DirectoryTypes, TypeOK, CacheProofs!TypeOK, Cache!TypeOK,
         CacheProofs!Cached, Cache!Cached
<1> QED
  BY <1>1, InitTables, NextTables, SpecOfTheCache, CacheProofs!TypeCorrect, PTL DEF Spec

(* Once every change was cleared, an entry of the cache says what the      *)
(* tables say, although readings and changes cross.                        *)
EntriesAreFresh == Cache!NoStaleEntry

(* Once every change was cleared, no entry of the cache contradicts the    *)
(* tables.                                                                 *)
THEOREM EntriesStayFresh == Spec => []EntriesAreFresh
<1>1. CacheProofs!NoStaleEntry => EntriesAreFresh
  BY DEF EntriesAreFresh, Cache!NoStaleEntry, CacheProofs!NoStaleEntry,
         Cache!Cached, CacheProofs!Cached
<1> QED
  BY <1>1, SpecOfTheCache, CacheProofs!StoreIsFresh, PTL

(* The gate answers with what was true after it was asked, or denies.      *)
THEOREM GateStaysFresh == Spec => []GateIsFresh
<1>1. CacheProofs!AnswersAreFresh => GateIsFresh
  BY DEF GateIsFresh, Cache!AnswersAreFresh, CacheProofs!AnswersAreFresh
<1> QED
  BY <1>1, SpecOfTheCache, CacheProofs!GateAnswersAreFresh, PTL
=============================================================================
