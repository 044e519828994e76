--------------------------- MODULE GroupSyncProofs ---------------------------
(* Proofs about GroupSync, for every set of people, roles and groups, and  *)
(* every number of pushes, deletions and changes.                          *)
EXTENDS GroupSync, TLAPS

-----------------------------------------------------------------------------
(* Types, and what makes them inductive.                                   *)

(* A push knows only accounts there are: what it adds has an account.      *)
KnownHaveAccounts == \A p \in Pushes : known[p] \subseteq accounts

(* A push that has read nothing has nobody in mind; a deletion becomes a   *)
(* push that way, and its target is then nobody.  Only a push about a role *)
(* asks for its holders or deletes it, and only a push about a group reads *)
(* at all.                                                                 *)
UnreadIsEmpty ==
  \A p \in Pushes :
    /\ pc[p] \in {"idle", "deleting"} => target[p] = {} /\ unread[p] = {}
    /\ "target" \in unread[p] \/ pc[p] = "deleting" => role[p] \in Roles
    /\ unread[p] # {} => group[p] \in Groups

(* UNIQUE(group_id)                                                        *)
OneRolePerGroup ==
  \A r, q \in Roles : mapping[r] = mapping[q] /\ mapping[r] # NoGroup => r = q

Inv == TypeOK /\ KnownHaveAccounts /\ UnreadIsEmpty /\ OneRolePerGroup

LEMMA InvInit == Init => Inv
<1> SUFFICES ASSUME Init PROVE Inv
  OBVIOUS
<1>1. TypeOK
  BY BoundAssumption DEF Init, TypeOK
<1>2. OneRolePerGroup
  <2> SUFFICES ASSUME NEW r \in Roles, NEW q \in Roles, mapping[r] = mapping[q],
                      mapping[r] # NoGroup, r # q
               PROVE  FALSE
    BY DEF OneRolePerGroup
  <2>1. mapping[r] \in Groups
    BY DEF Init
  <2> QED
    BY <2>1 DEF Init, Attachable
<1> QED
  BY <1>1, <1>2 DEF Init, Inv, KnownHaveAccounts, UnreadIsEmpty

LEMMA WorldStep == Inv /\ World => Inv'
<1> SUFFICES ASSUME Inv, World PROVE Inv'
  OBVIOUS
<1> USE NamesAssumption, BoundAssumption
    DEF Inv, TypeOK, KnownHaveAccounts, UnreadIsEmpty, OneRolePerGroup, Change, Disturb,
        cortex, remote, local, read
<1>1. ASSUME NEW r \in Roles, NEW us \in SUBSET People, SetHolders(r, us) PROVE Inv'
  BY <1>1 DEF SetHolders, GroupsOf
<1>2. ASSUME NEW u \in People, LogIn(u) PROVE Inv'
  BY <1>2 DEF LogIn
<1>3. ASSUME NEW r \in Roles, NEW g \in Groups, Attach(r, g) PROVE Inv'
  BY <1>3 DEF Attach, Attachable, GroupsOf
<1>4. ASSUME NEW r \in Roles, Detach(r) PROVE Inv'
  BY <1>4 DEF Detach, GroupsOf
<1> QED
  BY <1>1, <1>2, <1>3, <1>4 DEF World

LEMMA PushKeepsInv == ASSUME Inv, NEW p \in Pushes, PushStep(p) PROVE Inv'
<1> USE NamesAssumption, BoundAssumption
    DEF Inv, TypeOK, KnownHaveAccounts, UnreadIsEmpty, OneRolePerGroup, Change, Goto, Reading,
        cortex, remote, local, read
<1>1. ASSUME NEW r \in Roles, Begin(p, r) PROVE Inv'
  BY <1>1 DEF Begin
<1>2. ASSUME NEW r \in Roles, NoteGroup(p, r) PROVE Inv'
  BY <1>2 DEF NoteGroup
<1>3. CASE ReadTarget(p)
  <2>1. holders[role[p]] \subseteq People
    BY <1>3 DEF ReadTarget
  <2> QED
    BY <1>3, <2>1 DEF ReadTarget
<1>4. CASE ReadGroup(p)
  <2>1. members[group[p]] \subseteq People
    BY <1>4 DEF ReadGroup
  <2> QED
    BY <1>4, <2>1 DEF ReadGroup
<1>5. CASE ReadAccounts(p)
  BY <1>5 DEF ReadAccounts
<1>6. CASE AddUsers(p)
  <2>1. Wanted(p) \subseteq accounts
    BY DEF Wanted
  <2> QED
    BY <1>6, <2>1 DEF AddUsers
<1>7. CASE RemoveUsers(p)
  BY <1>7 DEF RemoveUsers
<1>8. CASE Finish(p)
  BY <1>8 DEF Finish, Forget
<1>9. CASE Fail(p)
  BY <1>9 DEF Fail, Forget
<1>10. CASE DeleteRole(p)
  <2> DEFINE r == role[p]
  <2>1. /\ roles' = roles \ {r} /\ r \in roles
        /\ holders' = [holders EXCEPT ![r] = {}]
        /\ mapping' = [mapping EXCEPT ![r] = NoGroup]
        /\ doubt' = doubt \cup ({mapping[r]} \ {NoGroup})
        /\ UNCHANGED <<accounts, members, group, target, seen, known>>
        /\ role' = [role EXCEPT ![p] = NoRole]
        /\ changes' = changes + 1 /\ changes < MaxChanges
    BY <1>10 DEF DeleteRole, GroupsOf
  <2>2. \/ pc' = [pc EXCEPT ![p] = "idle"] /\ unread' = unread
        \/ /\ pc' = [pc EXCEPT ![p] = "reading"] /\ unread' = [unread EXCEPT ![p] = {"group"}]
           /\ group[p] # NoGroup
    BY <1>10 DEF DeleteRole
  <2>3. pc[p] = "deleting"
    BY <1>10 DEF DeleteRole
  <2>4. alone' \in [Pushes -> BOOLEAN]
    BY <1>10 DEF DeleteRole
  <2>5. /\ roles' \subseteq Roles
        /\ holders' \in [Roles -> SUBSET People]
        /\ mapping' \in [Roles -> Groups \cup {NoGroup}]
        /\ \A q \in Roles \ roles' : holders'[q] = {} /\ mapping'[q] = NoGroup
        /\ doubt' \subseteq Groups
        /\ changes' \in 0 .. MaxChanges
        /\ OneRolePerGroup'
    BY <2>1
  <2>6. /\ pc' \in [Pushes -> {"idle", "reading", "added", "removed", "deleting"}]
        /\ role' \in [Pushes -> Roles \cup {NoRole}]
        /\ unread' \in [Pushes -> SUBSET {"target", "group", "accounts"}]
        /\ UnreadIsEmpty'
    BY <2>1, <2>2, <2>3
  <2> QED
    BY <2>1, <2>4, <2>5, <2>6
<1> QED
  BY <1>1, <1>2, <1>3, <1>4, <1>5, <1>6, <1>7, <1>8, <1>9, <1>10 DEF PushStep

LEMMA InvStep == Inv /\ [Next]_vars => Inv'
<1>1. Inv /\ UNCHANGED vars => Inv'
  BY DEF vars, cortex, remote, local, read, Inv, TypeOK, KnownHaveAccounts, UnreadIsEmpty,
         OneRolePerGroup
<1> QED
  BY <1>1, WorldStep, PushKeepsInv DEF Next

(* Every variable keeps its type: whoever is in a group has an account,    *)
(* and a deleted role has neither holders nor a mapping.                   *)
THEOREM TypeCorrect == Spec => []TypeOK
<1>1. Inv => TypeOK
  BY DEF Inv
<1> QED
  BY <1>1, InvInit, InvStep, PTL DEF Spec

-----------------------------------------------------------------------------
(* The mirror.  TrustedMirror alone is not inductive: a push that still    *)
(* runs might undo it.  What keeps it from doing so is that nothing        *)
(* changed in the world of its group since it began.                       *)

Pushing == {"reading", "added", "removed"}

(* What a push read about a role, or that it is to empty its group.        *)
ForRole(p) ==
  /\ role[p] \in roles
  /\ mapping[role[p]] = group[p]
  /\ "target" \notin unread[p] => target[p] = holders[role[p]]
  /\ "accounts" \notin unread[p] => known[p] = accounts

ForNobody(p) ==
  /\ target[p] = {}
  /\ unread[p] \subseteq {"group"}
  /\ Entitled(group[p]) = {}

Aims(p) ==
  /\ pc[p] \in Pushing => ForRole(p) \/ ForNobody(p)
  /\ pc[p] = "deleting" => mapping[role[p]] = group[p]

(* What a push saw may be out of date only where that does no harm.        *)
SawEnough(p) == members[group[p]] \ Entitled(group[p]) \subseteq seen[p]

Progress(p) ==
  /\ pc[p] \in {"added", "removed"} => unread[p] = {}
  /\ pc[p] = "reading" /\ "group" \notin unread[p] =>
       SawEnough(p) /\ seen[p] \cap Entitled(group[p]) \subseteq members[group[p]]
  /\ pc[p] = "added" => SawEnough(p) /\ Entitled(group[p]) \subseteq members[group[p]]
  /\ pc[p] = "removed" => members[group[p]] = Entitled(group[p])

Sane(p) == Aims(p) /\ Progress(p)

Sound(g) ==
  Watched(g) => /\ g \notin doubt => members[g] = Entitled(g)
                /\ \A p \in Running(g) : Sane(p)

MirrorInv == \A g \in Groups : Sound(g)

LEMMA WantedIsEntitled ==
  ASSUME Inv, NEW p \in Pushes, pc[p] \in Pushing, group[p] \in Groups, unread[p] = {},
         ForRole(p) \/ ForNobody(p)
  PROVE  Wanted(p) = Entitled(group[p])
<1>1. CASE ForRole(p)
  <2>1. role[p] \in Roles /\ \A r \in Roles : mapping[r] = group[p] => r = role[p]
    BY <1>1, NamesAssumption DEF Inv, TypeOK, OneRolePerGroup, ForRole
  <2> QED
    BY <1>1, <2>1 DEF ForRole, Entitled, Wanted, Inv, TypeOK
<1>2. CASE ForNobody(p)
  BY <1>2 DEF ForNobody, Wanted
<1> QED
  BY <1>1, <1>2

(* A sane push brings its group no further from who is entitled to it.     *)
LEMMA SaneStepImproves ==
  ASSUME Inv, NEW g \in Groups, NEW p \in Pushes, group[p] = g, Sane(p),
         \/ ReadTarget(p) \/ ReadGroup(p) \/ ReadAccounts(p)
         \/ AddUsers(p) \/ RemoveUsers(p) \/ Finish(p) \/ Fail(p)
  PROVE  /\ members'[g] \ Entitled(g) \subseteq members[g] \ Entitled(g)
         /\ members[g] \cap Entitled(g) \subseteq members'[g]
<1>1. CASE AddUsers(p)
  <2>1. members'[g] = members[g] \cup (Wanted(p) \ seen[p])
    BY <1>1 DEF AddUsers, Inv, TypeOK
  <2>2. Wanted(p) = Entitled(g)
    BY <1>1, WantedIsEntitled DEF AddUsers, Sane, Aims, Pushing
  <2> QED
    BY <2>1, <2>2
<1>2. CASE RemoveUsers(p)
  <2>1. members'[g] = members[g] \ (seen[p] \ Wanted(p))
    BY <1>2 DEF RemoveUsers, ToRemove, Inv, TypeOK
  <2>2. unread[p] = {} /\ pc[p] \in Pushing
    BY <1>2 DEF RemoveUsers, Sane, Progress, Pushing
  <2>3. Wanted(p) = Entitled(g)
    BY <2>2, WantedIsEntitled DEF Sane, Aims
  <2> QED
    BY <2>1, <2>3
<1>3. CASE ~(AddUsers(p) \/ RemoveUsers(p))
  BY <1>3 DEF ReadTarget, ReadGroup, ReadAccounts, Reading, Finish, Fail, remote
<1> QED
  BY <1>1, <1>2, <1>3

(* A push about an unwatched group needs no attention.                     *)
LEMMA DisturbedIsUnwatched ==
  ASSUME NEW gs, NEW g \in gs, Disturb(gs), group' = group
  PROVE  ~Watched(g)'
  BY DEF Disturb, Watched

(* The world of g did not change: its pushes keep what they know.          *)
LEMMA UndisturbedStep ==
  ASSUME Inv, NEW g \in Groups, NEW gs, g \notin gs, Disturb(gs), Sound(g), roles' = roles,
         UNCHANGED <<remote, local>>,
         \A r \in Roles : mapping[r] = g \/ mapping'[r] = g =>
                            mapping'[r] = mapping[r] /\ holders'[r] = holders[r]
  PROVE  Sound(g)'
<1> USE DEF remote, local, read
<1>1. Entitled(g)' = Entitled(g)
  BY DEF Entitled, Inv, TypeOK
<1>2. Watched(g)' => Watched(g)
  BY DEF Watched, Disturb
<1>3. g \notin doubt' => g \notin doubt
  BY DEF Disturb
<1>4. ASSUME NEW p \in Running(g), Sane(p) PROVE Sane(p)'
  <2>1. p \in Pushes /\ group[p] = g /\ group'[p] = g /\ pc' = pc
    BY DEF Running
  <2>2. ForRole(p) => ForRole(p)'
    BY <2>1 DEF ForRole, Inv, TypeOK
  <2>3. ForNobody(p) => ForNobody(p)'
    BY <1>1, <2>1 DEF ForNobody
  <2>4. mapping[role[p]] = g /\ pc[p] = "deleting" => mapping'[role'[p]] = g
    BY <2>1 DEF Inv, TypeOK, UnreadIsEmpty
  <2>5. Aims(p)'
    BY <1>4, <2>1, <2>2, <2>3, <2>4 DEF Sane, Aims
  <2>6. Progress(p)'
    BY <1>1, <1>4, <2>1 DEF Sane, Progress, SawEnough
  <2> QED
    BY <2>5, <2>6 DEF Sane
<1> QED
  BY <1>1, <1>2, <1>3, <1>4 DEF Sound, Running

LEMMA WorldIsSound == Inv /\ MirrorInv /\ World => MirrorInv'
<1> SUFFICES ASSUME Inv, MirrorInv, World, NEW g \in Groups PROVE Sound(g)'
  BY DEF MirrorInv
<1>1. ASSUME NEW gs, Disturb(gs), UNCHANGED local, g \in gs PROVE Sound(g)'
  BY <1>1, DisturbedIsUnwatched DEF Sound, local
<1>2. Sound(g)
  BY DEF MirrorInv
<1>3. ASSUME NEW r \in Roles, NEW us \in SUBSET People, SetHolders(r, us) PROVE Sound(g)'
  <2>1. Disturb(GroupsOf(r)) /\ UNCHANGED <<roles, mapping, remote, local>>
    BY <1>3 DEF SetHolders
  <2>2. CASE g \notin GroupsOf(r)
    <3>1. \A q \in Roles : mapping[q] = g => holders'[q] = holders[q]
      BY <1>3, <2>2, NamesAssumption DEF SetHolders, GroupsOf, Inv, TypeOK
    <3> QED
      BY <1>2, <2>1, <2>2, <3>1, UndisturbedStep
  <2> QED
    BY <1>1, <2>1, <2>2
<1>4. ASSUME NEW u \in People, LogIn(u) PROVE Sound(g)'
  BY <1>1, <1>4 DEF LogIn
<1>5. ASSUME NEW r \in Roles, NEW h \in Groups, Attach(r, h) PROVE Sound(g)'
  <2>1. Disturb(GroupsOf(r) \cup {h}) /\ UNCHANGED <<roles, holders, remote, local>>
    BY <1>5 DEF Attach
  <2>2. CASE g \notin GroupsOf(r) \cup {h}
    <3>1. \A q \in Roles : mapping[q] = g \/ mapping'[q] = g => mapping'[q] = mapping[q]
      BY <1>5, <2>2, NamesAssumption DEF Attach, GroupsOf, Inv, TypeOK
    <3> QED
      BY <1>2, <2>1, <2>2, <3>1, UndisturbedStep
  <2> QED
    BY <1>1, <2>1, <2>2
<1>6. ASSUME NEW r \in Roles, Detach(r) PROVE Sound(g)'
  <2>1. Disturb(GroupsOf(r)) /\ UNCHANGED <<roles, holders, remote, local>>
    BY <1>6 DEF Detach
  <2>2. CASE g \notin GroupsOf(r)
    <3>1. \A q \in Roles : mapping[q] = g \/ mapping'[q] = g => mapping'[q] = mapping[q]
      BY <1>6, <2>2, NamesAssumption DEF Detach, GroupsOf, Inv, TypeOK
    <3> QED
      BY <1>2, <2>1, <2>2, <3>1, UndisturbedStep
  <2> QED
    BY <1>1, <2>1, <2>2
<1> QED
  BY <1>3, <1>4, <1>5, <1>6 DEF World

(* A push other than the one that steps keeps its sanity, as long as the   *)
(* step brings its group nearer to who is entitled to it.                  *)
LEMMA OthersStaySane ==
  ASSUME Inv, NEW g \in Groups, NEW q \in Running(g), Sane(q),
         UNCHANGED <<cortex, accounts>>,
         pc'[q] = pc[q], role'[q] = role[q], group'[q] = group[q], unread'[q] = unread[q],
         target'[q] = target[q], seen'[q] = seen[q], known'[q] = known[q],
         members'[g] \ Entitled(g) \subseteq members[g] \ Entitled(g),
         members[g] \cap Entitled(g) \subseteq members'[g]
  PROVE  Sane(q)'
<1> USE DEF cortex
<1>1. group[q] = g /\ Entitled(g)' = Entitled(g)
  BY DEF Running, Entitled
<1>2. Aims(q)'
  BY <1>1 DEF Sane, Aims, ForRole, ForNobody
<1>3. SawEnough(q) => SawEnough(q)'
  BY <1>1 DEF SawEnough
<1>4. \A S : S \cap Entitled(g) \subseteq members[g] => S \cap Entitled(g) \subseteq members'[g]
  OBVIOUS
<1>5. Entitled(g) \subseteq members[g] => Entitled(g) \subseteq members'[g]
  OBVIOUS
<1>6. members[g] = Entitled(g) => members'[g] = Entitled(g)
  OBVIOUS
<1>7. Progress(q)'
  BY <1>1, <1>3, <1>4, <1>5, <1>6 DEF Sane, Progress
<1> QED
  BY <1>2, <1>7 DEF Sane

(* A push begins, or a deletion notes its group.                           *)
LEMMA BeginIsSound ==
  ASSUME Inv, NEW g \in Groups, Sound(g), NEW p \in Pushes, NEW r \in Roles,
         Begin(p, r) \/ NoteGroup(p, r)
  PROVE  Sound(g)'
<1> USE DEF cortex, remote, read, Goto
<1>1. /\ UNCHANGED <<cortex, remote, read, doubt>>
      /\ pc[p] = "idle" /\ r \in roles
      /\ pc' = [pc EXCEPT ![p] = IF Begin(p, r) THEN "reading" ELSE "deleting"]
      /\ role' = [role EXCEPT ![p] = r]
      /\ \E h \in {mapping[r], NoGroup} : group' = [group EXCEPT ![p] = h]
      /\ \A q \in Pushes \ {p} : unread'[q] = unread[q] /\ alone'[q] = alone[q]
  BY DEF Begin, NoteGroup, Inv, TypeOK
<1>2. pc'[p] # "idle" /\ role'[p] = r /\ (group'[p] = g => mapping[r] = g)
  BY <1>1, NamesAssumption DEF Inv, TypeOK
<1>3. \A q \in Running(g)' : q = p \/ q \in Running(g)
  BY <1>1 DEF Running, Inv, TypeOK
<1>4. Entitled(g)' = Entitled(g)
  BY <1>1 DEF Entitled
<1>5. ASSUME group'[p] = g PROVE Sane(p)'
  <2>1. CASE Begin(p, r)
    <3>1. pc'[p] = "reading" /\ unread'[p] = {"target", "group", "accounts"}
      BY <2>1, <1>1 DEF Begin, Inv, TypeOK
    <3> QED
      BY <1>1, <1>2, <1>5, <3>1 DEF Sane, Aims, Progress, ForRole
  <2>2. CASE ~Begin(p, r)
    <3>1. pc'[p] = "deleting"
      BY <2>2, <1>1 DEF Inv, TypeOK
    <3> QED
      BY <1>1, <1>2, <1>5, <3>1 DEF Sane, Aims, Progress, Pushing
  <2> QED
    BY <2>1, <2>2
<1>6. ASSUME NEW q \in Running(g), q # p, Sane(q) PROVE Sane(q)'
  <2>1. q \in Pushes
    BY DEF Running
  <2>2. /\ pc'[q] = pc[q] /\ role'[q] = role[q] /\ group'[q] = group[q]
        /\ unread'[q] = unread[q]
    BY <1>1, <1>6, <2>1 DEF Inv, TypeOK
  <2> QED
    BY <1>1, <1>6, <2>2, OthersStaySane
<1>7. CASE Watched(g)
  <2>1. \A q \in Running(g) : Sane(q)
    BY <1>7 DEF Sound
  <2>2. \A q \in Running(g)' : Sane(q)'
    <3> SUFFICES ASSUME NEW q \in Running(g)' PROVE Sane(q)'
      OBVIOUS
    <3>1. CASE q = p
      BY <1>2, <1>5, <3>1 DEF Running
    <3>2. CASE q # p
      BY <1>3, <1>6, <2>1, <3>2
    <3> QED
      BY <3>1, <3>2
  <2> QED
    BY <1>1, <1>4, <1>7, <2>2 DEF Sound
<1>8. CASE ~Watched(g) /\ Watched(g)'
  <2>1. /\ g \in doubt /\ g \in doubt'
        /\ group'[p] = g /\ alone'[p] /\ pc'[p] \in Pushing
    BY <1>1, <1>8 DEF Watched, Pushing, Inv, TypeOK
  <2>2. Begin(p, r)
    BY <1>1, <2>1 DEF Inv, TypeOK, Pushing
  <2>3. Running(g) = {}
    BY <1>2, <2>1, <2>2 DEF Begin, Inv, TypeOK
  <2>4. \A q \in Running(g)' : Sane(q)'
    BY <1>2, <1>3, <1>5, <2>1, <2>3
  <2> QED
    BY <2>1, <2>4 DEF Sound
<1> QED
  BY <1>7, <1>8 DEF Sound

(* A push reads, sends what differs, or is over.                           *)
LEMMA PushIsSound ==
  ASSUME Inv, NEW g \in Groups, Sound(g), NEW p \in Pushes,
         \/ ReadTarget(p) \/ ReadGroup(p) \/ ReadAccounts(p)
         \/ AddUsers(p) \/ RemoveUsers(p) \/ Finish(p) \/ Fail(p)
  PROVE  Sound(g)'
<1> USE DEF cortex, remote, read, Goto
<1>1. UNCHANGED <<cortex, accounts>> /\ Entitled(g)' = Entitled(g)
  BY DEF ReadTarget, ReadGroup, ReadAccounts, Reading, AddUsers, RemoveUsers, Finish, Fail,
         Entitled
<1>2. pc[p] \in Pushing \/ Fail(p)
  BY DEF ReadTarget, ReadGroup, ReadAccounts, Reading, AddUsers, RemoveUsers, Finish, Pushing
<1>3. \A q \in Pushes \ {p} : /\ pc'[q] = pc[q] /\ role'[q] = role[q]
                              /\ group'[q] = group[q] /\ unread'[q] = unread[q]
                              /\ target'[q] = target[q] /\ seen'[q] = seen[q]
                              /\ known'[q] = known[q] /\ alone'[q] = alone[q]
  BY DEF ReadTarget, ReadGroup, ReadAccounts, Reading, AddUsers, RemoveUsers, Finish, Fail,
         Forget, Inv, TypeOK
<1>4. Watched(g)' => Watched(g)
  <2>1. CASE Finish(p) \/ Fail(p)
    <3>1. pc'[p] = "idle" /\ (g \notin doubt' => g \notin doubt \/ (Finish(p) /\ alone[p] /\ group[p] = g))
      BY <2>1 DEF Finish, Fail, Forget, Inv, TypeOK
    <3>2. Finish(p) => pc[p] \in Pushing
      BY DEF Finish, Pushing
    <3> QED
      BY <1>3, <3>1, <3>2 DEF Watched, Pushing
  <2>2. CASE ~(Finish(p) \/ Fail(p))
    <3>1. doubt' = doubt /\ group' = group /\ alone' = alone
      BY <2>2 DEF ReadTarget, ReadGroup, ReadAccounts, Reading, AddUsers, RemoveUsers
    <3> QED
      BY <1>2, <1>3, <2>2, <3>1 DEF Watched, Pushing
  <2> QED
    BY <2>1, <2>2
<1>5. SUFFICES ASSUME Watched(g)
               PROVE  /\ g \notin doubt' => members'[g] = Entitled(g)
                      /\ \A q \in Running(g)' : Sane(q)'
  BY <1>1, <1>4 DEF Sound
<1>6. g \notin doubt => members[g] = Entitled(g)
  BY <1>5 DEF Sound
<1>7. p \in Running(g) => Sane(p)
  BY <1>5 DEF Sound
<1>8. group[p] = g /\ pc[p] # "idle" => p \in Running(g)
  BY DEF Running
<1>9. CASE group[p] # g
  <2>1. members'[g] = members[g] /\ (g \notin doubt' => g \notin doubt)
    BY <1>9 DEF ReadTarget, ReadGroup, ReadAccounts, Reading, AddUsers, RemoveUsers, Finish, Fail,
           Inv, TypeOK
  <2>2. ~(p \in Running(g)')
    BY <1>9, NamesAssumption DEF Running, ReadTarget, ReadGroup, ReadAccounts, Reading, AddUsers,
       RemoveUsers, Finish, Fail, Forget, Inv, TypeOK
  <2>3. ASSUME NEW q \in Running(g)' PROVE Sane(q)'
    <3>1. q # p /\ q \in Running(g)
      BY <1>3, <2>2, <2>3 DEF Running
    <3>2. Sane(q) /\ q \in Pushes
      BY <1>5, <3>1 DEF Sound, Running
    <3> QED
      BY <1>1, <1>3, <2>1, <3>1, <3>2, OthersStaySane
  <2> QED
    BY <1>6, <2>1, <2>3
<1>10. CASE group[p] = g
  <2>1. pc[p] # "idle" /\ p \in Running(g) /\ Sane(p)
    BY <1>2, <1>7, <1>8, <1>10 DEF Fail, Pushing
  <2>2. pc[p] \in Pushing => ForRole(p) \/ ForNobody(p)
    BY <2>1 DEF Sane, Aims
  <2>3. /\ members'[g] \ Entitled(g) \subseteq members[g] \ Entitled(g)
        /\ members[g] \cap Entitled(g) \subseteq members'[g]
    BY <1>10, <2>1, SaneStepImproves
  <2>4. g \notin doubt' => members'[g] = Entitled(g)
    <3>1. CASE Finish(p)
      <4>1. members' = members /\ pc[p] = "removed"
        BY <3>1 DEF Finish
      <4> QED
        BY <1>10, <2>1, <4>1 DEF Sane, Progress
    <3>2. CASE ~Finish(p)
      <4>1. doubt' = doubt
        BY <3>2 DEF ReadTarget, ReadGroup, ReadAccounts, Reading, AddUsers, RemoveUsers, Fail
      <4> QED
        BY <1>6, <2>3, <4>1
    <3> QED
      BY <3>1, <3>2
  <2>5. ASSUME NEW q \in Running(g)', q # p PROVE Sane(q)'
    <3>1. q \in Running(g) /\ q \in Pushes
      BY <1>3, <2>5 DEF Running
    <3>2. Sane(q)
      BY <1>5, <3>1 DEF Sound
    <3> QED
      BY <1>1, <1>3, <2>3, <2>5, <3>1, <3>2, OthersStaySane
  <2>6. p \in Running(g)' => Sane(p)'
    <3> SUFFICES ASSUME p \in Running(g)' PROVE Sane(p)'
      OBVIOUS
    <3>1. ~Finish(p) /\ ~Fail(p)
      BY DEF Running, Finish, Fail, Forget, Inv, TypeOK
    <3>2. role' = role /\ group' = group
      BY <3>1 DEF ReadTarget, ReadGroup, ReadAccounts, Reading, AddUsers, RemoveUsers
    <3>3. CASE ReadTarget(p)
      <4>1. /\ pc[p] = "reading" /\ pc'[p] = "reading" /\ "target" \in unread[p]
            /\ unread'[p] = unread[p] \ {"target"} /\ target'[p] = holders[role[p]]
            /\ seen'[p] = seen[p] /\ known'[p] = known[p] /\ members' = members
        BY <3>3 DEF ReadTarget, Reading, Inv, TypeOK
      <4>2. ForRole(p)
        BY <2>2, <4>1 DEF ForNobody, Pushing
      <4>3. ForRole(p)'
        BY <1>1, <3>2, <4>1, <4>2 DEF ForRole
      <4>4. Progress(p)'
        BY <1>1, <1>10, <2>1, <3>2, <4>1 DEF Sane, Progress, SawEnough
      <4> QED
        BY <4>1, <4>3, <4>4 DEF Sane, Aims
    <3>4. CASE ReadAccounts(p)
      <4>1. /\ pc[p] = "reading" /\ pc'[p] = "reading" /\ "accounts" \in unread[p]
            /\ unread'[p] = unread[p] \ {"accounts"} /\ known'[p] = accounts
            /\ seen'[p] = seen[p] /\ target'[p] = target[p] /\ members' = members
        BY <3>4 DEF ReadAccounts, Reading, Inv, TypeOK
      <4>2. ForRole(p)
        BY <2>2, <4>1 DEF ForNobody, Pushing
      <4>3. ForRole(p)'
        BY <1>1, <3>2, <4>1, <4>2 DEF ForRole
      <4>4. Progress(p)'
        BY <1>1, <1>10, <2>1, <3>2, <4>1 DEF Sane, Progress, SawEnough
      <4> QED
        BY <4>1, <4>3, <4>4 DEF Sane, Aims
    <3>5. CASE ReadGroup(p)
      <4>1. /\ pc[p] = "reading" /\ pc'[p] = "reading" /\ unread'[p] = unread[p] \ {"group"}
            /\ seen'[p] = members[g] /\ target'[p] = target[p] /\ known'[p] = known[p]
            /\ members' = members
        BY <1>10, <3>5 DEF ReadGroup, Reading, Inv, TypeOK
      <4>2. (ForRole(p) => ForRole(p)') /\ (ForNobody(p) => ForNobody(p)')
        BY <1>1, <1>10, <3>2, <4>1 DEF ForRole, ForNobody
      <4>3. Progress(p)'
        BY <1>10, <3>2, <4>1 DEF Progress, SawEnough
      <4> QED
        BY <2>2, <4>1, <4>2, <4>3 DEF Sane, Aims, Pushing
    <3>6. CASE AddUsers(p) \/ RemoveUsers(p)
      <4>1. /\ unread' = unread /\ target' = target /\ seen' = seen /\ known' = known
            /\ pc'[p] = IF AddUsers(p) THEN "added" ELSE "removed"
            /\ unread[p] = {}
        BY <2>1, <3>6 DEF AddUsers, RemoveUsers, Inv, TypeOK, Sane, Progress
      <4>2. (ForRole(p) => ForRole(p)') /\ (ForNobody(p) => ForNobody(p)')
        BY <1>1, <1>10, <3>2, <4>1 DEF ForRole, ForNobody
      <4>3. pc[p] \in Pushing /\ Wanted(p) = Entitled(g)
        BY <1>2, <1>10, <2>2, <3>1, <4>1, WantedIsEntitled
      <4>4. ASSUME AddUsers(p) PROVE Progress(p)'
        <5>1. pc[p] = "reading" /\ members'[g] = members[g] \cup (Entitled(g) \ seen[p])
          BY <1>10, <4>3, <4>4 DEF AddUsers, Inv, TypeOK
        <5>2. SawEnough(p) /\ seen[p] \cap Entitled(g) \subseteq members[g]
          BY <1>10, <2>1, <4>1, <5>1 DEF Sane, Progress
        <5>3. members'[g] \ Entitled(g) \subseteq seen[p] /\ Entitled(g) \subseteq members'[g]
          BY <1>10, <5>1, <5>2 DEF SawEnough
        <5> QED
          BY <1>1, <1>10, <3>2, <4>1, <4>4, <5>3 DEF Progress, SawEnough
      <4>5. ASSUME ~AddUsers(p) PROVE Progress(p)'
        <5>1. pc[p] = "added" /\ members'[g] = members[g] \ (seen[p] \ Entitled(g))
          BY <1>10, <3>6, <4>3, <4>5 DEF RemoveUsers, ToRemove, Inv, TypeOK
        <5>2. SawEnough(p) /\ Entitled(g) \subseteq members[g]
          BY <1>10, <2>1, <5>1 DEF Sane, Progress
        <5>3. members'[g] = Entitled(g)
          BY <1>10, <5>1, <5>2 DEF SawEnough
        <5> QED
          BY <1>1, <1>10, <3>2, <4>1, <4>5, <5>3 DEF Progress
      <4>6. Aims(p)'
        BY <2>2, <4>1, <4>2, <4>3 DEF Aims
      <4>7. Progress(p)'
        BY <4>4, <4>5
      <4> QED
        BY <4>6, <4>7 DEF Sane
    <3> QED
      BY <3>1, <3>3, <3>4, <3>5, <3>6
  <2> QED
    BY <2>4, <2>5, <2>6
<1> QED
  BY <1>9, <1>10

(* A deletion becomes a push that empties the group it noted: the role it  *)
(* deletes is mapped there still, if the group is watched.                 *)
LEMMA DeleteIsSound ==
  ASSUME Inv, NEW g \in Groups, Sound(g), NEW p \in Pushes, DeleteRole(p)
  PROVE  Sound(g)'
<1> USE DEF cortex, remote, read, Goto
<1> DEFINE r == role[p]
<1>1. /\ pc[p] = "deleting" /\ r \in roles /\ r \in Roles
      /\ roles' = roles \ {r}
      /\ holders' = [holders EXCEPT ![r] = {}]
      /\ mapping' = [mapping EXCEPT ![r] = NoGroup]
      /\ role' = [role EXCEPT ![p] = NoRole]
      /\ UNCHANGED <<accounts, members, group, target, seen, known>>
  BY DEF DeleteRole, Inv, TypeOK
<1>2. doubt' = doubt \cup ({mapping[r]} \ {NoGroup})
  BY DEF DeleteRole, GroupsOf
<1>3. \A q \in Pushes : alone'[q] =
        IF q = p THEN Running(group[p]) = {p} /\ mapping[r] = group[p]
                 ELSE alone[q] /\ group[q] \notin ({mapping[r]} \ {NoGroup})
  BY DEF DeleteRole, GroupsOf
<1>4. \A q \in Pushes \ {p} : pc'[q] = pc[q] /\ role'[q] = role[q] /\ unread'[q] = unread[q]
  BY DEF DeleteRole, Inv, TypeOK
<1>5. group[p] = g => pc'[p] = "reading" /\ unread'[p] = {"group"}
  BY NamesAssumption DEF DeleteRole, Inv, TypeOK
<1>6. g # NoGroup
  BY NamesAssumption
<1>7. target[p] = {}
  BY <1>1 DEF Inv, UnreadIsEmpty
<1>8. CASE mapping[r] = g
  <2>1. Entitled(g)' = {}
    <3>1. \A q \in roles' : mapping'[q] # g
      BY <1>1, <1>6, <1>8 DEF Inv, TypeOK, OneRolePerGroup
    <3> QED
      BY <3>1 DEF Entitled
  <2>2. SUFFICES ASSUME Watched(g)' PROVE g \in doubt' /\ \A q \in Running(g)' : Sane(q)'
    BY DEF Sound
  <2>3. g \in doubt' /\ group[p] = g /\ Running(g) = {p}
    BY <1>1, <1>2, <1>3, <1>6, <1>8, <2>2 DEF Watched
  <2>4. \A q \in Running(g)' : q = p
    BY <1>1, <1>4, <2>3 DEF Running
  <2>5. Aims(p)'
    BY <1>1, <1>5, <1>7, <2>1, <2>3 DEF Aims, ForNobody, Pushing
  <2>6. Progress(p)'
    BY <1>5, <2>3 DEF Progress
  <2> QED
    BY <2>3, <2>4, <2>5, <2>6 DEF Sane
<1>9. CASE mapping[r] # g
  <2>1. Entitled(g)' = Entitled(g)
    BY <1>1, <1>6, <1>9 DEF Entitled, Inv, TypeOK
  <2>2. /\ Watched(g)' => Watched(g)
        /\ g \notin doubt' => g \notin doubt
    BY <1>1, <1>2, <1>3, <1>4, <1>9 DEF Watched
  <2>3. SUFFICES ASSUME Watched(g) PROVE \A q \in Running(g)' : Sane(q)'
    BY <1>1, <2>1, <2>2 DEF Sound
  <2>4. p \notin Running(g)
    <3>1. p \in Running(g) => mapping[r] = g
      BY <1>1, <2>3 DEF Sound, Sane, Aims, Running
    <3> QED
      BY <1>9, <3>1
  <2>5. SUFFICES ASSUME NEW q \in Running(g)' PROVE Sane(q)'
    OBVIOUS
  <2>6. q # p /\ q \in Running(g) /\ q \in Pushes /\ group[q] = g
    BY <1>1, <1>4, <2>4, <2>5 DEF Running
  <2>7. Sane(q)
    BY <2>3, <2>6 DEF Sound
  <2>8. ForRole(q) => ForRole(q)'
    BY <1>1, <1>4, <1>9, <2>6 DEF ForRole, Inv, TypeOK
  <2>9. ForNobody(q) => ForNobody(q)'
    BY <1>1, <1>4, <2>1, <2>6 DEF ForNobody
  <2>10. pc[q] = "deleting" => mapping'[role'[q]] = group'[q]
    <3>1. pc[q] = "deleting" => role[q] \in Roles /\ mapping[role[q]] = g
      BY <2>6, <2>7 DEF Sane, Aims, Inv, UnreadIsEmpty
    <3> QED
      BY <1>1, <1>4, <1>9, <2>6, <3>1 DEF Inv, TypeOK
  <2>11. Aims(q)'
    BY <1>4, <2>6, <2>7, <2>8, <2>9, <2>10 DEF Sane, Aims
  <2>12. Progress(q)'
    BY <1>1, <1>4, <2>1, <2>6, <2>7 DEF Sane, Progress, SawEnough
  <2> QED
    BY <2>11, <2>12 DEF Sane
<1> QED
  BY <1>8, <1>9

LEMMA MirrorStep == Inv /\ MirrorInv /\ [Next]_vars => MirrorInv'
<1> SUFFICES ASSUME Inv, MirrorInv, [Next]_vars PROVE MirrorInv'
  OBVIOUS
<1>1. ASSUME NEW p \in Pushes, PushStep(p) PROVE MirrorInv'
  BY <1>1, BeginIsSound, PushIsSound, DeleteIsSound DEF PushStep, MirrorInv
<1>2. CASE UNCHANGED vars
  BY <1>2 DEF vars, cortex, remote, local, read, MirrorInv, Sound, Watched, Running, Sane, Aims,
     Progress, SawEnough, ForRole, ForNobody, Entitled
<1> QED
  BY <1>1, <1>2, WorldIsSound DEF Next

LEMMA MirrorInit == Init => MirrorInv
<1> SUFFICES ASSUME Init, NEW g \in Groups PROVE ~Watched(g)
  BY DEF MirrorInv, Sound
<1> QED
  BY DEF Init, Watched

(* A group that an uncrossed push or deletion brought in order stays so    *)
(* until its world changes, whatever other pushes begin, fail or finish.   *)
THEOREM MirrorIsTrusted == Spec => []TrustedMirror
<1>1. Init => Inv /\ MirrorInv
  BY InvInit, MirrorInit
<1>2. Inv /\ MirrorInv /\ [Next]_vars => (Inv /\ MirrorInv)'
  BY InvStep, MirrorStep
<1>3. MirrorInv => TrustedMirror
  BY DEF MirrorInv, Sound, Watched, TrustedMirror
<1> QED
  BY <1>1, <1>2, <1>3, PTL DEF Spec

-----------------------------------------------------------------------------
(* What a watched group sees of the pushes on their way.                   *)

LEMMA WatchedStep ==
  ASSUME Inv, MirrorInv, [Next]_vars, NEW g \in Groups, Watched(g)
  PROVE  /\ members'[g] \subseteq members[g] \cup Entitled(g)
         /\ members[g] \cap Entitled(g) \subseteq members'[g]
<1> USE DEF remote
<1>1. CASE UNCHANGED members
  BY <1>1
<1>2. ASSUME NEW p \in Pushes, AddUsers(p) \/ RemoveUsers(p)
      PROVE  /\ members'[g] \subseteq members[g] \cup Entitled(g)
             /\ members[g] \cap Entitled(g) \subseteq members'[g]
  <2>1. CASE group[p] = g
    <3>1. p \in Running(g)
      BY <1>2, <2>1 DEF Running, AddUsers, RemoveUsers
    <3>2. Sane(p)
      BY <3>1 DEF MirrorInv, Sound
    <3> QED
      BY <1>2, <2>1, <3>2, SaneStepImproves
  <2>2. CASE group[p] # g
    <3>1. members'[g] = members[g]
      BY <1>2, <2>2 DEF AddUsers, RemoveUsers, Inv, TypeOK
    <3> QED
      BY <3>1
  <2> QED
    BY <2>1, <2>2
<1>3. World => UNCHANGED members
  BY DEF World, SetHolders, LogIn, Attach, Detach
<1>4. ASSUME NEW p \in Pushes, PushStep(p), ~AddUsers(p), ~RemoveUsers(p)
      PROVE  UNCHANGED members
  BY <1>4 DEF PushStep, Begin, NoteGroup, ReadTarget, ReadGroup, ReadAccounts, Reading, Finish,
              Fail, DeleteRole
<1> QED
  BY <1>1, <1>2, <1>3, <1>4 DEF Next, vars

(* While an uncrossed push is at work on a group, or one has vouched for   *)
(* it, no step of any push takes an entitled member out or lets another in.*)
THEOREM WatchedIsNeverWorse == Spec => WatchedOnlyImproves
<1>1. Init => Inv /\ MirrorInv
  BY InvInit, MirrorInit
<1>2. Inv /\ MirrorInv /\ [Next]_vars => (Inv /\ MirrorInv)'
  BY InvStep, MirrorStep
<1>3. Inv /\ MirrorInv /\ [Next]_vars =>
        [\A g \in Groups : Watched(g) =>
           /\ members'[g] \subseteq members[g] \cup Entitled(g)
           /\ members[g] \cap Entitled(g) \subseteq members'[g]]_vars
  BY WatchedStep
<1> QED
  BY <1>1, <1>2, <1>3, PTL DEF Spec, WatchedOnlyImproves
=============================================================================
