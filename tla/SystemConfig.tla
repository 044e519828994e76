---------------------------- MODULE SystemConfig ----------------------------
(***************************************************************************)
(* The five changes of the shell's configuration that can take away the    *)
(* last person who reaches its administration module "system-config"       *)
(* (packages/@cortex/service/src/system-config.ts), each behind the gate   *)
(* of the module (app/idp/app/api/system-config/_lib/guard.ts), which asks *)
(* the cache of permissions, each followed by the clearing of that cache.  *)
(* The cache is RbacCache, composed by INSTANCE: a call is a reader of the *)
(* cache while it stands at the gate and a mutation once it has committed. *)
(*                                                                         *)
(* A change is a transaction in READ COMMITTED.  Its steps are what it     *)
(* reads before the lock (Open), the lock on the row of the module with    *)
(* the check under it (Check), the commit of its writes (Commit), and the  *)
(* clearing in the process (Clear).  The reads of one check are one step:  *)
(* whoever else writes what they read either waits for the lock or is the  *)
(* writer without a lock, who may run before or after them.                *)
(*                                                                         *)
(* Left out: grants to other tiles, scopes and names, the row of the       *)
(* module itself (its guards refuse every edit that would hide it), and    *)
(* the synchronisation with Open WebUI (GroupSync).                        *)
(***************************************************************************)
EXTENDS FiniteSets, Naturals

CONSTANTS
  Users,
  Roles,
  SystemRoles,   \* roles.is_system
  Calls,         \* requests in flight
  Absent, Denied, MaxEntries   \* as in RbacCache

ASSUME RolesAssumption == SystemRoles \subseteq Roles

ASSUME AnswersAssumption == Absent \notin BOOLEAN /\ Denied \notin BOOLEAN

VARIABLES
  active,   \* users.is_active
  roles,    \* the rows of roles
  holds,    \* user_roles
  grants,   \* permissions_matrix for system-config
  pc, op,   \* per call: where its transaction is, and what it is to write
  overwritten,   \* history: a write without the lock changed someone's activity
  overtaken,     \* history: calls whose check such a write has overtaken
  store, expired, inFlight, fresh, at, email, joined, answer, since

directory == <<active, roles, holds, grants>>
cache     == <<store, expired, inFlight, fresh>>
gate      == <<at, email, joined, answer, since>>

history   == <<overwritten, overtaken>>

vars == <<directory, pc, op, history, cache, gate>>

-----------------------------------------------------------------------------

(* Somebody among `people` holds one of `those` roles.                     *)
SomeoneHolds(people, those, held) ==
  \E u \in people, r \in those : <<u, r>> \in held

ActiveUsers == {u \in Users : active[u]}

(* loadGrantedApplicationCodes, asked about this one module.               *)
MayEnter(u) == active[u] /\ SomeoneHolds({u}, grants, holds)

Granted == [u \in Users |-> MayEnter(u)]

Reachable == SomeoneHolds(ActiveUsers, grants, holds)

Uncleared == {c \in Calls : pc[c] = "committed"}

Cache == INSTANCE RbacCache WITH
           People <- Users, Answers <- BOOLEAN, Readers <- Calls,
           Mutations <- Calls, granted <- Granted, uncleared <- Uncleared

-----------------------------------------------------------------------------

UserRoles(u, rs) == [kind |-> "user-roles", user |-> u, roles |-> rs]
ModuleRoles(rs) == [kind |-> "application-roles", roles |-> rs]
RoleTiles(r, on) == [kind |-> "role-applications", role |-> r, included |-> on]
DropRole(r) == [kind |-> "role-deleted", role |-> r]

(* A PATCH of a user: what it will write to is_active, and whether that    *)
(* differed from the row when the transaction read it.                     *)
Patch(u, next, changed) ==
  [kind |-> "user-active", user |-> u, active |-> next, changed |-> changed]

NoOp == [kind |-> "none"]

Ops == {UserRoles(u, rs) : u \in Users, rs \in SUBSET Roles}
       \cup {ModuleRoles(rs) : rs \in SUBSET Roles}
       \cup {RoleTiles(r, on) : r \in Roles, on \in BOOLEAN}
       \cup {DropRole(r) : r \in Roles \ SystemRoles}
       \cup {Patch(u, next, changed) : u \in Users, next \in BOOLEAN, changed \in BOOLEAN}

(* The roles a change names exist when its transaction looks.              *)
Named(o) == CASE o.kind \in {"user-roles", "application-roles"} -> o.roles
              [] o.kind \in {"role-applications", "role-deleted"} -> {o.role}
              [] OTHER -> {}

(* A PATCH that names is_active writes what it names; one that does not    *)
(* writes back what it read.                                               *)
Readable(o) == /\ Named(o) \subseteq roles
               /\ o.kind = "user-active" => o.changed = (o.active # active[o.user])

(* Whether the change is checked under the lock of the module's row.       *)
Locks(o) == o.kind = "user-active" => o.changed

(* What the change makes of each table.                                    *)
ActiveAfter(o) == IF o.kind = "user-active"
                  THEN [active EXCEPT ![o.user] = o.active] ELSE active

RolesAfter(o) == IF o.kind = "role-deleted" THEN roles \ {o.role} ELSE roles

(* Users are set to their new roles; a deleted role cascades.              *)
HoldsAfter(o) ==
  CASE o.kind = "user-roles" ->
         {h \in holds : h[1] # o.user} \cup ({o.user} \X o.roles)
    [] o.kind = "role-deleted" -> {h \in holds : h[2] # o.role}
    [] OTHER -> holds

GrantsAfter(o) ==
  CASE o.kind = "application-roles" -> o.roles
    [] o.kind = "role-applications" ->
         (grants \ {o.role}) \cup (IF o.included THEN {o.role} ELSE {})
    [] o.kind = "role-deleted" -> grants \ {o.role}
    [] OTHER -> grants

(* assertModuleStaysReachable: somebody active holds a role of the module  *)
(* afterwards, or nobody does already.                                     *)
ReachableAfter(o) ==
  SomeoneHolds({u \in Users : ActiveAfter(o)[u]}, GrantsAfter(o), HoldsAfter(o))

Allowed(o) == ReachableAfter(o) \/ ~Reachable

-----------------------------------------------------------------------------

Init == /\ active \in [Users -> BOOLEAN]
        /\ roles = Roles
        /\ holds \in SUBSET (Users \X Roles)
        /\ grants \in SUBSET Roles
        /\ Reachable
        /\ pc = [c \in Calls |-> "idle"]
        /\ op = [c \in Calls |-> NoOp]
        /\ overwritten = FALSE
        /\ overtaken = {}
        /\ Cache!Init

Goto(c, where) == pc' = [pc EXCEPT ![c] = where]

Done(c) == Goto(c, "idle") /\ op' = [op EXCEPT ![c] = NoOp]

(* requireTileAccess at the head of every route of the module.             *)
Knock(c, u) ==
  /\ pc[c] = "idle"
  /\ UNCHANGED <<directory, pc, op, history>>
  /\ Cache!Ask(c, u)

(* The gate's reading runs, arrives or fails.                              *)
GateReads(c) ==
  /\ UNCHANGED <<directory, pc, op, history>>
  /\ Cache!Read(c) \/ Cache!Resolve(c) \/ Cache!Fail(c)

EntryExpires(u) ==
  /\ UNCHANGED <<directory, pc, op, history>>
  /\ Cache!Expire(u)

TurnAway(c) ==
  /\ answer[c] # TRUE
  /\ UNCHANGED <<directory, pc, op, history>>
  /\ Cache!Leave(c)

(* The gate opens and the transaction makes the reads it makes before the  *)
(* lock.                                                                   *)
Open(c, o) ==
  /\ pc[c] = "idle"
  /\ answer[c] = TRUE
  /\ Readable(o)
  /\ Goto(c, "opened")
  /\ op' = [op EXCEPT ![c] = o]
  /\ UNCHANGED <<directory, history>>
  /\ Cache!Leave(c)

(* Mutant: a check that does not wait for the lock of another.             *)
NoLock == TRUE

(* Nobody holds the row of the module locked.                              *)
LockFree == \A c \in Calls : pc[c] = "checked" => ~Locks(op[c])

(* SELECT ... FOR UPDATE on the module's row and the check under it.       *)
Check(c) ==
  /\ pc[c] = "opened"
  /\ Locks(op[c])
  /\ LockFree
  /\ Allowed(op[c])
  /\ Goto(c, "checked")
  /\ UNCHANGED <<directory, op, history, cache, gate>>

(* SelfLockoutError: the transaction is rolled back.                       *)
Refuse(c) ==
  /\ pc[c] = "opened"
  /\ Locks(op[c])
  /\ LockFree
  /\ ~Allowed(op[c])
  /\ Done(c)
  /\ UNCHANGED <<directory, history, cache, gate>>

(* Mutant: rows may name a role that is gone.                              *)
AlwaysEffective(o) == TRUE

(* Rows that name a role deleted meanwhile are refused by the database,    *)
(* and such a role is not deleted twice.                                   *)
Effective(o) == (o.kind = "role-applications" => o.included) => Named(o) \subseteq roles

MayWrite(c) == pc[c] = (IF Locks(op[c]) THEN "checked" ELSE "opened")

(* The transaction is rolled back, or finds nothing left to delete.        *)
Abandon(c) ==
  /\ MayWrite(c)
  /\ ~Effective(op[c])
  /\ Done(c)
  /\ overtaken' = overtaken \ {c}
  /\ UNCHANGED <<directory, overwritten, cache, gate>>

(* History: a write of activity that took no lock overtakes every check    *)
(* that has not committed yet.                                             *)
NoteOverwrite(c) ==
  LET lockless == ~Locks(op[c]) /\ active # ActiveAfter(op[c])
      checked  == {d \in Calls : pc[d] = "checked"}
  IN  /\ overwritten' = (overwritten \/ lockless)
      /\ overtaken' = (overtaken \cup (IF lockless THEN checked ELSE {})) \ {c}

Commit(c) ==
  /\ MayWrite(c)
  /\ Effective(op[c])
  /\ LET o == op[c]
     IN  /\ active' = ActiveAfter(o)
         /\ roles' = RolesAfter(o)
         /\ holds' = HoldsAfter(o)
         /\ grants' = GrantsAfter(o)
  /\ NoteOverwrite(c)
  /\ Goto(c, "committed")
  /\ UNCHANGED op
  /\ Cache!Mutate(c)

(* Mutant: the handler answers and leaves the cache as it is.              *)
AnswerOnly(c) ==
  /\ pc[c] = "committed"
  /\ Done(c)
  /\ UNCHANGED <<directory, history, cache, gate>>

(* clearTileAccessCache, and the handler answers.                          *)
Clear(c) ==
  /\ pc[c] = "committed"
  /\ Done(c)
  /\ UNCHANGED <<directory, history>>
  /\ Cache!Clear(c)

CallStep(c) == \/ \E u \in Users : Knock(c, u)
               \/ GateReads(c) \/ TurnAway(c)
               \/ \E o \in Ops : Open(c, o)
               \/ Check(c) \/ Refuse(c) \/ Abandon(c) \/ Commit(c) \/ Clear(c)

Next == \/ \E c \in Calls : CallStep(c)
        \/ \E u \in Users : EntryExpires(u)

Spec == Init /\ [][Next]_vars

-----------------------------------------------------------------------------

TypeOK ==
  /\ active \in [Users -> BOOLEAN]
  /\ roles \subseteq Roles
  /\ holds \subseteq Users \X roles
  /\ grants \subseteq roles
  /\ pc \in [Calls -> {"idle", "opened", "checked", "committed"}]
  /\ op \in [Calls -> Ops \cup {NoOp}]
  /\ overwritten \in BOOLEAN
  /\ overtaken \subseteq {c \in Calls : pc[c] = "checked"}
  /\ Cache!TypeOK

(* At least one active person reaches the module, however many changes     *)
(* cross, until a write of activity that took no lock falls among them.    *)
ReachableUnlessOverwritten == overwritten \/ Reachable

(* A change moves on that took no lock, or whose check was overtaken.      *)
LossyWrite ==
  \E c \in Calls : pc[c] # pc'[c] /\ (~Locks(op[c]) \/ c \in overtaken)

(* Only two writes ever take the module's last active person away: one of  *)
(* activity that took no lock, or one whose check such a write overtook;   *)
(* so what a lockless write breaks is not broken further by checked ones,  *)
(* and access that somebody restored is safe again.                        *)
LossOnlyByOverwrite ==
  [][Reachable /\ ~Reachable' => LossyWrite]_vars

(* The gate lets a call in only if its person might enter at some moment   *)
(* after it asked, or a change still waited for its clearing when it did.  *)
GateIsFresh == Cache!AnswersAreFresh

(* The calls use the cache as RbacCache says.                              *)
CacheSpec == Cache!Spec

(* What the comment of assertModuleStaysReachable promises: after every    *)
(* change at least one active user keeps the access.                       *)
StaysReachable == Reachable
=============================================================================
