------------------------------ MODULE GroupSync ------------------------------
(***************************************************************************)
(* The groups of Open WebUI that mirror the roles of the shell             *)
(* (packages/@cortex/service/src/openwebui-sync.ts, reconcileRoleGroup,    *)
(* pushGroupState, emptyGroupMembership; system-config.ts, deleteRole):    *)
(* the members of a mapped group are to be the active holders of its role  *)
(* that have an account there.                                             *)
(*                                                                         *)
(* Nothing is propagated: a push computes what the group should hold, what *)
(* it holds, and sends the difference.  It makes its three readings in any *)
(* order, and two changing calls after them; between any two, the roles    *)
(* may change, people may get an account, a role may be mapped elsewhere   *)
(* or deleted, and other pushes may run.  The budget of five seconds ends  *)
(* only the wait for a push, never the push, so a push may take any time;  *)
(* a call of it may fail, with or without having had its effect.           *)
(*                                                                         *)
(* Left out: the result noted on the mapping (shown, read by no other      *)
(* step), the name and description of a group, and a group removed by      *)
(* hand, on which every push fails.                                        *)
(***************************************************************************)
EXTENDS FiniteSets, Naturals

CONSTANTS
  People,
  Roles,
  Groups,      \* groups of Open WebUI
  Pushes,      \* pushes and deletions in flight
  NoRole,      \* the role of a push that empties
  NoGroup,     \* a role without a mapping
  MaxChanges   \* bound: changes of the outer world

ASSUME NamesAssumption == NoRole \notin Roles /\ NoGroup \notin Groups

ASSUME BoundAssumption == MaxChanges \in Nat

VARIABLES
  roles,      \* the rows of roles
  holders,    \* per role: its active holders (user_roles, users.is_active)
  mapping,    \* openwebui_group_mappings: the group of a role
  accounts,   \* people with an account in Open WebUI
  members,    \* per group: its members in Open WebUI
  pc,         \* per push: where it is
  role, group,          \* per push: what it is about
  unread,               \* per push: the readings still out
  target, seen, known,  \* per push: what it read
  alone,      \* history, per push: nothing crossed it
  doubt,      \* history: groups nothing vouches for
  changes     \* counted against MaxChanges

cortex == <<roles, holders, mapping>>
remote == <<accounts, members>>
read   == <<target, seen, known>>
local  == <<pc, role, group, unread, read>>

vars == <<cortex, remote, local, alone, doubt, changes>>

-----------------------------------------------------------------------------

Running(g) == {p \in Pushes : pc[p] # "idle" /\ group[p] = g}

(* Who should be in g: the active holders of the role mapped to it, as far *)
(* as they have an account.  Nobody, when no role is.                      *)
Entitled(g) == {u \in accounts : \E r \in roles : mapping[r] = g /\ u \in holders[r]}

(* The world of g changed: nothing vouches for it, and no push that runs   *)
(* has seen all of it.                                                     *)
Disturb(gs) ==
  /\ doubt' = doubt \cup gs
  /\ alone' = [p \in Pushes |-> alone[p] /\ group[p] \notin gs]

(* Mutant: one group for two roles.                                        *)
AnyGroup(r, g) == TRUE

(* UNIQUE(group_id): a group stands behind one role at most.               *)
Attachable(r, g) == \A q \in Roles \ {r} : mapping[q] # g

Init == /\ roles = Roles
        /\ holders \in [Roles -> SUBSET People]
        /\ mapping \in [Roles -> Groups \cup {NoGroup}]
        /\ \A r \in Roles, g \in Groups : mapping[r] = g => Attachable(r, g)
        /\ accounts \in SUBSET People
        /\ members = [g \in Groups |-> {}]
        /\ pc = [p \in Pushes |-> "idle"]
        /\ role = [p \in Pushes |-> NoRole]
        /\ group = [p \in Pushes |-> NoGroup]
        /\ unread = [p \in Pushes |-> {}]
        /\ target = [p \in Pushes |-> {}]
        /\ seen = [p \in Pushes |-> {}]
        /\ known = [p \in Pushes |-> {}]
        /\ alone = [p \in Pushes |-> FALSE]
        /\ doubt = Groups
        /\ changes = 0

-----------------------------------------------------------------------------
(* The outer world.                                                        *)

Change == changes < MaxChanges /\ changes' = changes + 1

GroupsOf(r) == {mapping[r]} \ {NoGroup}

(* setUserRoles, updateUser: the holders of a role change.                 *)
SetHolders(r, us) ==
  /\ Change
  /\ r \in roles
  /\ us # holders[r]
  /\ holders' = [holders EXCEPT ![r] = us]
  /\ Disturb(GroupsOf(r))
  /\ UNCHANGED <<roles, mapping, remote, local>>

(* Somebody logs in to Open WebUI for the first time.                      *)
LogIn(u) ==
  /\ Change
  /\ u \notin accounts
  /\ accounts' = accounts \cup {u}
  /\ Disturb(Groups)
  /\ UNCHANGED <<cortex, members, local>>

(* attachRoleGroup: the mapping alone, no member is touched.               *)
Attach(r, g) ==
  /\ Change
  /\ r \in roles
  /\ mapping[r] # g
  /\ Attachable(r, g)
  /\ mapping' = [mapping EXCEPT ![r] = g]
  /\ Disturb(GroupsOf(r) \cup {g})
  /\ UNCHANGED <<roles, holders, remote, local>>

(* detachRoleGroup: the members stay as they are.                          *)
Detach(r) ==
  /\ Change
  /\ mapping[r] # NoGroup
  /\ mapping' = [mapping EXCEPT ![r] = NoGroup]
  /\ Disturb(GroupsOf(r))
  /\ UNCHANGED <<roles, holders, remote, local>>

-----------------------------------------------------------------------------
(* A push.                                                                 *)

Goto(p, where) == pc' = [pc EXCEPT ![p] = where]

(* reconcileRoleGroup: after a change of roles, or "synchronise now".      *)
Begin(p, r) ==
  /\ pc[p] = "idle"
  /\ r \in roles
  /\ mapping[r] # NoGroup
  /\ Goto(p, "reading")
  /\ role' = [role EXCEPT ![p] = r]
  /\ group' = [group EXCEPT ![p] = mapping[r]]
  /\ unread' = [unread EXCEPT ![p] = {"target", "group", "accounts"}]
  /\ alone' = [alone EXCEPT ![p] = Running(mapping[r]) = {}]
  /\ UNCHANGED <<cortex, remote, read, doubt, changes>>

Reading(p, what) ==
  /\ pc[p] = "reading"
  /\ what \in unread[p]
  /\ unread' = [unread EXCEPT ![p] = @ \ {what}]
  /\ UNCHANGED <<cortex, remote, pc, role, group, alone, doubt, changes>>

(* loadActiveRoleMemberEmails: of a deleted role, nobody.                  *)
ReadTarget(p) ==
  /\ Reading(p, "target")
  /\ target' = [target EXCEPT ![p] = holders[role[p]]]
  /\ UNCHANGED <<seen, known>>

(* getGroup                                                                *)
ReadGroup(p) ==
  /\ Reading(p, "group")
  /\ seen' = [seen EXCEPT ![p] = members[group[p]]]
  /\ UNCHANGED <<target, known>>

(* listAllUserEmailIds                                                     *)
ReadAccounts(p) ==
  /\ Reading(p, "accounts")
  /\ known' = [known EXCEPT ![p] = accounts]
  /\ UNCHANGED <<target, seen>>

(* Mutant: holders without an account are added as well.                   *)
WantedAll(p) == target[p]

(* Mutant: the difference to add is taken for the whole membership.        *)
WantedMissing(p) == (target[p] \cap known[p]) \ seen[p]

Wanted(p) == target[p] \cap known[p]

(* Only the difference is sent, never the whole membership.                *)
AddUsers(p) ==
  /\ pc[p] = "reading"
  /\ unread[p] = {}
  /\ members' = [members EXCEPT ![group[p]] = @ \cup (Wanted(p) \ seen[p])]
  /\ Goto(p, "added")
  /\ UNCHANGED <<cortex, accounts, role, group, unread, read, alone, doubt, changes>>

(* Mutant: members are added and never removed.                            *)
NoSurplus(p) == {}

ToRemove(p) == seen[p] \ Wanted(p)

RemoveUsers(p) ==
  /\ pc[p] = "added"
  /\ members' = [members EXCEPT ![group[p]] = @ \ ToRemove(p)]
  /\ Goto(p, "removed")
  /\ UNCHANGED <<cortex, accounts, role, group, unread, read, alone, doubt, changes>>

Forget(p) ==
  /\ Goto(p, "idle")
  /\ role' = [role EXCEPT ![p] = NoRole]
  /\ group' = [group EXCEPT ![p] = NoGroup]
  /\ unread' = [unread EXCEPT ![p] = {}]
  /\ target' = [target EXCEPT ![p] = {}]
  /\ seen' = [seen EXCEPT ![p] = {}]
  /\ known' = [known EXCEPT ![p] = {}]
  /\ alone' = [alone EXCEPT ![p] = FALSE]

(* The push is through.  One that nothing crossed vouches for its group.   *)
Finish(p) ==
  /\ pc[p] = "removed"
  /\ Forget(p)
  /\ doubt' = IF alone[p] THEN doubt \ {group[p]} ELSE doubt
  /\ UNCHANGED <<cortex, remote, changes>>

(* A call fails, or the process dies: the rest of the push never runs.     *)
Fail(p) ==
  /\ pc[p] # "idle"
  /\ Forget(p)
  /\ UNCHANGED <<cortex, remote, doubt, changes>>

-----------------------------------------------------------------------------
(* deleteRole: the group is noted, the transaction deletes the role and    *)
(* with it the mapping, and only then is the group emptied.  A failure to  *)
(* read the mapping is taken for a role without a group.                   *)

NoteGroup(p, r) ==
  /\ pc[p] = "idle"
  /\ r \in roles
  /\ Goto(p, "deleting")
  /\ role' = [role EXCEPT ![p] = r]
  /\ \E g \in {mapping[r], NoGroup} : group' = [group EXCEPT ![p] = g]
  /\ UNCHANGED <<cortex, remote, unread, read, alone, doubt, changes>>

(* From here on it is a push with nobody to add.                           *)
DeleteRole(p) ==
  LET r == role[p]
      g == group[p]
  IN  /\ pc[p] = "deleting"
      /\ r \in roles
      /\ Change
      /\ roles' = roles \ {r}
      /\ holders' = [holders EXCEPT ![r] = {}]
      /\ mapping' = [mapping EXCEPT ![r] = NoGroup]
      /\ doubt' = doubt \cup GroupsOf(r)
      /\ IF g = NoGroup
         THEN /\ Goto(p, "idle")
              /\ UNCHANGED <<unread>>
         ELSE /\ Goto(p, "reading")
              /\ unread' = [unread EXCEPT ![p] = {"group"}]
      /\ role' = [role EXCEPT ![p] = NoRole]
      /\ alone' = [q \in Pushes |->
                     IF q = p THEN Running(g) = {p} /\ mapping[r] = g
                     ELSE alone[q] /\ group[q] \notin GroupsOf(r)]
      /\ UNCHANGED <<remote, group, read>>

PushStep(p) == \/ \E r \in Roles : Begin(p, r) \/ NoteGroup(p, r)
               \/ ReadTarget(p) \/ ReadGroup(p) \/ ReadAccounts(p)
               \/ AddUsers(p) \/ RemoveUsers(p) \/ Finish(p) \/ Fail(p)
               \/ DeleteRole(p)

World == \/ \E r \in Roles, us \in SUBSET People : SetHolders(r, us)
         \/ \E u \in People : LogIn(u)
         \/ \E r \in Roles, g \in Groups : Attach(r, g)
         \/ \E r \in Roles : Detach(r)

Next == World \/ \E p \in Pushes : PushStep(p)

Spec == Init /\ [][Next]_vars

-----------------------------------------------------------------------------

TypeOK ==
  /\ roles \subseteq Roles
  /\ holders \in [Roles -> SUBSET People]
  /\ mapping \in [Roles -> Groups \cup {NoGroup}]
  /\ \A r \in Roles \ roles : holders[r] = {} /\ mapping[r] = NoGroup
  /\ accounts \subseteq People
  /\ members \in [Groups -> SUBSET accounts]
  /\ pc \in [Pushes -> {"idle", "reading", "added", "removed", "deleting"}]
  /\ role \in [Pushes -> Roles \cup {NoRole}]
  /\ group \in [Pushes -> Groups \cup {NoGroup}]
  /\ unread \in [Pushes -> SUBSET {"target", "group", "accounts"}]
  /\ target \in [Pushes -> SUBSET People]
  /\ seen \in [Pushes -> SUBSET People]
  /\ known \in [Pushes -> SUBSET People]
  /\ alone \in [Pushes -> BOOLEAN]
  /\ doubt \subseteq Groups
  /\ changes \in 0..MaxChanges

(* A group keeps exactly the people entitled to it from the moment a push  *)
(* that nothing crossed got through, until its world changes: pushes that  *)
(* run later, fail half-way or cross each other leave it so, and a push of *)
(* long ago that still runs cannot undo it.  The group of a deleted role   *)
(* stays empty in the same way.                                            *)
TrustedMirror == \A g \in Groups \ doubt : members[g] = Entitled(g)

(* Somebody vouches for g, or will if nothing comes in between.            *)
Watched(g) ==
  \/ g \notin doubt
  \/ \E p \in Pushes : pc[p] \in {"reading", "added", "removed"} /\ group[p] = g /\ alone[p]

(* A group on which an uncrossed push is at work is never worse for it in  *)
(* passing: between the adding and the removing, and whoever else still    *)
(* runs on the group, nobody entitled drops out and nobody who is not gets *)
(* in (openwebui-sync.ts sends the difference, never the whole membership).*)
WatchedOnlyImproves ==
  [][\A g \in Groups : Watched(g) =>
       /\ members'[g] \subseteq members[g] \cup Entitled(g)
       /\ members[g] \cap Entitled(g) \subseteq members'[g]]_vars

Synchronised(r) ==
  \E p \in Pushes : role[p] = r /\ group[p] = mapping[r] /\ Finish(p)

(* "A missed call costs a delay until the next reconciliation, never an    *)
(* inconsistency" (openwebui-sync.ts, head): a mapped role whose pushes    *)
(* get through again and again has exactly its members in the end, however *)
(* many pushes failed or crossed before.  No fairness is assumed.          *)
MirrorCatchesUp ==
  \A r \in Roles :
    []<><<Synchronised(r)>>_vars =>
      <>[](\A g \in GroupsOf(r) : members[g] = Entitled(g))
=============================================================================
