----------------------------- MODULE AccountSync -----------------------------
(***************************************************************************)
(* "Synchronise everything": the accounts of Open WebUI brought in line    *)
(* with the people of the shell                                            *)
(* (packages/@cortex/service/src/openwebui-sync.ts, reconcileEverything;   *)
(* openwebui-sync-store.ts).                                               *)
(*                                                                         *)
(* A run reads four things in any order, each at its own moment: who is    *)
(* entitled (two queries, the second asks who is an administrator), which  *)
(* accounts exist, and whom it must never cut off.  From these it makes a  *)
(* plan, and carries the plan out entry by entry; an entry may fail and    *)
(* the rest goes on.  Between any two steps people gain and lose roles,    *)
(* and accounts change on the other side.                                  *)
(*                                                                         *)
(* The owner of the token and the configured addresses are protected: both *)
(* halves of the plan pass over them, so nothing is kept of their accounts,*)
(* but among the entitled they are counted.                                *)
(* Left out: the preview (dryRun), which ends where the plan is made;      *)
(* creating groups and pushing their members, which a run does through the *)
(* operations of GroupSync; the difference between an account revoked and  *)
(* an orphan revoked, which is only shown; and a call that timed out and   *)
(* takes effect later than the next entry.                                 *)
(***************************************************************************)
EXTENDS FiniteSets, Naturals

CONSTANTS
  Users,       \* whose accounts a run may write
  Protected,   \* the owner of the token and the configured addresses
  MaxEdits     \* bound: changes of roles and of accounts by others

ASSUME ProtectedAssumption == Users \cap Protected = {}

ASSUME EditsAssumption == MaxEdits \in Nat

VARIABLES
  standing,   \* per person: what the shell's tables say of it
  account,    \* per person: the role of its account in Open WebUI
  stage,      \* where the run is
  awaited,    \* the readings still out
  eligible,   \* read: active people with a role
  admins,     \* read: who holds the role `admin`
  existing,   \* read: the accounts
  neverRevoke,\* read: active administrators
  plan,       \* entries still to be carried out
  failures,   \* whether an entry failed
  moved,      \* history: people whose standing or account changed since the run began
  raised,     \* history: people made administrators after neverRevoke was read
  missed,     \* history: administrators the run made plain users
  calm,       \* history: the last run carried out reported ok, nobody changed since it began
  edits       \* counted against MaxEdits

readings == <<awaited, eligible, admins, existing, neverRevoke>>

history == <<moved, raised, missed, calm>>

accountVars == <<standing, account, stage, readings, plan, failures, history, edits>>

-----------------------------------------------------------------------------

(* Inactive people keep their roles; without an active role nobody is      *)
(* entitled.                                                               *)
Standings == {"none", "member", "admin", "inactive", "inactive-admin"}

Accounts == {"none", "pending", "user", "admin"}

MayEnter(u) == standing[u] \in {"member", "admin"}

HoldsAdmin(u) == standing[u] \in {"admin", "inactive-admin"}

Everybody == Users \cup Protected

(* Of the protected it only matters whether they are entitled.             *)
StandingsOf(u) == IF u \in Users THEN Standings ELSE {"none", "member"}

RoleFor(admin) == IF admin THEN "admin" ELSE "user"

Readings == {"eligible", "admins", "existing", "neverRevoke"}

AccountInit ==
  /\ standing \in [Everybody -> Standings]
  /\ \A u \in Everybody : standing[u] \in StandingsOf(u)
  /\ account \in [Users -> Accounts]
  /\ stage = "idle"
  /\ awaited = {}
  /\ eligible = {} /\ admins = {} /\ neverRevoke = {}
  /\ existing = [u \in Users |-> "none"]
  /\ plan = {}
  /\ failures = FALSE
  /\ moved = {} /\ raised = {} /\ missed = {}
  /\ calm = FALSE
  /\ edits = 0

-----------------------------------------------------------------------------
(* The outer world.                                                        *)

Edit == edits < MaxEdits /\ edits' = edits + 1

Noted(u) == IF stage = "idle" THEN {} ELSE {u}

SetStanding(u, s) ==
  /\ Edit
  /\ s # standing[u]
  /\ standing' = [standing EXCEPT ![u] = s]
  /\ moved' = moved \cup Noted(u)
  /\ raised' = IF s = "admin" /\ "neverRevoke" \notin awaited
               THEN raised \cup Noted(u) ELSE raised
  /\ calm' = FALSE
  /\ UNCHANGED <<account, stage, readings, plan, failures, missed>>

(* A first login, or the hand of an administrator of Open WebUI.           *)
SetAccount(u, a) ==
  /\ Edit
  /\ a # account[u]
  /\ account' = [account EXCEPT ![u] = a]
  /\ moved' = moved \cup Noted(u)
  /\ calm' = FALSE
  /\ UNCHANGED <<standing, stage, readings, plan, failures, raised, missed>>

-----------------------------------------------------------------------------
(* A run.                                                                  *)

BeginRun ==
  /\ stage = "idle"
  /\ stage' = "reading"
  /\ awaited' = Readings
  /\ UNCHANGED <<standing, account, eligible, admins, existing, neverRevoke,
                 plan, failures, history, edits>>

(* The readings the plan was made from are not used again.                 *)
DropReadings ==
  /\ eligible' = {} /\ neverRevoke' = {}
  /\ existing' = [u \in Users |-> "none"]

(* The run answers.                                                        *)
Answer ==
  /\ stage' = "idle"
  /\ awaited' = {}
  /\ DropReadings
  /\ admins' = {}
  /\ failures' = FALSE
  /\ moved' = {} /\ raised' = {} /\ missed' = {}
  /\ UNCHANGED <<standing, account, plan, edits>>

ReadOne(what) ==
  /\ stage = "reading"
  /\ what \in awaited
  /\ awaited' = awaited \ {what}
  /\ UNCHANGED <<standing, account, stage, plan, failures, history, edits>>

(* loadOpenwebuiTargetUsers: active people with at least one role...       *)
ReadEligible ==
  /\ ReadOne("eligible")
  /\ eligible' = {u \in Everybody : MayEnter(u)}
  /\ UNCHANGED <<admins, existing, neverRevoke>>

(* ... and then who holds `admin`, active or not.                          *)
ReadAdmins ==
  /\ "eligible" \notin awaited
  /\ ReadOne("admins")
  /\ admins' = {u \in Users : HoldsAdmin(u)}
  /\ UNCHANGED <<eligible, existing, neverRevoke>>

(* listAllUsers                                                            *)
ReadExisting ==
  /\ ReadOne("existing")
  /\ existing' = account
  /\ UNCHANGED <<eligible, admins, neverRevoke>>

(* loadAdminEmails: active administrators.                                 *)
ReadNeverRevoke ==
  /\ ReadOne("neverRevoke")
  /\ neverRevoke' = {u \in Users : standing[u] = "admin"}
  /\ UNCHANGED <<eligible, admins, existing>>

Entry(u, action) == [email |-> u, action |-> action]

(* (1) Accounts that should exist, and their role.                         *)
Grants ==
  LET wanted(u) == RoleFor(u \in admins)
      action(u) == CASE existing[u] = "none" -> "create"
                     [] existing[u] = "pending" -> "restore"
                     [] wanted(u) = "admin" -> "promote-admin"
                     [] OTHER -> "demote-user"
  IN  {Entry(u, action(u)) : u \in {v \in eligible \cap Users : existing[v] # wanted(v)}}

(* Mutant: those entitled are revoked as well.                             *)
RevokedAnyway == {u \in Users \ neverRevoke : existing[u] \notin {"none", "pending"}}

(* Mutant: administrators are cut off like everybody.                      *)
RevokedAll == {u \in Users \ eligible : existing[u] \notin {"none", "pending"}}

(* (2) Accounts that should have no access; administrators are spared.     *)
Revoked == {u \in Users \ (eligible \cup neverRevoke) :
              existing[u] \notin {"none", "pending"}}

(* Mutant: an empty source of truth cuts everybody off.                    *)
NeverBlocked == FALSE

(* An empty source of truth cuts nobody off: the run is refused.           *)
Blocked == eligible = {} /\ Revoked # {}

MakePlan ==
  /\ stage = "reading"
  /\ awaited = {}
  /\ ~Blocked
  /\ plan' = Grants \cup {Entry(u, "revoke") : u \in Revoked}
  /\ stage' = "applying"
  /\ DropReadings
  /\ UNCHANGED <<standing, account, awaited, admins, failures, history, edits>>

(* The run is refused, a reading is rejected, or the owner of the token    *)
(* cannot be told: nothing is written.                                     *)
GiveUp ==
  /\ stage = "reading"
  /\ Answer
  /\ UNCHANGED calm

(* Mutant: a restored account gets the administrator's role for anybody.   *)
NextRoleLavish(e) ==
  CASE e.action = "create" -> RoleFor(e.email \in admins)
    [] e.action \in {"promote-admin", "restore"} -> "admin"
    [] e.action = "demote-user" -> "user"
    [] OTHER -> "pending"

(* Mutant: a new account is a plain user's for anybody.                    *)
NextRoleNewcomer(e) ==
  CASE e.action = "promote-admin" -> "admin"
    [] e.action \in {"create", "demote-user", "restore"} -> "user"
    [] OTHER -> "pending"

(* Mutant: a restored account falls through to the last case.              *)
NextRoleForgotten(e) ==
  CASE e.action = "create" -> RoleFor(e.email \in admins)
    [] e.action = "promote-admin" -> "admin"
    [] e.action = "demote-user" -> "user"
    [] OTHER -> "pending"

(* What an entry writes.  A restored account becomes a user, whatever the  *)
(* plan showed for it.                                                     *)
NextRole(e) ==
  CASE e.action = "create" -> RoleFor(e.email \in admins)
    [] e.action = "promote-admin" -> "admin"
    [] e.action \in {"demote-user", "restore"} -> "user"
    [] OTHER -> "pending"

(* Open WebUI refuses to create an account that is there by now, and to    *)
(* change one that is gone.                                                *)
Accepted(e) == (e.action = "create") = (account[e.email] = "none")

Write(e) ==
  /\ Accepted(e)
  /\ account' = [account EXCEPT ![e.email] = NextRole(e)]
  /\ missed' = IF e.action = "restore" /\ e.email \in admins
               THEN missed \cup {e.email} ELSE missed

Apply(e) ==
  /\ stage = "applying"
  /\ e \in plan
  /\ plan' = plan \ {e}
  /\ Write(e)
  /\ UNCHANGED <<standing, stage, readings, failures, moved, raised, calm, edits>>

(* One entry fails, the others are still tried.  A call that was given up  *)
(* for its time may have been carried out nevertheless.                    *)
ApplyFails(e) ==
  /\ stage = "applying"
  /\ e \in plan
  /\ plan' = plan \ {e}
  /\ failures' = TRUE
  /\ Write(e) \/ UNCHANGED <<account, missed>>
  /\ UNCHANGED <<standing, stage, readings, moved, raised, calm, edits>>

(* Every entry was tried; the run reports ok when none failed.             *)
FinishRun ==
  /\ stage = "applying"
  /\ plan = {}
  /\ Answer
  /\ calm' = (~failures /\ moved = {})

Run == \/ BeginRun
       \/ ReadEligible \/ ReadAdmins \/ ReadExisting \/ ReadNeverRevoke
       \/ MakePlan \/ GiveUp
       \/ \E e \in plan : Apply(e) \/ ApplyFails(e)
       \/ FinishRun

Others == \/ \E u \in Everybody : \E s \in StandingsOf(u) : SetStanding(u, s)
          \/ \E u \in Users, a \in Accounts : SetAccount(u, a)

AccountNext == Run \/ Others

AccountSpec == AccountInit /\ [][AccountNext]_accountVars

-----------------------------------------------------------------------------

Entries == [email : Users,
            action : {"create", "restore", "promote-admin", "demote-user", "revoke"}]

AccountTypeOK ==
  /\ standing \in [Everybody -> Standings]
  /\ account \in [Users -> Accounts]
  /\ stage \in {"idle", "reading", "applying"}
  /\ awaited \subseteq Readings
  /\ eligible \subseteq Everybody /\ admins \subseteq Users /\ neverRevoke \subseteq Users
  /\ existing \in [Users -> Accounts]
  /\ plan \subseteq Entries
  /\ \A e, f \in plan : e.email = f.email => e = f
  /\ failures \in BOOLEAN
  /\ moved \subseteq Everybody /\ raised \subseteq Everybody /\ missed \subseteq Users
  /\ calm \in BOOLEAN
  /\ edits \in 0..MaxEdits

(* The account agrees with the shell.                                      *)
Agrees(u) == IF MayEnter(u) THEN account[u] = RoleFor(standing[u] = "admin")
             ELSE account[u] \in {"none", "pending"}

Succeeds == stage = "applying" /\ plan = {} /\ ~failures

(* A run that reports ok leaves every account in agreement with the shell, *)
(* but for people who changed while it ran, and for administrators it      *)
(* found `pending`, whom it restored as plain users.  These the next run   *)
(* repairs: when two in a row report ok, and nobody changes from the      *)
(* beginning of the first to the end of the second, every account agrees.  *)
AgreesAfterSync ==
  Succeeds => \A u \in Users \ moved : Agrees(u) \/ (u \in missed /\ ~calm)

CutsOff(u) == account[u] \notin {"none", "pending"} /\ account'[u] = "pending"

(* A run cuts off somebody who is entitled only if that person changed     *)
(* while it ran, and an administrator only if made one after the run had   *)
(* read the administrators; the readings at different moments never        *)
(* combine into a revocation of somebody whom each of them names.          *)
CutsOnlyTheChanged ==
  [][\A u \in Users :
       stage = "applying" /\ CutsOff(u) /\ edits' = edits
         => /\ MayEnter(u) => u \in moved
            /\ standing[u] = "admin" => u \in raised]_accountVars

(* While nobody at all is entitled, protected or not, a run cuts nobody    *)
(* off, unless somebody changed while it ran.  One protected person who is *)
(* entitled is enough for it to cut off everybody else.                    *)
EmptySourceCutsNobody ==
  [][stage = "applying" /\ edits' = edits /\ moved = {}
       /\ (\A u \in Everybody : ~MayEnter(u))
       => \A u \in Users : ~CutsOff(u)]_accountVars

(* A run writes to the account of somebody who did not change while it ran *)
(* only to repair it: the account was wrong before, and is right           *)
(* afterwards or that of an administrator restored as a plain user.  What  *)
(* agrees is left alone, although the readings are of different moments.   *)
RunsOnlyRepair ==
  [][\A u \in Users \ moved :
       edits' = edits /\ account'[u] # account[u]
         => ~Agrees(u) /\ (Agrees(u)' \/ u \in missed')]_accountVars

(* Runs may be repeated at will: once runs report ok again and again,      *)
(* every account agrees and stays so, the administrators restored as       *)
(* plain users included.                                                   *)
Converges == []<><<FinishRun /\ ~failures>>_accountVars => <>[](\A u \in Users : Agrees(u))

-----------------------------------------------------------------------------
(* What a comment of the code says, and the code does not do.              *)

(* openwebui-sync.ts: a full run is the moment at which one can say the    *)
(* state agrees, and who got access back returns to user or administrator  *)
(* without anybody's hand.  An administrator found `pending` does not.     *)
OkMeansEverybodyAgrees == Succeeds /\ moved = {} => \A u \in Users : Agrees(u)
=============================================================================
