-------------------------- MODULE AccountSyncProofs --------------------------
(***************************************************************************)
(* Proofs about AccountSync, for every set of people and any number of     *)
(* edits: what the readings of a run, each of its own moment, still say  *)
(* of a person who did not change since the run began.                     *)
(***************************************************************************)
EXTENDS AccountSync, TLAPS

-----------------------------------------------------------------------------
(* Types.                                                                  *)

IdleIsClean ==
  /\ stage = "idle" => moved = {} /\ raised = {} /\ missed = {} /\ failures = FALSE
  /\ stage # "applying" => plan = {}
  /\ stage # "reading" => awaited = {}

Inv == AccountTypeOK /\ IdleIsClean

LEMMA InvInit == AccountInit => Inv
<1> SUFFICES ASSUME AccountInit PROVE Inv
  OBVIOUS
<1>1. existing \in [Users -> Accounts]
  BY DEF AccountInit, Accounts
<1>2. 0 \in 0..MaxEdits
  BY EditsAssumption
<1>3. AccountTypeOK
  BY <1>1, <1>2, Zenon DEF AccountInit, AccountTypeOK
<1>4. IdleIsClean
  BY DEF AccountInit, IdleIsClean
<1> QED
  BY <1>3, <1>4 DEF Inv

(* An entry of the plan, and at most one for each person.                  *)
LEMMA PlanIsTyped ==
  ASSUME AccountTypeOK, MakePlan
  PROVE  plan' \subseteq Entries /\ \A e, f \in plan' : e.email = f.email => e = f
<1>1. \A e \in Grants : e.email \in eligible \cap Users /\ e \in Entries
  BY DEF AccountTypeOK, Grants, Entry, Entries
<1>2. \A e, f \in Grants : e.email = f.email => e = f
  BY DEF Grants, Entry
<1>3. \A u \in Revoked : u \in Users \ eligible
  BY DEF Revoked
<1>4. \A u \in Revoked : Entry(u, "revoke") \in Entries /\ Entry(u, "revoke").email = u
  BY <1>3 DEF Entry, Entries
<1> QED
  BY <1>1, <1>2, <1>3, <1>4 DEF MakePlan

LEMMA RolesAreTyped ==
  ASSUME NEW e
  PROVE  NextRole(e) \in Accounts /\ NextRole(e) # "none"
  BY DEF NextRole, RoleFor, Accounts

LEMMA WritesAreTyped ==
  ASSUME AccountTypeOK, NEW e \in plan, Write(e)
  PROVE  account' \in [Users -> Accounts] /\ missed' \subseteq Users
  BY RolesAreTyped DEF Write, AccountTypeOK, Entries

LEMMA InvStep == Inv /\ [AccountNext]_accountVars => Inv'
<1> SUFFICES ASSUME Inv, [AccountNext]_accountVars PROVE Inv'
  OBVIOUS
<1> USE EditsAssumption DEF Inv, AccountTypeOK, IdleIsClean, readings, history
<1>0. \A u \in Everybody : StandingsOf(u) \subseteq Standings
  BY DEF StandingsOf, Standings
<1>1. ASSUME NEW u \in Everybody, NEW s \in Standings, SetStanding(u, s) PROVE Inv'
  <2>1. /\ standing' \in [Everybody -> Standings] /\ calm' \in BOOLEAN
        /\ moved' \subseteq Everybody /\ raised' \subseteq Everybody
    BY <1>1 DEF SetStanding, Noted
  <2>2. edits' \in 0..MaxEdits
    BY <1>1 DEF SetStanding, Edit
  <2> QED
    BY <1>1, <2>1, <2>2 DEF SetStanding, Noted
<1>2. ASSUME NEW u \in Users, NEW a \in Accounts, SetAccount(u, a) PROVE Inv'
  <2>1. account' \in [Users -> Accounts] /\ calm' \in BOOLEAN /\ moved' \subseteq Everybody
    BY <1>2 DEF SetAccount, Noted, Everybody
  <2>2. edits' \in 0..MaxEdits
    BY <1>2 DEF SetAccount, Edit
  <2> QED
    BY <1>2, <2>1, <2>2 DEF SetAccount, Noted
<1>3. CASE BeginRun
  BY <1>3 DEF BeginRun, Readings
<1>4. CASE ReadEligible \/ ReadAdmins \/ ReadExisting \/ ReadNeverRevoke
  BY <1>4 DEF ReadEligible, ReadAdmins, ReadExisting, ReadNeverRevoke, ReadOne
<1>5. CASE MakePlan
  <2>1. plan' \subseteq Entries /\ \A e, f \in plan' : e.email = f.email => e = f
    BY <1>5, PlanIsTyped
  <2>2. existing' \in [Users -> Accounts]
    BY <1>5 DEF MakePlan, DropReadings, Accounts
  <2> QED
    BY <1>5, <2>1, <2>2 DEF MakePlan, DropReadings
<1>6. CASE GiveUp \/ FinishRun
  <2>1. existing' \in [Users -> Accounts]
    BY <1>6 DEF GiveUp, FinishRun, Answer, DropReadings, Accounts
  <2> QED
    BY <1>6, <2>1 DEF GiveUp, FinishRun, Answer, DropReadings
<1>7. ASSUME NEW e \in plan, Apply(e) PROVE Inv'
  <2>1. account' \in [Users -> Accounts]
    BY <1>7, WritesAreTyped DEF Apply
  <2>2. missed' \subseteq Users
    BY <1>7, WritesAreTyped DEF Apply
  <2> QED
    BY <1>7, <2>1, <2>2 DEF Apply
<1>8. ASSUME NEW e \in plan, ApplyFails(e) PROVE Inv'
  <2>1. account' \in [Users -> Accounts] /\ missed' \subseteq Users
    BY <1>8, WritesAreTyped DEF ApplyFails
  <2> QED
    BY <1>8, <2>1 DEF ApplyFails
<1>9. CASE UNCHANGED accountVars
  BY <1>9 DEF accountVars
<1> QED
  BY <1>0, <1>1, <1>2, <1>3, <1>4, <1>5, <1>6, <1>7, <1>8, <1>9 DEF AccountNext, Run, Others

(* The tables, the readings and the plan keep their types, and the plan    *)
(* has one entry for a person at most.                                     *)
THEOREM TypeCorrect == AccountSpec => []AccountTypeOK
  BY InvInit, InvStep, PTL DEF Inv, AccountSpec

-----------------------------------------------------------------------------
(* What the readings still say of a person who did not change.             *)

ReadingsFit ==
  /\ stage = "reading" /\ "eligible" \notin awaited =>
       \A u \in Everybody \ moved : u \in eligible <=> MayEnter(u)
  /\ \A u \in Users :
    /\ stage # "idle" /\ "admins" \notin awaited /\ u \notin moved => (u \in admins <=> HoldsAdmin(u))
    /\ stage = "reading" /\ u \notin moved =>
         /\ "existing" \notin awaited => existing[u] = account[u]
         /\ "neverRevoke" \notin awaited /\ u \in neverRevoke => MayEnter(u)
    /\ stage = "reading" /\ "neverRevoke" \notin awaited /\ standing[u] = "admin" =>
         u \in neverRevoke \/ u \in raised

(* An entry of the plan is still right, and still needed, for a person who *)
(* did not change, and an administrator it would cut off was made one too late to be read. *)
EntryFits(e) ==
  /\ e.email \notin moved =>
       /\ e.action = "revoke" <=> ~MayEnter(e.email)
       /\ e.action = "promote-admin" => HoldsAdmin(e.email)
       /\ e.action = "demote-user" => ~HoldsAdmin(e.email)
       /\ ~Agrees(e.email)
  /\ e.action = "revoke" /\ standing[e.email] = "admin" => e.email \in raised

PlanFits == \A e \in plan : EntryFits(e)

(* Who needs no entry any more agrees with the shell.                      *)
Settled(u) == u \in moved \cup missed \/ failures \/ Agrees(u)

RestIsSettled ==
  stage = "applying" =>
    \A u \in Users : Settled(u) \/ \E e \in plan : e.email = u

(* A plan that revokes somebody was made while somebody was entitled.      *)
SourceWasNotEmpty ==
  stage = "applying" /\ moved = {} /\ (\A u \in Everybody : ~MayEnter(u)) =>
    \A e \in plan : e.action # "revoke"

RunInv == ReadingsFit /\ PlanFits /\ RestIsSettled /\ SourceWasNotEmpty

LEMMA RunInit == AccountInit => RunInv
  BY DEF AccountInit, RunInv, ReadingsFit, PlanFits, RestIsSettled, SourceWasNotEmpty

(* A change of the world only widens what the histories hold.              *)
LEMMA WorldKeepsRun == Inv /\ RunInv /\ Others => RunInv'
<1> SUFFICES ASSUME Inv, RunInv, NEW u \in Everybody,
                    \/ \E s \in StandingsOf(u) : SetStanding(u, s)
                    \/ u \in Users /\ \E a \in Accounts : SetAccount(u, a)
             PROVE  RunInv'
  BY DEF Others, Everybody
<1>0. Users \subseteq Everybody
  BY DEF Everybody
<1>1. /\ UNCHANGED <<stage, readings, plan, failures, missed>>
      /\ moved' = moved \cup Noted(u) /\ raised \subseteq raised'
      /\ \A v \in Everybody \ {u} : standing'[v] = standing[v]
      /\ \A v \in Users \ {u} : account'[v] = account[v]
  BY DEF SetStanding, SetAccount, Inv, AccountTypeOK
<1>2. standing'[u] = "admin" /\ stage # "idle" /\ "neverRevoke" \notin awaited =>
        u \in raised' \/ standing[u] = "admin"
  BY DEF SetStanding, SetAccount, Inv, AccountTypeOK, Noted
<1>3. \A v \in Everybody : v \notin moved' /\ stage # "idle" =>
        /\ v \notin moved
        /\ MayEnter(v)' = MayEnter(v) /\ HoldsAdmin(v)' = HoldsAdmin(v)
        /\ v \in Users => account'[v] = account[v] /\ Agrees(v)' = Agrees(v)
  BY <1>1 DEF Noted, MayEnter, HoldsAdmin, Agrees
<1>4. ReadingsFit'
  BY <1>0, <1>1, <1>2, <1>3 DEF RunInv, ReadingsFit, readings
<1>5. PlanFits'
  <2> SUFFICES ASSUME NEW e \in plan PROVE EntryFits(e)'
    BY <1>1 DEF PlanFits
  <2>1. EntryFits(e) /\ e.email \in Users /\ stage = "applying" /\ awaited = {}
    BY DEF RunInv, PlanFits, Inv, IdleIsClean, AccountTypeOK, Entries
  <2> QED
    BY <1>0, <1>1, <1>2, <1>3, <2>1 DEF EntryFits
<1>6. RestIsSettled'
  <2> SUFFICES ASSUME stage = "applying", NEW v \in Users
               PROVE  Settled(v)' \/ \E e \in plan : e.email = v
    BY <1>1 DEF RestIsSettled
  <2>1. Settled(v) \/ \E e \in plan : e.email = v
    BY DEF RunInv, RestIsSettled
  <2> QED
    BY <1>0, <1>1, <1>3, <2>1 DEF Settled
<1>7. SourceWasNotEmpty'
  BY <1>1 DEF SourceWasNotEmpty, Noted
<1> QED
  BY <1>4, <1>5, <1>6, <1>7 DEF RunInv

LEMMA ReadingKeepsRun ==
  Inv /\ RunInv /\ (BeginRun \/ ReadEligible \/ ReadAdmins \/ ReadExisting \/ ReadNeverRevoke)
    => RunInv'
<1> SUFFICES ASSUME Inv, RunInv,
                    BeginRun \/ ReadEligible \/ ReadAdmins \/ ReadExisting \/ ReadNeverRevoke
             PROVE  RunInv'
  OBVIOUS
<1> USE DEF Inv, IdleIsClean, RunInv
<1>1. /\ stage' = "reading" /\ plan' = {} /\ plan = {}
      /\ UNCHANGED <<standing, account, history>>
  BY DEF BeginRun, ReadEligible, ReadAdmins, ReadExisting, ReadNeverRevoke, ReadOne
<1>2. ReadingsFit'
  <2>1. CASE BeginRun
    BY <1>1, <2>1 DEF BeginRun, ReadingsFit, Readings
  <2>2. CASE ReadEligible
    BY <1>1, <2>2 DEF ReadEligible, ReadOne, ReadingsFit, MayEnter, HoldsAdmin, history
  <2>3. CASE ReadAdmins
    BY <1>1, <2>3 DEF ReadAdmins, ReadOne, ReadingsFit, MayEnter, HoldsAdmin, history
  <2>4. CASE ReadExisting
    BY <1>1, <2>4 DEF ReadExisting, ReadOne, ReadingsFit, MayEnter, HoldsAdmin, history, AccountTypeOK
  <2>5. CASE ReadNeverRevoke
    BY <1>1, <2>5 DEF ReadNeverRevoke, ReadOne, ReadingsFit, MayEnter, HoldsAdmin, history
  <2> QED
    BY <2>1, <2>2, <2>3, <2>4, <2>5
<1> QED
  BY <1>1, <1>2 DEF PlanFits, RestIsSettled, SourceWasNotEmpty

(* The plan, for a person who did not change while it was prepared.        *)
LEMMA PlanKeepsRun == Inv /\ RunInv /\ MakePlan => RunInv'
<1> SUFFICES ASSUME Inv, RunInv, MakePlan PROVE RunInv'
  OBVIOUS
<1> USE DEF RunInv, MakePlan
<1>0. \A u \in Everybody \ moved : u \in eligible <=> MayEnter(u)
  BY DEF ReadingsFit
<1>1. \A u \in Users \ moved :
        /\ u \in admins <=> HoldsAdmin(u)
        /\ u \in eligible <=> MayEnter(u)
        /\ existing[u] = account[u]
        /\ u \in neverRevoke => MayEnter(u)
  BY <1>0 DEF ReadingsFit, Everybody
<1>2. \A e \in Grants :
        /\ e.email \in eligible \cap Users /\ e.action # "revoke"
        /\ e.action = "promote-admin" => e.email \in admins
        /\ e.action = "demote-user" => e.email \notin admins
        /\ existing[e.email] # RoleFor(e.email \in admins)
  BY DEF Grants, Entry, RoleFor
<1>3. \A e \in plan' \ Grants : /\ e.email \in Revoked /\ e.action = "revoke"
                               /\ existing[e.email] \notin {"none", "pending"}
  BY DEF Entry, Revoked
<1>4. ASSUME NEW u \in eligible \cap Users, existing[u] # RoleFor(u \in admins)
      PROVE  \E e \in plan' : e.email = u
  <2>1. PICK a : Entry(u, a) \in Grants
    BY <1>4 DEF Grants
  <2>2. Entry(u, a).email = u
    BY DEF Entry
  <2> QED
    BY <2>1, <2>2
<1>5. ASSUME NEW u \in Revoked PROVE \E e \in plan' : e.email = u
  <2>1. Entry(u, "revoke") \in plan' /\ Entry(u, "revoke").email = u
    BY DEF Entry
  <2> QED
    BY <2>1
<1>6. eligible \subseteq Everybody /\ \A u \in Revoked : u \in Users \ (eligible \cup neverRevoke)
  BY DEF Revoked, Inv, AccountTypeOK
<1>7. ReadingsFit'
  BY <1>1 DEF ReadingsFit, HoldsAdmin, history
<1>8. PlanFits'
  <2> SUFFICES ASSUME NEW e \in plan' PROVE EntryFits(e)'
    BY DEF PlanFits
  <2>1. CASE e \in Grants
    BY <1>1, <1>2, <1>6, <2>1 DEF EntryFits, MayEnter, HoldsAdmin, Agrees, RoleFor, history
  <2>2. CASE e \notin Grants
    BY <1>1, <1>3, <1>6, <2>2 DEF EntryFits, MayEnter, HoldsAdmin, Agrees, history, ReadingsFit
  <2> QED
    BY <2>1, <2>2
<1>9. RestIsSettled'
  <2> SUFFICES ASSUME NEW u \in Users \ moved, ~\E e \in plan' : e.email = u
               PROVE  Agrees(u)
    BY DEF RestIsSettled, Settled, Agrees, MayEnter, history
  <2>1. CASE MayEnter(u)
    BY <1>1, <1>4, <2>1 DEF Agrees, MayEnter, HoldsAdmin, RoleFor
  <2>2. CASE ~MayEnter(u)
    BY <1>1, <1>5, <2>2 DEF Agrees, Revoked
  <2> QED
    BY <2>1, <2>2
<1>10. SourceWasNotEmpty'
  <2> SUFFICES ASSUME moved = {}, \A u \in Everybody : ~MayEnter(u)
               PROVE  \A e \in plan' : e.action # "revoke"
    BY DEF SourceWasNotEmpty, MayEnter, history
  <2>1. eligible = {}
    BY <1>0, <1>6
  <2> QED
    BY <1>2, <1>3, <2>1 DEF Blocked
<1> QED
  BY <1>7, <1>8, <1>9, <1>10

(* What an entry writes repairs the account of a person who did not        *)
(* change, unless it restores an administrator.                            *)
LEMMA WriteRepairs ==
  ASSUME Inv, RunInv, NEW e \in plan, Write(e), standing' = standing, stage = "applying",
         e.email \notin moved
  PROVE  /\ ~Agrees(e.email)
         /\ Agrees(e.email)' \/ e.email \in missed'
<1> DEFINE u == e.email
<1>1. /\ u \in Users /\ stage = "applying" /\ EntryFits(e)
      /\ e.action \in {"create", "restore", "promote-admin", "demote-user", "revoke"}
  BY DEF Inv, AccountTypeOK, Entries, RunInv, PlanFits
<1>2. account'[u] = NextRole(e)
  BY <1>1 DEF Write, Inv, AccountTypeOK
<1>3. u \in admins <=> HoldsAdmin(u)
  BY <1>1 DEF RunInv, ReadingsFit, Inv, IdleIsClean
<1>4. e.action = "restore" /\ u \notin missed' => ~HoldsAdmin(u)
  BY <1>3 DEF Write
<1> QED
  BY <1>1, <1>2, <1>3, <1>4 DEF EntryFits, NextRole, RoleFor, Agrees, MayEnter, HoldsAdmin

(* Carrying out an entry settles its person, unless it fails or restores   *)
(* an administrator.                                                       *)
LEMMA ApplyKeepsRun ==
  ASSUME Inv, RunInv, NEW e \in plan, Apply(e) \/ ApplyFails(e)
  PROVE  RunInv'
<1> USE DEF RunInv
<1>1. /\ stage = "applying" /\ e \in Entries /\ EntryFits(e)
      /\ plan' = plan \ {e}
      /\ UNCHANGED <<standing, stage, readings, moved, raised, edits>>
      /\ \A v \in Users : v # e.email => account'[v] = account[v]
      /\ missed \subseteq missed' /\ (failures => failures')
  BY DEF Apply, ApplyFails, Write, Inv, AccountTypeOK, PlanFits
<1>2. ReadingsFit'
  BY <1>1 DEF ReadingsFit, HoldsAdmin, readings
<1>3. PlanFits'
  <2>1. \A f \in plan' : f \in plan /\ f.email \in Users \ {e.email}
    BY <1>1 DEF Inv, AccountTypeOK, Entries
  <2> QED
    BY <1>1, <2>1 DEF PlanFits, EntryFits, MayEnter, HoldsAdmin, Agrees
<1>4. Settled(e.email)'
  <2>1. CASE ApplyFails(e)
    BY <2>1 DEF ApplyFails, Settled
  <2>2. CASE Apply(e)
    <3>1. e.email \notin moved => Agrees(e.email)' \/ e.email \in missed'
      BY <1>1, <2>2, WriteRepairs DEF Apply
    <3> QED
      BY <1>1, <3>1 DEF Settled
  <2> QED
    BY <2>1, <2>2
<1>5. RestIsSettled'
  <2> SUFFICES ASSUME NEW v \in Users PROVE Settled(v)' \/ \E f \in plan' : f.email = v
    BY DEF RestIsSettled
  <2>1. CASE v = e.email
    BY <1>4, <2>1
  <2>2. CASE v # e.email
    BY <1>1, <2>2 DEF RestIsSettled, Settled, Agrees, MayEnter
  <2> QED
    BY <2>1, <2>2
<1>6. SourceWasNotEmpty'
  BY <1>1 DEF SourceWasNotEmpty, MayEnter
<1> QED
  BY <1>2, <1>3, <1>5, <1>6

LEMMA RunStep == Inv /\ RunInv /\ [AccountNext]_accountVars => RunInv'
<1> SUFFICES ASSUME Inv, RunInv, [AccountNext]_accountVars PROVE RunInv'
  OBVIOUS
<1>1. CASE Others
  BY <1>1, WorldKeepsRun
<1>2. CASE BeginRun \/ ReadEligible \/ ReadAdmins \/ ReadExisting \/ ReadNeverRevoke
  BY <1>2, ReadingKeepsRun
<1>3. CASE MakePlan
  BY <1>3, PlanKeepsRun
<1>4. ASSUME NEW e \in plan, Apply(e) \/ ApplyFails(e) PROVE RunInv'
  BY <1>4, ApplyKeepsRun
<1>5. CASE GiveUp \/ FinishRun
  <2>1. stage' = "idle" /\ plan' = {}
    BY <1>5 DEF GiveUp, FinishRun, Answer, Inv, IdleIsClean
  <2> QED
    BY <2>1 DEF RunInv, ReadingsFit, PlanFits, RestIsSettled, SourceWasNotEmpty
<1>6. CASE UNCHANGED accountVars
  BY <1>6 DEF accountVars, readings, history, RunInv, ReadingsFit, PlanFits, EntryFits,
              RestIsSettled, Settled, SourceWasNotEmpty, Agrees, MayEnter, HoldsAdmin
<1> QED
  BY <1>1, <1>2, <1>3, <1>4, <1>5, <1>6 DEF AccountNext, Run

LEMMA RunInvariant == AccountSpec => [](Inv /\ RunInv)
  BY InvInit, InvStep, RunInit, RunStep, PTL DEF AccountSpec

-----------------------------------------------------------------------------

(* What a run writes, it writes for an entry.                              *)
LEMMA WritesByEntry ==
  ASSUME Inv, [AccountNext]_accountVars, edits' = edits, NEW u \in Users, account'[u] # account[u]
  PROVE  \E e \in plan : e.email = u /\ Write(e) /\ standing' = standing /\ stage = "applying"
<1>1. ~Others
  BY DEF Others, SetStanding, SetAccount, Edit, Inv, AccountTypeOK
<1>2. PICK e \in plan : Apply(e) \/ ApplyFails(e)
  BY <1>1
     DEF AccountNext, Run, BeginRun, ReadEligible, ReadAdmins, ReadExisting, ReadNeverRevoke, ReadOne,
         MakePlan, GiveUp, Answer, FinishRun, accountVars
<1>3. Write(e) /\ standing' = standing /\ stage = "applying"
  BY <1>2 DEF Apply, ApplyFails
<1>4. u = e.email
  BY <1>3 DEF Write, Inv, AccountTypeOK
<1> QED
  BY <1>3, <1>4

(* Whom a step of a run cuts off is the person of an entry to revoke.      *)
LEMMA CutsByEntry ==
  ASSUME Inv, [AccountNext]_accountVars, edits' = edits, NEW u \in Users, CutsOff(u)
  PROVE  \E e \in plan : e.email = u /\ e.action = "revoke"
<1>1. account'[u] # account[u] /\ account'[u] = "pending"
  BY DEF CutsOff
<1>2. PICK e \in plan : e.email = u /\ Write(e)
  BY <1>1, WritesByEntry
<1>3. e \in Entries /\ NextRole(e) = "pending"
  BY <1>1, <1>2 DEF Write, Inv, AccountTypeOK
<1>4. e.action = "revoke"
  BY <1>3 DEF NextRole, RoleFor, Entries
<1> QED
  BY <1>2, <1>4

(* A run cuts off somebody entitled only if that person changed while it   *)
(* ran, and an administrator only if made one after the administrators     *)
(* were read.                                                              *)
THEOREM OnlyTheChangedAreCut == AccountSpec => CutsOnlyTheChanged
<1>1. ASSUME Inv, RunInv, [AccountNext]_accountVars, NEW u \in Users,
             stage = "applying", CutsOff(u), edits' = edits
      PROVE  /\ MayEnter(u) => u \in moved
             /\ standing[u] = "admin" => u \in raised
  <2>1. PICK e \in plan : e.email = u /\ e.action = "revoke"
    BY <1>1, CutsByEntry
  <2> QED
    BY <1>1, <2>1 DEF RunInv, PlanFits, EntryFits
<1>2. Inv /\ RunInv /\ [AccountNext]_accountVars =>
        [\A u \in Users :
           stage = "applying" /\ CutsOff(u) /\ edits' = edits
             => /\ MayEnter(u) => u \in moved
                /\ standing[u] = "admin" => u \in raised]_accountVars
  BY <1>1
<1> QED
  BY <1>2, RunInvariant, PTL DEF AccountSpec, CutsOnlyTheChanged

(* While nobody is entitled, protected or not, a run cuts nobody off,      *)
(* unless somebody changed while it ran.                                   *)
THEOREM EmptySourceIsHarmless == AccountSpec => EmptySourceCutsNobody
<1>1. Inv /\ RunInv /\ [AccountNext]_accountVars =>
        [stage = "applying" /\ edits' = edits /\ moved = {}
           /\ (\A u \in Everybody : ~MayEnter(u))
           => \A u \in Users : ~CutsOff(u)]_accountVars
  BY CutsByEntry DEF RunInv, SourceWasNotEmpty
<1> QED
  BY <1>1, RunInvariant, PTL DEF AccountSpec, EmptySourceCutsNobody

-----------------------------------------------------------------------------
(* Only repairs, and two runs.                                             *)

(* A run writes to the account of somebody who did not change only to      *)
(* repair it, and leaves alone what agrees.                                *)
THEOREM WhatAgreesIsLeftAlone == AccountSpec => RunsOnlyRepair
<1>1. ASSUME Inv, RunInv, [AccountNext]_accountVars, NEW u \in Users \ moved,
             edits' = edits, account'[u] # account[u]
      PROVE  ~Agrees(u) /\ (Agrees(u)' \/ u \in missed')
  <2>1. PICK e \in plan : e.email = u /\ Write(e) /\ standing' = standing /\ stage = "applying"
    BY <1>1, WritesByEntry
  <2> QED
    BY <1>1, <2>1, WriteRepairs
<1>2. Inv /\ RunInv /\ [AccountNext]_accountVars =>
        [\A u \in Users \ moved :
           edits' = edits /\ account'[u] # account[u]
             => ~Agrees(u) /\ (Agrees(u)' \/ u \in missed')]_accountVars
  BY <1>1
<1> QED
  BY <1>2, RunInvariant, PTL DEF AccountSpec, RunsOnlyRepair

(* After a calm run nobody entitled is without access, so the next one     *)
(* restores nobody and creates no account.                                 *)
HasAccess(u) == account[u] \notin {"none", "pending"}

MissedHaveAccess == \A u \in missed \ moved : MayEnter(u) => HasAccess(u)

CalmHolds ==
  calm => /\ moved = {} /\ missed = {}
          /\ \A u \in Users : MayEnter(u) => HasAccess(u)
          /\ \A e \in plan : e.action \notin {"restore", "create"}

CalmInv == MissedHaveAccess /\ CalmHolds

(* An entry never takes the access of a person who did not change and is   *)
(* entitled.                                                               *)
LEMMA WriteKeepsAccess ==
  ASSUME Inv, RunInv, NEW e \in plan, Write(e), standing' = standing, NEW u \in Users, u \notin moved, MayEnter(u)
  PROVE  /\ MayEnter(u)'
         /\ u = e.email \/ HasAccess(u) => HasAccess(u)'
<1>1. account' = [account EXCEPT ![e.email] = NextRole(e)]
  BY DEF Write
<1>2. e \in Entries /\ EntryFits(e)
  BY DEF Inv, AccountTypeOK, RunInv, PlanFits
<1>3. u = e.email => NextRole(e) \notin {"none", "pending"}
  BY <1>2 DEF EntryFits, NextRole, RoleFor, Entries
<1> QED
  BY <1>1, <1>3 DEF HasAccess, MayEnter, Inv, AccountTypeOK

LEMMA ApplyKeepsCalm ==
  ASSUME Inv, RunInv, CalmInv, NEW e \in plan, Apply(e) \/ ApplyFails(e)
  PROVE  CalmInv'
<1>1. /\ plan' = plan \ {e} /\ calm' = calm /\ moved' = moved /\ standing' = standing
      /\ Write(e) \/ UNCHANGED <<account, missed>>
  BY DEF Apply, ApplyFails
<1>2. CASE Write(e)
  <2>1. /\ missed' = missed \/ missed' = missed \cup {e.email}
        /\ e.action # "restore" => missed' = missed
        /\ missed' \subseteq Users
    BY <1>2, WritesAreTyped DEF Write, Inv
  <2>2. \A u \in Users : u \notin moved /\ MayEnter(u)' => MayEnter(u)
    BY <1>1 DEF MayEnter
  <2>3. MissedHaveAccess'
    BY <1>1, <1>2, <2>1, <2>2, WriteKeepsAccess DEF CalmInv, MissedHaveAccess
  <2>4. CalmHolds'
    BY <1>1, <1>2, <2>1, <2>2, WriteKeepsAccess DEF CalmInv, CalmHolds
  <2> QED
    BY <2>3, <2>4 DEF CalmInv
<1>3. CASE UNCHANGED <<account, missed>>
  BY <1>1, <1>3 DEF CalmInv, MissedHaveAccess, CalmHolds, MayEnter, HasAccess
<1> QED
  BY <1>1, <1>2, <1>3

LEMMA PlanKeepsCalm == Inv /\ RunInv /\ CalmInv /\ MakePlan => CalmInv'
<1> SUFFICES ASSUME Inv, RunInv, CalmInv, MakePlan PROVE CalmInv'
  OBVIOUS
<1>1. UNCHANGED <<standing, account, history>>
  BY DEF MakePlan
<1>2. ASSUME calm, NEW e \in plan' PROVE e.action \notin {"restore", "create"}
  <2>1. \A u \in eligible \cap Users : existing[u] \notin {"none", "pending"}
    BY <1>2 DEF CalmInv, CalmHolds, HasAccess, MakePlan, RunInv, ReadingsFit, Inv, AccountTypeOK, Everybody
  <2>2. e \in Grants => e.action \in {"promote-admin", "demote-user"}
    BY <2>1 DEF Grants, Entry
  <2>3. e \notin Grants => e.action = "revoke"
    BY <1>2 DEF MakePlan, Entry
  <2> QED
    BY <2>2, <2>3
<1> QED
  BY <1>1, <1>2 DEF history, CalmInv, MissedHaveAccess, CalmHolds, MayEnter, HasAccess

(* A run that reports ok leaves nobody entitled without access.            *)
LEMMA FinishBringsCalm == Inv /\ RunInv /\ CalmInv /\ FinishRun => CalmInv'
<1> SUFFICES ASSUME Inv, RunInv, CalmInv, FinishRun PROVE CalmInv'
  OBVIOUS
<1>1. UNCHANGED <<standing, account, plan>> /\ missed' = {} /\ moved' = {}
  BY DEF FinishRun, Answer
<1>2. plan = {} /\ stage = "applying" /\ calm' = (~failures /\ moved = {})
  BY DEF FinishRun
<1>3. ASSUME calm', NEW u \in Users, MayEnter(u) PROVE HasAccess(u)
  <2>1. u \in missed \/ Agrees(u)
    BY <1>2, <1>3 DEF RunInv, RestIsSettled, Settled
  <2>2. Agrees(u) => HasAccess(u)
    BY <1>3 DEF Agrees, HasAccess, RoleFor
  <2> QED
    BY <1>2, <1>3, <2>1, <2>2 DEF CalmInv, MissedHaveAccess
<1> QED
  BY <1>1, <1>2, <1>3 DEF CalmInv, MissedHaveAccess, CalmHolds, MayEnter, HasAccess

LEMMA CalmStep == Inv /\ RunInv /\ CalmInv /\ [AccountNext]_accountVars => CalmInv'
<1> SUFFICES ASSUME Inv, RunInv, CalmInv, [AccountNext]_accountVars PROVE CalmInv'
  OBVIOUS
<1>1. CASE Others
  <2>1. PICK u \in Everybody : \/ \E s \in Standings : SetStanding(u, s)
                               \/ \E a \in Accounts : SetAccount(u, a)
    BY <1>1 DEF Others, Everybody, StandingsOf, Standings
  <2>2. /\ calm' = FALSE /\ missed' = missed /\ moved' = moved \cup Noted(u)
        /\ \A v \in Users \ {u} : standing'[v] = standing[v] /\ account'[v] = account[v]
    BY <2>1 DEF SetStanding, SetAccount, Inv, AccountTypeOK, Everybody
  <2>3. stage = "idle" => missed = {}
    BY DEF Inv, IdleIsClean
  <2>4. missed \subseteq Users
    BY DEF Inv, AccountTypeOK
  <2> QED
    BY <2>2, <2>3, <2>4 DEF CalmInv, MissedHaveAccess, CalmHolds, Noted, MayEnter, HasAccess
<1>2. CASE BeginRun \/ ReadEligible \/ ReadAdmins \/ ReadExisting \/ ReadNeverRevoke
  <2>1. UNCHANGED <<standing, account, plan, history>>
    BY <1>2 DEF BeginRun, ReadEligible, ReadAdmins, ReadExisting, ReadNeverRevoke, ReadOne
  <2> QED
    BY <2>1 DEF history, CalmInv, MissedHaveAccess, CalmHolds, MayEnter, HasAccess
<1>3. CASE MakePlan
  BY <1>3, PlanKeepsCalm
<1>4. ASSUME NEW e \in plan, Apply(e) \/ ApplyFails(e) PROVE CalmInv'
  BY <1>4, ApplyKeepsCalm
<1>5. CASE GiveUp
  BY <1>5 DEF GiveUp, Answer, CalmInv, MissedHaveAccess, CalmHolds, MayEnter, HasAccess
<1>6. CASE FinishRun
  BY <1>6, FinishBringsCalm
<1>7. CASE UNCHANGED accountVars
  BY <1>7 DEF accountVars, history, CalmInv, MissedHaveAccess, CalmHolds, MayEnter, HasAccess
<1> QED
  BY <1>1, <1>2, <1>3, <1>4, <1>5, <1>6, <1>7 DEF AccountNext, Run

(* A run that reports ok leaves every account in agreement with the shell, *)
(* but for people who changed while it ran and administrators it restored; *)
(* what it missed of these, a calm second run repairs.                     *)
THEOREM OkMeansAgreement == AccountSpec => []AgreesAfterSync
<1>1. AccountInit => CalmInv
  BY DEF AccountInit, CalmInv, MissedHaveAccess, CalmHolds
<1>2. Inv /\ RunInv /\ CalmInv => AgreesAfterSync
  BY DEF CalmInv, CalmHolds, RunInv, RestIsSettled, Settled, AgreesAfterSync, Succeeds
<1> QED
  BY <1>1, <1>2, CalmStep, RunInvariant, PTL DEF AccountSpec
=============================================================================
