-------------------------- MODULE DeskStorageProofs --------------------------
(***************************************************************************)
(* Proofs about DeskStorage, for every number of folders, names, numbers,  *)
(* documents and calls: what deleting keeps, and the only ways in which a  *)
(* document can be lost.                                                   *)
(***************************************************************************)
EXTENDS DeskStorage, TLAPS

-----------------------------------------------------------------------------
(* Types, and what a call between two disk calls has at hand.              *)

Searching == {"looking", "probing", "landing", "overwriting"}

CallFits(k) ==
  /\ at[k] \in Searching \cup {"writing"} => place[k] \in Places
  /\ at[k] \in Searching => kind[k] \in {"upload", "copy", "move", "moveBeside", "restore"}
  /\ at[k] = "binning" \/ kind[k] \in {"copy", "move", "moveBeside"} => source[k] \in Paths
  /\ at[k] = "planning" => kind[k] = "restore"
  /\ kind[k] = "restore" => entry[k] \in Entries
  /\ at[k] = "idle" => kind[k] = "none"
  /\ at[k] \in {"idle", "looking"} => number[k] = 1

Inv == TypeOK /\ \A k \in Calls : CallFits(k)

LEMMA OneIsANumber == 1 \in 1 .. MaxCopies
  BY StorageAssumption

LEMMA TargetIsAPath ==
  ASSUME NEW pl \in Places, NEW n \in 1 .. MaxCopies
  PROVE  PathOf(pl, n) \in Paths
  BY DEF PathOf, Places, Paths

LEMMA InvInit == Init => Inv
<1> SUFFICES ASSUME Init PROVE Inv
  OBVIOUS
<1>1. TypeOK
  BY OneIsANumber, Zenon DEF Init, TypeOK, Folders, DiskCalls, Kinds
<1>2. \A k \in Calls : CallFits(k)
  BY DEF Init, CallFits, Searching
<1> QED
  BY <1>1, <1>2 DEF Inv

(* The variables of one call change, those of the others stay.             *)
LEMMA BeginFits ==
  ASSUME Inv, NEW k \in Calls, NEW query \in DiskCalls, NEW op \in Kinds,
         NEW from \in Paths \cup {Nothing}, NEW to \in Places \cup {Nothing},
         Begin(k, query, op, from, to), UNCHANGED <<disk, bin, beaten>>,
         folders' \subseteq Folders,
         query \in Searching \cup {"writing"} => to \in Places,
         query \in Searching => op \in {"upload", "copy", "move", "moveBeside"},
         query = "binning" \/ op \in {"copy", "move", "moveBeside"} => from \in Paths,
         query \notin {"planning", "idle"}, op # "restore"
  PROVE  Inv'
<1>1. TypeOK'
  BY DEF Inv, TypeOK, Begin
<1>2. ASSUME NEW c \in Calls PROVE CallFits(c)'
  BY <1>1 DEF Inv, TypeOK, Begin, CallFits
<1> QED
  BY <1>1, <1>2 DEF Inv

LEMMA GotoFits ==
  ASSUME Inv, NEW k \in Calls, NEW query \in Searching \ {"looking"}, NEW n \in 1 .. MaxCopies,
         Goto(k, query, n), UNCHANGED <<disk, bin, beaten>>, folders' \subseteq Folders,
         \/ at[k] \in Searching /\ place' = place
         \/ /\ at[k] = "planning" /\ kind[k] = "restore"
            /\ \E pl \in Places : place' = [place EXCEPT ![k] = pl]
  PROVE  Inv'
<1>1. TypeOK'
  BY DEF Inv, TypeOK, Goto, Searching, DiskCalls
<1>2. ASSUME NEW c \in Calls PROVE CallFits(c)'
  BY <1>1 DEF Inv, TypeOK, Goto, CallFits, Searching
<1> QED
  BY <1>1, <1>2 DEF Inv

LEMMA RespondFits ==
  ASSUME Inv, NEW k \in Calls, Respond(k), beaten' \subseteq Calls,
         disk' \in [Paths -> Documents \cup {Nothing}], folders' \subseteq Folders,
         bin' \subseteq Entries
  PROVE  Inv'
<1>1. TypeOK'
  BY OneIsANumber DEF Inv, TypeOK, Respond, DiskCalls, Kinds
<1>2. ASSUME NEW c \in Calls PROVE CallFits(c)'
  BY <1>1 DEF Inv, TypeOK, Respond, CallFits, Searching
<1> QED
  BY <1>1, <1>2 DEF Inv

LEMMA StartFits == ASSUME Inv, NEW k \in Calls, Start(k) PROVE Inv'
<1> USE DEF DiskCalls, Kinds, Searching
<1>1. \A pl \in Places : folders \cup {pl[1]} \subseteq Folders
  BY DEF Inv, TypeOK, Places
<1>2. \A n \in Names : <<CaseFolder, n>> \in Places
  BY StorageAssumption DEF Places, Folders
<1>3. ASSUME NEW p \in Picks PROVE p \in Paths
  BY <1>3, StorageAssumption DEF Paths, Folders
<1>4. ASSUME NEW to \in Places, WriteNew(k, to) PROVE Inv'
  BY <1>1, <1>4, BeginFits DEF WriteNew, MakeFolder
<1>5. ASSUME NEW p \in Picks, NEW to \in Places, Copy(k, p, to) PROVE Inv'
  BY <1>1, <1>3, <1>5, BeginFits DEF Copy, MakeFolder
<1>6. ASSUME NEW p \in Picks, NEW to \in Places, NEW op \in {"move", "moveBeside"},
             Move(k, p, to, op)
      PROVE  Inv'
  BY <1>1, <1>3, <1>6, BeginFits DEF Move, MakeFolder
<1>7. ASSUME NEW n \in Names, Write(k, n) PROVE Inv'
  <2>1. folders' \subseteq Folders
    BY <1>7, StorageAssumption DEF Write, MakeFolder, Inv, TypeOK, Folders
  <2> QED
    BY <1>2, <1>7, <2>1, BeginFits DEF Write
<1>8. ASSUME NEW p \in Picks, ToTrash(k, p) PROVE Inv'
  BY <1>3, <1>8, BeginFits DEF ToTrash, desk, Inv, TypeOK
<1>9. ASSUME NEW e \in bin, Restore(k, e) PROVE Inv'
  <2>1. TypeOK'
    BY <1>9 DEF Restore, Inv, TypeOK, desk
  <2>2. ASSUME NEW c \in Calls PROVE CallFits(c)'
    BY <1>9, <2>1 DEF Restore, Inv, TypeOK, CallFits, desk
  <2> QED
    BY <2>1, <2>2 DEF Inv
<1>10. CASE EmptyTrash(k)
  <2>1. TypeOK'
    BY <1>10 DEF EmptyTrash, Inv, TypeOK, desk
  <2>2. ASSUME NEW c \in Calls PROVE CallFits(c)'
    BY <1>10, <2>1 DEF EmptyTrash, Inv, TypeOK, CallFits, desk
  <2> QED
    BY <2>1, <2>2 DEF Inv
<1> QED
  BY <1>4, <1>5, <1>6, <1>7, <1>8, <1>9, <1>10 DEF Start

LEMMA HistoriesAreTyped ==
  ASSUME TypeOK, NEW k \in Calls
  PROVE  /\ Fill(k) => beaten' \subseteq Calls
         /\ Fail(k) => beaten' \subseteq Calls
  BY DEF Fill, Fail, TypeOK

LEMMA FailFits ==
  ASSUME Inv, NEW k \in Calls, Fail(k), folders' = folders
  PROVE  Inv'
  BY RespondFits, HistoriesAreTyped DEF Fail, Inv, TypeOK

LEMMA SearchFits ==
  ASSUME Inv, NEW k \in Calls, Look(k) \/ Probe(k) \/ Plan(k)
  PROVE  Inv'
<1> USE DEF Searching, desk
<1>1. CASE Look(k)
  BY <1>1, OneIsANumber, GotoFits, FailFits DEF Look, Inv, TypeOK
<1>2. CASE Probe(k)
  <2>1. number[k] \in 1 .. MaxCopies /\ (number[k] # MaxCopies => number[k] + 1 \in 1 .. MaxCopies)
    BY StorageAssumption DEF Inv, TypeOK
  <2> QED
    BY <1>2, <2>1, OneIsANumber, GotoFits, FailFits, StorageAssumption DEF Probe, Inv, TypeOK
<1>3. CASE Plan(k)
  <2> DEFINE from == entry[k].from
             home == IF from[1] \in folders THEN from[1] ELSE MyFiles
  <2>1. from \in Paths /\ kind[k] = "restore"
    BY <1>3 DEF Plan, Inv, CallFits, Entries
  <2>2. home \in Folders /\ <<home, from[2]>> \in Places
    BY <2>1 DEF Paths, Places, Folders
  <2>3. folders' \subseteq Folders
    BY <1>3, <2>2 DEF Plan, MakeFolder, Inv, TypeOK
  <2> QED
    BY <1>3, <2>1, <2>2, <2>3, OneIsANumber, GotoFits DEF Plan
<1> QED
  BY <1>1, <1>2, <1>3

(* What a step that changes the desk does, when it does not fail.          *)
Puts(t, d) == disk' = [disk EXCEPT ![t] = d] /\ bin' = bin

Landing(k) ==
  LET t == Target(k)
      s == source[k]
      e == entry[k]
  IN  \/ \E d \in Documents : Puts(t, d)
      \/ s \in Paths /\ ~Free(s) /\ s # t
         /\ disk' = [disk EXCEPT ![t] = disk[s], ![s] = Nothing] /\ bin' = bin
      \/ disk' = disk /\ bin' = bin
      \/ e \in bin /\ disk' = [disk EXCEPT ![t] = e.holds] /\ bin' = bin \ {e}

LEMMA TargetIsPath ==
  ASSUME Inv, NEW k \in Calls, at[k] \in Searching \cup {"writing"}
  PROVE  Target(k) \in Paths
  BY TargetIsAPath DEF Inv, TypeOK, CallFits, Target

LEMMA LandCases ==
  ASSUME Inv, NEW k \in Calls, Land(k)
  PROVE  /\ folders' = folders
         /\ Fail(k) \/ (Landing(k) /\ Fill(k) /\ Respond(k))
<1>1. CASE Fail(k)
  BY <1>1 DEF Land
<1>2. CASE ~Fail(k)
  <2>1. kind[k] \in {"copy", "move", "moveBeside"} => source[k] \in Paths
    BY DEF Inv, CallFits
  <2>2. \A p \in Paths : ~Free(p) => disk[p] \in Documents
    BY DEF Inv, TypeOK, Free
  <2> QED
    BY <1>2, <2>1, <2>2 DEF Land, Landing, Puts, Fresh
<1> QED
  BY <1>1, <1>2

LEMMA LandFits == ASSUME Inv, NEW k \in Calls, Land(k) PROVE Inv'
<1>1. CASE Fail(k)
  BY <1>1, LandCases, FailFits
<1>2. CASE Landing(k) /\ Fill(k) /\ Respond(k)
  <2>1. \A e \in bin : e.holds \in Documents
    BY DEF Inv, TypeOK, Entries
  <2>2. disk' \in [Paths -> Documents \cup {Nothing}] /\ bin' \subseteq Entries
    BY <1>2, <2>1 DEF Landing, Puts, Inv, TypeOK
  <2> QED
    BY <1>2, <2>2, LandCases, HistoriesAreTyped, RespondFits DEF Inv, TypeOK
<1> QED
  BY <1>1, <1>2, LandCases

LEMMA OverwriteFits == ASSUME Inv, NEW k \in Calls, Overwrite(k) PROVE Inv'
<1>1. CASE Fail(k)
  BY <1>1, FailFits DEF Overwrite
<1>2. CASE ~Fail(k)
  <2>1. disk' \in [Paths -> Documents \cup {Nothing}]
    BY <1>2 DEF Overwrite, Inv, TypeOK, Fresh
  <2> QED
    BY <1>2, <2>1, HistoriesAreTyped, RespondFits DEF Overwrite, Inv, TypeOK
<1> QED
  BY <1>1, <1>2

BinsOne(k) ==
  /\ ~Free(source[k])
  /\ \E i \in Ids : bin' = bin \cup {[id |-> i, from |-> source[k], holds |-> disk[source[k]]]}
  /\ disk' = [disk EXCEPT ![source[k]] = Nothing]

LEMMA BinFits == ASSUME Inv, NEW k \in Calls, Bin(k) PROVE Inv'
<1>1. CASE Fail(k)
  BY <1>1, FailFits DEF Bin
<1>2. CASE ~Fail(k)
  <2>1. BinsOne(k) /\ source[k] \in Paths
    BY <1>2 DEF Bin, BinsOne, FreshIds, Inv, CallFits
  <2>2. disk[source[k]] \in Documents
    BY <2>1 DEF BinsOne, Inv, TypeOK, Free
  <2>3. bin' \subseteq Entries /\ disk' \in [Paths -> Documents \cup {Nothing}]
    BY <2>1, <2>2 DEF BinsOne, Inv, TypeOK, Entries
  <2> QED
    BY <1>2, <2>3, HistoriesAreTyped, RespondFits DEF Bin, Inv, TypeOK
<1> QED
  BY <1>1, <1>2

LEMMA RemoveEntryFits == ASSUME Inv, NEW k \in Calls, RemoveEntry(k) PROVE Inv'
<1>1. PICK e \in left[k] :
        /\ bin' = bin \ {e}
        /\ \/ left[k] = {e} /\ Respond(k)
           \/ /\ left[k] # {e}
              /\ left' = [left EXCEPT ![k] = @ \ {e}]
              /\ UNCHANGED <<at, local, number>>
  BY DEF RemoveEntry
<1>2. beaten' \subseteq Calls /\ disk' = disk /\ folders' = folders
  BY DEF RemoveEntry, Inv, TypeOK
<1>3. CASE Respond(k)
  BY <1>1, <1>2, <1>3, RespondFits DEF Inv, TypeOK
<1>4. CASE ~Respond(k)
  <2>1. TypeOK'
    BY <1>1, <1>2, <1>4 DEF Inv, TypeOK, local
  <2>2. ASSUME NEW c \in Calls PROVE CallFits(c)'
    BY <1>1, <1>4, <2>1 DEF Inv, CallFits, local
  <2> QED
    BY <2>1, <2>2 DEF Inv
<1> QED
  BY <1>3, <1>4

LEMMA InvStep == Inv /\ [Next]_vars => Inv'
<1> SUFFICES ASSUME Inv, [Next]_vars PROVE Inv'
  OBVIOUS
<1>1. ASSUME NEW k \in Calls, Start(k) PROVE Inv'
  BY <1>1, StartFits
<1>2. ASSUME NEW k \in Calls, Step(k) PROVE Inv'
  BY <1>2, SearchFits, LandFits, OverwriteFits, BinFits, RemoveEntryFits DEF Step
<1>3. ASSUME NEW f \in Folders, CreateFolder(f) \/ RemoveFolder(f) PROVE Inv'
  BY <1>3 DEF CreateFolder, RemoveFolder, MakeFolder, Inv, TypeOK, CallFits, local
<1>4. CASE UNCHANGED vars
  BY <1>4 DEF vars, desk, local, Inv, TypeOK, CallFits
<1> QED
  BY <1>1, <1>2, <1>3, <1>4 DEF Next

(* Every variable keeps its type, because a call carries what its next     *)
(* disk call needs.                                                        *)
THEOREM TypeCorrect == Spec => []TypeOK
  BY InvInit, InvStep, PTL DEF Inv, Spec

-----------------------------------------------------------------------------
(* What a step keeps.                                                      *)

(* Nobody but a call itself changes where it is and what it has left.      *)
LEMMA OnlyItself ==
  ASSUME Inv, [Next]_vars, NEW k \in Calls, Acts(k)
  PROVE  Start(k) \/ Step(k)
<1> USE DEF Acts, Inv, TypeOK
<1>1. ASSUME NEW c \in Calls, c # k, Start(c) PROVE FALSE
  BY <1>1 DEF Start, WriteNew, Copy, Move, Write, ToTrash, Restore, EmptyTrash, Begin, desk
<1>2. ASSUME NEW c \in Calls, c # k, Step(c) PROVE FALSE
  BY <1>2 DEF Step, Look, Probe, Plan, Land, Overwrite, Bin, RemoveEntry,
              Goto, Fail, Respond, desk
<1>3. ASSUME NEW f \in Folders, CreateFolder(f) \/ RemoveFolder(f) PROVE FALSE
  BY <1>3 DEF CreateFolder, RemoveFolder
<1>4. CASE UNCHANGED vars
  BY <1>4 DEF vars
<1> QED
  BY <1>1, <1>2, <1>3, <1>4 DEF Next

LEMMA UntouchedIsKept == ASSUME UNCHANGED <<disk, bin>> PROVE Kept = Kept'
  BY DEF Kept, OnDisk

LEMMA BinningKeeps ==
  ASSUME Inv, NEW k \in Calls, Bin(k)
  PROVE  Kept \subseteq Kept'
<1>1. CASE Fail(k)
  BY <1>1, UntouchedIsKept DEF Fail
<1>2. CASE ~Fail(k)
  <2>1. BinsOne(k) /\ source[k] \in Paths
    BY <1>2 DEF Bin, BinsOne, FreshIds, Inv, CallFits
  <2>2. PICK i : bin' = bin \cup {[id |-> i, from |-> source[k], holds |-> disk[source[k]]]}
    BY <2>1 DEF BinsOne
  <2>3. \A p \in Paths : p # source[k] => disk'[p] = disk[p]
    BY <2>1 DEF BinsOne, Inv, TypeOK
  <2>4. OnDisk \subseteq OnDisk' \cup {disk[source[k]]}
    BY <2>3 DEF OnDisk
  <2>5. disk[source[k]] \in {e.holds : e \in bin'}
    <3> DEFINE b == [id |-> i, from |-> source[k], holds |-> disk[source[k]]]
    <3>1. b \in bin' /\ b.holds = disk[source[k]]
      BY <2>2
    <3> HIDE DEF b
    <3> QED
      BY <3>1
  <2> QED
    BY <2>2, <2>4, <2>5 DEF Kept
<1> QED
  BY <1>1, <1>2

(* What a person deletes and nobody empties can be had back: a step of a   *)
(* deletion leaves every document on the desk or in its bin.               *)
THEOREM DeletingKeeps == Spec => DeletingIsReversible
<1>1. ASSUME Inv, [Next]_vars, NEW k \in Calls, Acts(k), at[k] = "binning"
      PROVE  Kept \subseteq Kept'
  <2>1. Bin(k)
    BY <1>1, OnlyItself
       DEF Start, WriteNew, Copy, Move, Write, ToTrash, Restore, EmptyTrash, Begin,
           Step, Look, Probe, Plan, Land, Overwrite, RemoveEntry
  <2> QED
    BY <1>1, <2>1, BinningKeeps
<1>2. Inv /\ [Next]_vars =>
        [\A k \in Calls : Acts(k) /\ at[k] = "binning" => Kept \subseteq Kept']_vars
  BY <1>1
<1> QED
  BY <1>2, InvInit, InvStep, PTL DEF Spec, DeletingIsReversible

-----------------------------------------------------------------------------
(* A call that lands where it found nothing.                               *)

(* The path a call found free still is, or another call filled it.         *)
FreeUnlessBeaten ==
  \A k \in Calls : at[k] = "landing" => Free(Target(k)) \/ k \in beaten

(* A call that fills a path beats whoever is about to land there.          *)
LEMMA FillingIsSeen ==
  ASSUME Inv, FreeUnlessBeaten, NEW k \in Calls, Fill(k), Respond(k),
         \A p \in Paths : p # Target(k) => disk'[p] = disk[p] \/ disk'[p] = Nothing
  PROVE  FreeUnlessBeaten'
<1> SUFFICES ASSUME NEW c \in Calls, at'[c] = "landing"
             PROVE  Free(Target(c))' \/ c \in beaten'
  BY DEF FreeUnlessBeaten
<1>1. c # k /\ at[c] = "landing" /\ Target(c)' = Target(c)
  BY DEF Respond, Target, Inv, TypeOK
<1>2. Target(c) \in Paths
  BY <1>1, TargetIsAPath DEF Inv, TypeOK, CallFits, Target, Searching
<1>3. CASE c \in beaten \/ Target(c) = Target(k)
  BY <1>1, <1>3 DEF Fill
<1>4. CASE Free(Target(c)) /\ Target(c) # Target(k)
  <2>1. disk'[Target(c)] = Nothing
    BY <1>2, <1>4 DEF Free
  <2> QED
    BY <1>1, <2>1 DEF Free
<1> QED
  BY <1>1, <1>3, <1>4 DEF FreeUnlessBeaten

(* A step that fills no path, and brings no other call to land.            *)
LEMMA QuietKeepsFree ==
  ASSUME Inv, FreeUnlessBeaten, NEW k \in Calls,
         \A p \in Paths : disk'[p] = disk[p] \/ disk'[p] = Nothing,
         at'[k] # "landing" \/ Free(Target(k))',
         beaten \ {k} \subseteq beaten',
         \A c \in Calls : c # k => /\ at'[c] = at[c]
                                  /\ place'[c] = place[c] /\ number'[c] = number[c]
  PROVE  FreeUnlessBeaten'
<1> SUFFICES ASSUME NEW c \in Calls, c # k, at'[c] = "landing"
             PROVE  Free(Target(c))' \/ c \in beaten'
  BY DEF FreeUnlessBeaten
<1>1. at[c] = "landing" /\ Target(c)' = Target(c)
  BY DEF Target
<1>2. Target(c) \in Paths
  BY <1>1, TargetIsAPath DEF Inv, TypeOK, CallFits, Target, Searching
<1>3. disk'[Target(c)] = disk[Target(c)] \/ disk'[Target(c)] = Nothing
  BY <1>2
<1> QED
  BY <1>1, <1>3 DEF FreeUnlessBeaten, Free

(* What lands fills one path and empties one at most.                      *)
LEMMA LandingFillsOne ==
  ASSUME Inv, NEW k \in Calls, Landing(k)
  PROVE  \A p \in Paths : p # Target(k) => disk'[p] = disk[p] \/ disk'[p] = Nothing
  BY DEF Landing, Puts, Inv, TypeOK

LEMMA FreeStep == Inv /\ FreeUnlessBeaten /\ [Next]_vars => FreeUnlessBeaten'
<1> SUFFICES ASSUME Inv, FreeUnlessBeaten, [Next]_vars PROVE FreeUnlessBeaten'
  OBVIOUS
<1>1. ASSUME NEW k \in Calls, Start(k) PROVE FreeUnlessBeaten'
  <2>1. /\ disk' = disk /\ beaten' = beaten /\ at'[k] # "landing"
        /\ \A c \in Calls : c # k => /\ at'[c] = at[c]
                                     /\ place'[c] = place[c] /\ number'[c] = number[c]
    BY <1>1 DEF Start, WriteNew, Copy, Move, Write, ToTrash, Restore, EmptyTrash, Begin,
                desk, Inv, TypeOK
  <2> QED
    BY <2>1, QuietKeepsFree
<1>2. ASSUME NEW k \in Calls, Fail(k) PROVE FreeUnlessBeaten'
  <2>1. /\ disk' = disk /\ beaten' = beaten \ {k} /\ at'[k] # "landing"
        /\ \A c \in Calls : c # k => /\ at'[c] = at[c]
                                     /\ place'[c] = place[c] /\ number'[c] = number[c]
    BY <1>2 DEF Fail, Respond, Inv, TypeOK
  <2> QED
    BY <2>1, QuietKeepsFree
<1>3. ASSUME NEW k \in Calls, Look(k) \/ Probe(k) \/ Plan(k) PROVE FreeUnlessBeaten'
  <2>1. CASE Fail(k)
    BY <1>2, <2>1
  <2>2. CASE ~Fail(k)
    <3>1. disk' = disk /\ beaten' = beaten
      BY <1>3, <2>2 DEF Look, Probe, Plan, desk
    <3>2. \A c \in Calls : c # k => /\ at'[c] = at[c] /\ place'[c] = place[c]
                                    /\ number'[c] = number[c]
      BY <1>3, <2>2 DEF Look, Probe, Plan, Goto, Inv, TypeOK
    <3>3. at[k] = "looking" => number[k] = 1
      BY DEF Inv, CallFits
    <3>4. at'[k] = "landing" => Free(Target(k)) /\ place' = place /\ number'[k] = number[k]
      BY <1>3, <2>2, <3>3 DEF Look, Probe, Plan, Goto, Inv, TypeOK
    <3>5. at'[k] = "landing" => Free(Target(k))'
      BY <3>1, <3>4 DEF Target, Free
    <3> QED
      BY <3>1, <3>2, <3>5, QuietKeepsFree
  <2> QED
    BY <2>1, <2>2
<1>4. ASSUME NEW k \in Calls, Land(k) PROVE FreeUnlessBeaten'
  BY <1>2, <1>4, LandCases, LandingFillsOne, FillingIsSeen
<1>5. ASSUME NEW k \in Calls, Overwrite(k) PROVE FreeUnlessBeaten'
  <2>1. CASE Fail(k)
    BY <1>2, <2>1
  <2>2. CASE ~Fail(k)
    <3>1. \A p \in Paths : p # Target(k) => disk'[p] = disk[p]
      BY <1>5, <2>2 DEF Overwrite, Inv, TypeOK
    <3> QED
      BY <1>5, <2>2, <3>1, FillingIsSeen DEF Overwrite
  <2> QED
    BY <2>1, <2>2
<1>6. ASSUME NEW k \in Calls, Bin(k) PROVE FreeUnlessBeaten'
  <2>1. CASE Fail(k)
    BY <1>2, <2>1
  <2>2. CASE ~Fail(k)
    <3>1. /\ beaten' = beaten /\ at'[k] # "landing"
          /\ \A c \in Calls : c # k => /\ at'[c] = at[c]
                                       /\ place'[c] = place[c] /\ number'[c] = number[c]
      BY <1>6, <2>2 DEF Bin, Respond, Inv, TypeOK
    <3>2. \A p \in Paths : disk'[p] = disk[p] \/ disk'[p] = Nothing
      BY <1>6, <2>2 DEF Bin, Inv, TypeOK
    <3> QED
      BY <3>1, <3>2, QuietKeepsFree
  <2> QED
    BY <2>1, <2>2
<1>7. ASSUME NEW k \in Calls, RemoveEntry(k) PROVE FreeUnlessBeaten'
  <2>1. /\ disk' = disk /\ beaten' = beaten /\ at'[k] # "landing"
        /\ \A c \in Calls : c # k => /\ at'[c] = at[c]
                                     /\ place'[c] = place[c] /\ number'[c] = number[c]
    BY <1>7 DEF RemoveEntry, Respond, local, Inv, TypeOK
  <2> QED
    BY <2>1, QuietKeepsFree
<1>8. ASSUME NEW f \in Folders, CreateFolder(f) \/ RemoveFolder(f) PROVE FreeUnlessBeaten'
  BY <1>8 DEF CreateFolder, RemoveFolder, local, FreeUnlessBeaten, Free, Target
<1>9. CASE UNCHANGED vars
  BY <1>9 DEF vars, desk, local, FreeUnlessBeaten, Free, Target
<1> QED
  BY <1>1, <1>3, <1>4, <1>5, <1>6, <1>7, <1>8, <1>9 DEF Next, Step

(* Landing loses nothing but what was at the path it lands at.             *)
LEMMA LandingLosesOne ==
  ASSUME Inv, NEW k \in Calls, at[k] \in Searching, Landing(k)
  PROVE  Kept \ {disk[Target(k)]} \subseteq Kept'
<1> DEFINE t == Target(k)
           s == source[k]
<1>1. t \in Paths
  BY TargetIsPath
<1>2. ASSUME NEW d, Puts(t, d) PROVE Kept \ {disk[t]} \subseteq Kept'
  <2>1. \A p \in Paths : p # t => disk'[p] = disk[p]
    BY <1>2 DEF Puts, Inv, TypeOK
  <2>2. OnDisk \ {disk[t]} \subseteq OnDisk'
    BY <1>1, <2>1 DEF OnDisk
  <2> QED
    BY <1>2, <2>2 DEF Puts, Kept
<1>3. CASE s \in Paths /\ ~Free(s) /\ s # t
           /\ disk' = [disk EXCEPT ![t] = disk[s], ![s] = Nothing] /\ bin' = bin
  <2>1. \A p \in Paths : p \notin {s, t} => disk'[p] = disk[p]
    BY <1>3 DEF Inv, TypeOK
  <2>2. disk'[t] = disk[s]
    BY <1>1, <1>3 DEF Inv, TypeOK
  <2>3. OnDisk \ {disk[t]} \subseteq OnDisk'
    BY <1>1, <2>1, <2>2 DEF OnDisk
  <2> QED
    BY <1>3, <2>3 DEF Kept
<1>4. ASSUME NEW e \in bin, disk' = [disk EXCEPT ![t] = e.holds], bin' = bin \ {e}
      PROVE  Kept \ {disk[t]} \subseteq Kept'
  <2>1. disk'[t] = e.holds /\ \A p \in Paths : p # t => disk'[p] = disk[p]
    BY <1>1, <1>4 DEF Inv, TypeOK
  <2>2. e.holds # Nothing
    BY StorageAssumption DEF Inv, TypeOK, Entries
  <2>3. (OnDisk \ {disk[t]}) \cup {e.holds} \subseteq OnDisk'
    BY <1>1, <2>1, <2>2 DEF OnDisk
  <2> QED
    BY <1>4, <2>3 DEF Kept
<1> QED
  BY <1>2, <1>3, <1>4, UntouchedIsKept DEF Landing

LEMMA NothingIsNotKept == Inv => Nothing \notin Kept
  BY StorageAssumption DEF Inv, TypeOK, Entries, Kept, OnDisk

(* Who changed the desk answered, or took an entry off its list.           *)
LEMMA ChangesShow ==
  ASSUME Inv, NEW k \in Calls, at[k] # "idle",
         Respond(k) \/ \E e \in left[k] : left' = [left EXCEPT ![k] = @ \ {e}]
  PROVE  Acts(k)
  BY DEF Acts, Respond, Inv, TypeOK

(* A document disappears only by emptying the bin, by the agent's own      *)
(* rewrite, by a name all of whose numbers are taken, or because another   *)
(* call filled the path between the look that found it free and the write. *)
THEOREM OverwritesNeedARace == Spec => OnlyBeatenCallsOverwrite
<1>1. ASSUME Inv, FreeUnlessBeaten, [Next]_vars, NEW d \in Kept \ Kept'
      PROVE  \E k \in Calls : Acts(k) /\ d \in MayDestroy(k)
  <2>1. ~(UNCHANGED <<disk, bin>>)
    BY <1>1, UntouchedIsKept
  <2>2. PICK k \in Calls : Land(k) \/ Overwrite(k) \/ Bin(k) \/ RemoveEntry(k)
    BY <1>1, <2>1
       DEF Next, CreateFolder, RemoveFolder, Start, WriteNew, Copy, Move, Write, ToTrash,
           Restore, EmptyTrash, Step, Look, Probe, Plan, Fail, desk, vars
  <2>3. ~Bin(k)
    BY <1>1, BinningKeeps
  <2>4. ~Fail(k)
    BY <2>1 DEF Fail
  <2>5. CASE Land(k)
    <3>1. Landing(k) /\ Respond(k) /\ at[k] \in {"landing", "overwriting"}
      BY <1>1, <2>4, <2>5, LandCases DEF Land
    <3>2. d = disk[Target(k)]
      BY <1>1, <3>1, LandingLosesOne DEF Searching
    <3>3. at[k] = "landing" => k \in beaten
      BY <1>1, <3>2, NothingIsNotKept DEF FreeUnlessBeaten, Free
    <3> QED
      BY <1>1, <3>1, <3>2, <3>3, ChangesShow DEF MayDestroy
  <2>6. CASE Overwrite(k)
    <3>1. Respond(k) /\ at[k] = "writing" /\ bin' = bin
          /\ \E n : disk' = [disk EXCEPT ![Target(k)] = n]
      BY <2>4, <2>6 DEF Overwrite
    <3>2. \A p \in Paths : p # Target(k) => disk'[p] = disk[p]
      BY <1>1, <3>1 DEF Inv, TypeOK
    <3>3. d = disk[Target(k)]
      BY <1>1, <3>1, <3>2 DEF Kept, OnDisk
    <3> QED
      BY <1>1, <3>1, <3>3, ChangesShow DEF MayDestroy
  <2>7. CASE RemoveEntry(k)
    <3>1. PICK e \in left[k] : /\ at[k] = "emptying" /\ disk' = disk /\ bin' = bin \ {e}
                               /\ \/ Respond(k)
                                  \/ left' = [left EXCEPT ![k] = @ \ {e}]
      BY <2>7 DEF RemoveEntry
    <3>2. d = e.holds
      BY <1>1, <3>1 DEF Kept, OnDisk
    <3>3. Acts(k)
      BY <1>1, <3>1, ChangesShow
    <3> QED
      BY <3>1, <3>2, <3>3 DEF MayDestroy
  <2> QED
    BY <2>2, <2>3, <2>5, <2>6, <2>7
<1>2. Init => FreeUnlessBeaten
  BY DEF Init, FreeUnlessBeaten
<1>3. Inv /\ FreeUnlessBeaten /\ [Next]_vars =>
        [\A d \in Kept \ Kept' : \E k \in Calls : Acts(k) /\ d \in MayDestroy(k)]_vars
  BY <1>1
<1> QED
  BY <1>2, <1>3, InvInit, InvStep, FreeStep, PTL DEF Spec, OnlyBeatenCallsOverwrite
=============================================================================
