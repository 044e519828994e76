---------------------------- MODULE DeskStorage ----------------------------
(***************************************************************************)
(* The files of one desk (desk-core/src/desk-storage.ts): uploading,       *)
(* copying, moving, the bin, restoring, emptying the bin, and the agent's  *)
(* own writes into the folder of a case.  The calls come from the file     *)
(* routes (desk-app/src/api/files.ts, files-upload.ts) and from the tools  *)
(* of a running turn, so several are in flight at once; every call to the  *)
(* disk is awaited, and an action is one such call.                        *)
(*                                                                         *)
(* A path is a folder, a name and a number: number 1 is the name itself,   *)
(* number 2 is "name (2)".  Nothing stands for a free path.                *)
(*                                                                         *)
(* Left out: the gate of the shared shelf, other people's desks, moving    *)
(* or binning a folder together with the files in it, two deletions of one *)
(* path within one millisecond, and failures of the disk itself.  Which     *)
(* document an upload or the agent brings is chosen when it reaches the    *)
(* disk: no step before that one looks at it.                              *)
(***************************************************************************)
EXTENDS Integers, FiniteSets

CONSTANTS
  MyFiles,     \* the folder a file returns to when its own is gone
  CaseFolder,  \* the folder of a case, where the agent writes; one of OtherFolders
  OtherFolders, \* the other folders of the desk, which may come and go
  Names,       \* names of files, without their number
  MaxCopies,   \* freeName's ceiling (499 in the code)
  Documents,   \* what a file may hold
  Nothing,     \* no file
  Ids,         \* bound: identifiers of entries of the bin
  Picks,       \* bound: the paths people pick to copy, move or delete
  Calls        \* slots of concurrent calls

ASSUME StorageAssumption ==
  /\ Picks \subseteq ({MyFiles} \cup OtherFolders) \X Names \X (1 .. MaxCopies)
  /\ MaxCopies \in Nat \ {0}
  /\ Nothing \notin Documents
  /\ MyFiles \notin OtherFolders
  /\ CaseFolder \in OtherFolders

VARIABLES
  disk,      \* the document at each path
  folders,   \* the folders that exist
  bin,       \* the entries of .trash
  at,        \* per call: the disk call it is about to make
  kind,      \* per call: the operation it serves
  source,    \* per call: the path it takes the document from
  entry,     \* per call: the entry of the bin it restores
  place,     \* per call: the folder and the name it puts the document at
  number,    \* per call: the number freeName tries, or chose
  left,      \* per call: the listed entries emptyTrash has still to remove
  beaten     \* history: calls whose free path another call filled meanwhile

desk  == <<disk, folders, bin>>
local == <<kind, source, entry, place>>
vars  == <<desk, local, at, number, left, beaten>>

-----------------------------------------------------------------------------
Folders == {MyFiles} \cup OtherFolders

Places == Folders \X Names

Paths == Folders \X Names \X (1 .. MaxCopies)

Entries == [id : Ids, from : Paths, holds : Documents]

Kinds == {"none", "upload", "copy", "move", "moveBeside", "restore", "write", "trash", "empty"}

DiskCalls == {"idle", "looking", "probing", "landing", "overwriting", "writing",
              "binning", "planning", "emptying"}

TypeOK ==
  /\ disk \in [Paths -> Documents \cup {Nothing}]
  /\ folders \subseteq Folders
  /\ bin \subseteq Entries
  /\ at \in [Calls -> DiskCalls]
  /\ kind \in [Calls -> Kinds]
  /\ source \in [Calls -> Paths \cup {Nothing}]
  /\ entry \in [Calls -> Entries \cup {Nothing}]
  /\ place \in [Calls -> Places \cup {Nothing}]
  /\ number \in [Calls -> 1 .. MaxCopies]
  /\ left \in [Calls -> SUBSET Entries]
  /\ beaten \subseteq Calls

(* prepareDesk.                                                            *)
Init ==
  /\ disk = [p \in Paths |-> Nothing]
  /\ folders = Folders
  /\ bin = {}
  /\ at = [k \in Calls |-> "idle"]
  /\ kind = [k \in Calls |-> "none"]
  /\ source = [k \in Calls |-> Nothing]
  /\ entry = [k \in Calls |-> Nothing]
  /\ place = [k \in Calls |-> Nothing]
  /\ number = [k \in Calls |-> 1]
  /\ left = [k \in Calls |-> {}]
  /\ beaten = {}

-----------------------------------------------------------------------------
(* Shorthands.                                                             *)

Free(p) == disk[p] = Nothing

PathOf(pl, n) == <<pl[1], pl[2], n>>

Target(k) == PathOf(place[k], number[k])

OnDisk == {disk[p] : p \in Paths} \ {Nothing}

Kept == OnDisk \cup {e.holds : e \in bin}

(* The documents an upload or the agent may bring: those the desk has not. *)
Fresh == Documents \ Kept

(* An entry that left the bin may still be in the hands of a call.         *)
Known == bin \cup UNION {left[k] : k \in Calls} \cup ({entry[k] : k \in Calls} \ {Nothing})

FreshIds == Ids \ {e.id : e \in Known}

Begin(k, query, op, from, to) ==
  /\ at[k] = "idle"
  /\ at' = [at EXCEPT ![k] = query]
  /\ kind' = [kind EXCEPT ![k] = op]
  /\ source' = [source EXCEPT ![k] = from]
  /\ place' = [place EXCEPT ![k] = to]
  /\ UNCHANGED <<entry, number, left>>

Goto(k, query, n) ==
  /\ at' = [at EXCEPT ![k] = query]
  /\ number' = [number EXCEPT ![k] = n]
  /\ UNCHANGED <<kind, source, entry, left>>

(* The call answers, with a result or with an error.                       *)
Respond(k) ==
  /\ at' = [at EXCEPT ![k] = "idle"]
  /\ kind' = [kind EXCEPT ![k] = "none"]
  /\ source' = [source EXCEPT ![k] = Nothing]
  /\ entry' = [entry EXCEPT ![k] = Nothing]
  /\ place' = [place EXCEPT ![k] = Nothing]
  /\ number' = [number EXCEPT ![k] = 1]
  /\ left' = [left EXCEPT ![k] = {}]

MakeFolder(f) == folders' = folders \cup {f}

(* Every other call about to land at the path that k fills comes too late. *)
Fill(k) ==
  beaten' = (beaten \cup {c \in Calls : at[c] = "landing" /\ Target(c) = Target(k)}) \ {k}

Fail(k) ==
  /\ Respond(k)
  /\ beaten' = beaten \ {k}
  /\ UNCHANGED <<disk, bin>>

-----------------------------------------------------------------------------
(* Folders.                                                                *)

CreateFolder(f) ==
  /\ f \notin folders
  /\ MakeFolder(f)
  /\ UNCHANGED <<disk, bin, local, at, number, left, beaten>>

RemoveFolder(f) ==
  /\ f \in folders \cap OtherFolders
  /\ \A p \in Paths : p[1] = f => Free(p)
  /\ folders' = folders \ {f}
  /\ UNCHANGED <<disk, bin, local, at, number, left, beaten>>

-----------------------------------------------------------------------------
(* A call begins: its folder is made before it looks for a name.           *)

WriteNew(k, to) ==
  /\ Begin(k, "probing", "upload", Nothing, to)
  /\ MakeFolder(to[1])
  /\ UNCHANGED <<disk, bin, beaten>>

Copy(k, p, to) ==
  /\ ~Free(p)
  /\ Begin(k, "probing", "copy", p, to)
  /\ MakeFolder(to[1])
  /\ UNCHANGED <<disk, bin, beaten>>

(* onCollision is "error" for a move, "both" for a move beside.            *)
Move(k, p, to, op) ==
  /\ ~Free(p)
  /\ p # PathOf(to, 1)
  /\ Begin(k, "looking", op, p, to)
  /\ MakeFolder(to[1])
  /\ UNCHANGED <<disk, bin, beaten>>

(* The agent replaces its own earlier version without asking.              *)
Write(k, n) ==
  /\ Begin(k, "writing", "write", Nothing, <<CaseFolder, n>>)
  /\ MakeFolder(CaseFolder)
  /\ UNCHANGED <<disk, bin, beaten>>

ToTrash(k, p) ==
  /\ ~Free(p)
  /\ Begin(k, "binning", "trash", p, Nothing)
  /\ UNCHANGED <<desk, beaten>>

Restore(k, e) ==
  /\ at[k] = "idle"
  /\ at' = [at EXCEPT ![k] = "planning"]
  /\ kind' = [kind EXCEPT ![k] = "restore"]
  /\ entry' = [entry EXCEPT ![k] = e]
  /\ UNCHANGED <<desk, source, place, number, left, beaten>>

(* readdir: only what is listed now will be removed.                       *)
EmptyTrash(k) ==
  /\ bin # {}
  /\ at[k] = "idle"
  /\ at' = [at EXCEPT ![k] = "emptying"]
  /\ kind' = [kind EXCEPT ![k] = "empty"]
  /\ left' = [left EXCEPT ![k] = bin]
  /\ UNCHANGED <<desk, source, entry, place, number, beaten>>

-----------------------------------------------------------------------------
(* Looking for a name.                                                     *)

(* Mutant: a move does not look whether the name is taken.                 *)
LookAway(k) ==
  /\ at[k] = "looking"
  /\ Goto(k, "landing", 1)
  /\ UNCHANGED <<desk, place, beaten>>

(* A move looks at the very name first: a taken one is an error (409), or  *)
(* the beginning of a search for a free number.                            *)
Look(k) ==
  /\ at[k] = "looking"
  /\ \/ /\ Free(Target(k))
        /\ Goto(k, "landing", 1)
        /\ UNCHANGED <<desk, place, beaten>>
     \/ /\ ~Free(Target(k)) /\ kind[k] = "moveBeside"
        /\ Goto(k, "probing", 1)
        /\ UNCHANGED <<desk, place, beaten>>
     \/ /\ ~Free(Target(k)) /\ kind[k] = "move"
        /\ Fail(k)
        /\ UNCHANGED folders

(* Mutant: the search for a free name has no ceiling.                      *)
ProbeOn(k) ==
  /\ at[k] = "probing"
  /\ IF Free(Target(k)) THEN Goto(k, "landing", number[k])
                        ELSE Goto(k, "probing", number[k] + 1)
  /\ UNCHANGED <<desk, place, beaten>>

(* freeName: one access per number.  When all are taken it throws; a move  *)
(* swallows that exception and goes on with the name it was given.         *)
Probe(k) ==
  /\ at[k] = "probing"
  /\ \/ /\ Free(Target(k))
        /\ Goto(k, "landing", number[k])
        /\ UNCHANGED <<desk, place, beaten>>
     \/ /\ ~Free(Target(k)) /\ number[k] < MaxCopies
        /\ Goto(k, "probing", number[k] + 1)
        /\ UNCHANGED <<desk, place, beaten>>
     \/ /\ ~Free(Target(k)) /\ number[k] = MaxCopies /\ kind[k] = "moveBeside"
        /\ Goto(k, "overwriting", 1)
        /\ UNCHANGED <<desk, place, beaten>>
     \/ /\ ~Free(Target(k)) /\ number[k] = MaxCopies /\ kind[k] # "moveBeside"
        /\ Fail(k)
        /\ UNCHANGED folders

(* restoreTarget: back to where it was, or to MyFiles when that is gone.   *)
Plan(k) ==
  LET from == entry[k].from
      home == IF from[1] \in folders THEN from[1] ELSE MyFiles
  IN  /\ at[k] = "planning"
      /\ place' = [place EXCEPT ![k] = <<home, from[2]>>]
      /\ Goto(k, "probing", 1)
      /\ MakeFolder(home)
      /\ UNCHANGED <<disk, bin, beaten>>

-----------------------------------------------------------------------------
(* The one call that changes the desk.                                     *)

(* Neither writeFile, copyFile nor rename asks whether the name is still   *)
(* free; a source or a folder that is gone is an error.                    *)
Land(k) ==
  LET t == Target(k)
      s == source[k]
      e == entry[k]
  IN  /\ at[k] \in {"landing", "overwriting"}
      /\ \/ /\ t[1] \in folders
            /\ \/ /\ kind[k] = "upload"
                  /\ \E d \in Fresh : disk' = [disk EXCEPT ![t] = d]
                  /\ UNCHANGED bin
               \/ /\ kind[k] = "copy" /\ ~Free(s)
                  /\ disk' = [disk EXCEPT ![t] = disk[s]]
                  /\ UNCHANGED bin
               \/ /\ kind[k] \in {"move", "moveBeside"} /\ ~Free(s)
                  /\ disk' = IF s = t THEN disk
                             ELSE [disk EXCEPT ![t] = disk[s], ![s] = Nothing]
                  /\ UNCHANGED bin
               \/ /\ kind[k] = "restore" /\ e \in bin
                  /\ disk' = [disk EXCEPT ![t] = e.holds]
                  /\ bin' = bin \ {e}
            /\ Fill(k)
            /\ Respond(k)
         \/ /\ \/ t[1] \notin folders
               \/ kind[k] \in {"copy", "move", "moveBeside"} /\ Free(s)
               \/ kind[k] = "restore" /\ e \notin bin
            /\ Fail(k)
      /\ UNCHANGED folders

Overwrite(k) ==
  /\ at[k] = "writing"
  /\ \/ /\ CaseFolder \in folders
        /\ \E d \in Fresh : disk' = [disk EXCEPT ![Target(k)] = d]
        /\ Fill(k)
        /\ Respond(k)
        /\ UNCHANGED bin
     \/ CaseFolder \notin folders /\ Fail(k)
  /\ UNCHANGED folders

(* Mutant: deleting does not go through the bin.                           *)
BinNothing(k) ==
  /\ at[k] = "binning"
  /\ disk' = [disk EXCEPT ![source[k]] = Nothing]
  /\ Respond(k)
  /\ UNCHANGED <<folders, bin, beaten>>

(* The entry's identifier says when, and from where, the file vanished.    *)
Bin(k) ==
  /\ at[k] = "binning"
  /\ \/ /\ ~Free(source[k])
        /\ \E i \in FreshIds :
             bin' = bin \cup {[id |-> i, from |-> source[k], holds |-> disk[source[k]]]}
        /\ disk' = [disk EXCEPT ![source[k]] = Nothing]
        /\ Respond(k)
        /\ UNCHANGED beaten
     \/ Free(source[k]) /\ Fail(k)
  /\ UNCHANGED folders

(* One rm of a listed entry; a restored one is not there any more.         *)
RemoveEntry(k) ==
  /\ at[k] = "emptying"
  /\ \E e \in left[k] :
       /\ bin' = bin \ {e}
       /\ \/ /\ left[k] = {e}
             /\ Respond(k)
          \/ /\ left[k] # {e}
             /\ left' = [left EXCEPT ![k] = @ \ {e}]
             /\ UNCHANGED <<at, local, number>>
  /\ UNCHANGED <<disk, folders, beaten>>

-----------------------------------------------------------------------------
Start(k) ==
  \/ \E to \in Places : WriteNew(k, to)
  \/ \E p \in Picks, to \in Places : Copy(k, p, to)
  \/ \E p \in Picks, to \in Places, op \in {"move", "moveBeside"} : Move(k, p, to, op)
  \/ \E n \in Names : Write(k, n)
  \/ \E p \in Picks : ToTrash(k, p)
  \/ \E e \in bin : Restore(k, e)
  \/ EmptyTrash(k)

Step(k) ==
  \/ Look(k) \/ Probe(k) \/ Plan(k) \/ Land(k)
  \/ Overwrite(k) \/ Bin(k) \/ RemoveEntry(k)

Next ==
  \/ \E f \in Folders : CreateFolder(f) \/ RemoveFolder(f)
  \/ \E k \in Calls : Start(k) \/ Step(k)

Spec == Init /\ [][Next]_vars

-----------------------------------------------------------------------------
(* Safety.                                                                 *)

(* The call whose step this is.                                            *)
Acts(k) == <<at[k], left[k]>>' # <<at[k], left[k]>>

(* What the step of k may destroy: an entry that the emptying listed, the  *)
(* file the agent rewrites, the name given when all its numbers are taken, *)
(* and the free path that another call filled between look and write.      *)
MayDestroy(k) ==
  {e.holds : e \in IF at[k] = "emptying" THEN left[k] ELSE {}} \cup
  (IF at[k] \in {"writing", "overwriting"} \/ (at[k] = "landing" /\ k \in beaten)
   THEN {disk[Target(k)]} ELSE {})

(* No other document disappears from the desk and its bin: an upload, copy,*)
(* move or restore destroys nothing but what another call put, since it    *)
(* looked, at the very path it found free, and emptying the bin nothing    *)
(* that was binned or restored after it listed the entries.                *)
OnlyBeatenCallsOverwrite ==
  [][\A d \in Kept \ Kept' : \E k \in Calls : Acts(k) /\ d \in MayDestroy(k)]_vars

(* What a person deletes and nobody empties can be had back: a step of a   *)
(* deletion leaves every document on the desk or in its bin, whatever else *)
(* is in flight.                                                           *)
DeletingIsReversible ==
  [][\A k \in Calls : Acts(k) /\ at[k] = "binning" => Kept \subseteq Kept']_vars

-----------------------------------------------------------------------------
(* What comments of the code say, and the code does not do.                *)

(* desk-storage.ts: a move NEVER overwrites.  It does, and needs nobody    *)
(* else for it: an exhausted search for a name is enough.                  *)
MoveNeverOverwrites ==
  [][\A k \in Calls : Acts(k) /\ k \notin beaten /\ kind[k] \in {"move", "moveBeside"}
       => Kept \subseteq Kept']_vars

(* desk-storage.ts: an upload never overwrites what is there.  It does, for*)
(* the name is free when it is looked up and not when it is written.       *)
UploadNeverOverwrites ==
  [][\A k \in Calls : Acts(k) /\ kind[k] = "upload" => Kept \subseteq Kept']_vars
=============================================================================
