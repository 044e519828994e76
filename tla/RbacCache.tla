----------------------------- MODULE RbacCache -----------------------------
(***************************************************************************)
(* The cache of permissions of one process of the shell                    *)
(* (packages/@cortex/service/src/rbac.ts): entries that live for 30        *)
(* seconds, readings of the database shared by the requests that wait for  *)
(* them, and the clearing after every change of permissions.               *)
(*                                                                         *)
(* A reading takes two steps: the query, which sees what the database      *)
(* holds (Read), and the continuation in the process (Resolve).  So does a *)
(* change: the commit (Mutate) and the clearing in the process (Clear).    *)
(* Between the two steps of either, anything else may run.                 *)
(*                                                                         *)
(* The clock is a choice: an entry may pass its time at any moment.  The   *)
(* generation counter is kept as `fresh`, the readings begun since the     *)
(* last clearing: the code asks only whether its value is still the same.  *)
(* Other processes of the shell, whose caches nobody clears, are left out. *)
(***************************************************************************)
EXTENDS FiniteSets, Naturals

CONSTANTS
  People,      \* e-mail addresses
  Answers,     \* what loadGrantedApplicationCodes may return
  Absent,      \* no entry, nobody to wait for
  Denied,      \* the answer of a gate whose reading failed
  Readers,     \* requests passing the gate
  Mutations,   \* changes of permissions in flight
  MaxEntries   \* CACHE_MAX_ENTRIES

VARIABLES
  granted,   \* per person: what the database would answer now
  store,     \* per person: the codes of its entry, or Absent
  expired,   \* people whose entry is past its time
  inFlight,  \* per person: the reader whose reading is shared, or Absent
  fresh,     \* readers whose reading began since the last clearing
  at,        \* per reader: where it is
  email,     \* per reader: the person it asks about
  joined,    \* per reader: the reader whose reading it awaits
  answer,    \* per reader: what its reading saw, or the gate answered
  since,     \* history: what was true for its person since the reader asked
  uncleared  \* changes committed and not yet followed by their clearing

cache   == <<store, expired, inFlight, fresh>>
readers == <<at, email, joined, answer, since>>

vars == <<granted, cache, readers, uncleared>>

-----------------------------------------------------------------------------

Cached == {p \in People : store[p] # Absent}

Hit(p) == p \in Cached \ expired

Init == /\ granted \in [People -> Answers]
        /\ store = [p \in People |-> Absent]
        /\ expired = {}
        /\ inFlight = [p \in People |-> Absent]
        /\ fresh = {}
        /\ at = [r \in Readers |-> "idle"]
        /\ email = [r \in Readers |-> Absent]
        /\ joined = [r \in Readers |-> Absent]
        /\ answer = [r \in Readers |-> Denied]
        /\ since = [r \in Readers |-> {}]
        /\ uncleared = {}

-----------------------------------------------------------------------------

(* The reader asks about p.  What may be answered: whatever is true of p   *)
(* from now on, and anything while a change still waits for its clearing.  *)
Asks(r, p) ==
  /\ at[r] = "idle"
  /\ email' = [email EXCEPT ![r] = p]
  /\ since' = [since EXCEPT ![r] =
                 IF uncleared = {} THEN {granted[p]} ELSE Answers]
  /\ UNCHANGED <<granted, uncleared>>

(* A live entry answers at once.                                           *)
AnswerFromStore(r, p) ==
  /\ Asks(r, p)
  /\ Hit(p)
  /\ at' = [at EXCEPT ![r] = "answered"]
  /\ answer' = [answer EXCEPT ![r] = store[p]]
  /\ UNCHANGED <<cache, joined>>

(* An entry past its time is dropped before anything else.                 *)
DropExpired(p) ==
  /\ store' = [store EXCEPT ![p] = Absent]
  /\ expired' = expired \ {p}

(* Somebody reads the same person already: wait for that reading.          *)
Join(r, p) ==
  /\ Asks(r, p)
  /\ ~Hit(p)
  /\ inFlight[p] # Absent
  /\ DropExpired(p)
  /\ at' = [at EXCEPT ![r] = "waiting"]
  /\ joined' = [joined EXCEPT ![r] = inFlight[p]]
  /\ UNCHANGED <<inFlight, fresh, answer>>

(* Nobody does: begin a reading and note the generation it began in.       *)
Load(r, p) ==
  /\ Asks(r, p)
  /\ ~Hit(p)
  /\ inFlight[p] = Absent
  /\ DropExpired(p)
  /\ at' = [at EXCEPT ![r] = "loading"]
  /\ inFlight' = [inFlight EXCEPT ![p] = r]
  /\ fresh' = fresh \cup {r}
  /\ UNCHANGED <<joined, answer>>

Ask(r, p) == AnswerFromStore(r, p) \/ Join(r, p) \/ Load(r, p)

(* The query runs and sees what is committed.                              *)
Read(r) ==
  /\ at[r] = "loading"
  /\ at' = [at EXCEPT ![r] = "loaded"]
  /\ answer' = [answer EXCEPT ![r] = granted[email[r]]]
  /\ UNCHANGED <<granted, cache, email, joined, since, uncleared>>

(* generation === startedAt                                                *)
SameGeneration(r) == r \in fresh

(* A full store gives up one entry: the oldest in the code, any here.      *)
GivenUp(p) ==
  IF Cardinality(Cached) >= MaxEntries /\ p \notin Cached
  THEN {{q} : q \in Cached}
  ELSE {{}}

Remember(p, codes) ==
  \E gone \in GivenUp(p) :
    /\ store' = [q \in People |-> IF q = p THEN codes
                                  ELSE IF q \in gone THEN Absent ELSE store[q]]
    /\ expired' = expired \ (gone \cup {p})

(* r and everybody who waits for its reading get the same answer.          *)
Deliver(r, a) ==
  LET told == {r} \cup {q \in Readers : at[q] = "waiting" /\ joined[q] = r}
  IN  /\ at' = [q \in Readers |-> IF q \in told THEN "answered" ELSE at[q]]
      /\ answer' = [q \in Readers |-> IF q \in told THEN a ELSE answer[q]]
      /\ joined' = [q \in Readers |-> IF q \in told THEN Absent ELSE joined[q]]

(* A reading takes only itself out of the shared readings: after a         *)
(* clearing another one may stand there.                                   *)
Withdraw(r) ==
  /\ inFlight' = [p \in People |-> IF inFlight[p] = r THEN Absent ELSE inFlight[p]]
  /\ fresh' = fresh \ {r}

(* The query's result arrives in the process.                              *)
Resolve(r) ==
  /\ at[r] = "loaded"
  /\ \/ SameGeneration(r) /\ Remember(email[r], answer[r])
     \/ ~SameGeneration(r) /\ UNCHANGED <<store, expired>>
  /\ Withdraw(r)
  /\ Deliver(r, answer[r])
  /\ UNCHANGED <<granted, email, since, uncleared>>

(* The query is rejected: every gate that waits for it denies.             *)
Fail(r) ==
  /\ at[r] = "loading"
  /\ Withdraw(r)
  /\ Deliver(r, Denied)
  /\ UNCHANGED <<granted, store, expired, email, since, uncleared>>

(* The handler behind the gate goes on.                                    *)
Leave(r) ==
  /\ at[r] = "answered"
  /\ at' = [at EXCEPT ![r] = "idle"]
  /\ email' = [email EXCEPT ![r] = Absent]
  /\ answer' = [answer EXCEPT ![r] = Denied]
  /\ since' = [since EXCEPT ![r] = {}]
  /\ UNCHANGED <<granted, cache, joined, uncleared>>

(* Thirty seconds pass for an entry.                                       *)
Expire(p) ==
  /\ Hit(p)
  /\ expired' = expired \cup {p}
  /\ UNCHANGED <<granted, store, inFlight, fresh, readers, uncleared>>

-----------------------------------------------------------------------------

(* What is true of the readers' people from now on may be answered too.    *)
Witness == since' = [r \in Readers |->
                       IF at[r] = "idle" THEN {}
                       ELSE since[r] \cup {granted'[email[r]]}]

(* A change of permissions commits.                                        *)
Mutate(m) ==
  /\ m \notin uncleared
  /\ uncleared' = uncleared \cup {m}
  /\ Witness
  /\ UNCHANGED <<cache, at, email, joined, answer>>

(* Mutant: clearing the entries and leaving the shared readings.           *)
EmptyEntries ==
  /\ store' = [p \in People |-> Absent]
  /\ expired' = {}
  /\ UNCHANGED <<inFlight, fresh>>

(* clearTileAccessCache: both maps and the next generation.                *)
Empty ==
  /\ store' = [p \in People |-> Absent]
  /\ expired' = {}
  /\ inFlight' = [p \in People |-> Absent]
  /\ fresh' = {}

(* The process learns of its commit and clears the cache.                  *)
Clear(m) ==
  /\ m \in uncleared
  /\ uncleared' = uncleared \ {m}
  /\ Empty
  /\ UNCHANGED <<granted, readers>>

ReaderStep(r) == \/ \E p \in People : Ask(r, p)
                 \/ Read(r) \/ Resolve(r) \/ Fail(r) \/ Leave(r)

Next == \/ \E r \in Readers : ReaderStep(r)
        \/ \E p \in People : Expire(p)
        \/ \E m \in Mutations : \/ granted' \in [People -> Answers] /\ Mutate(m)
                                \/ Clear(m)

Spec == Init /\ [][Next]_vars

-----------------------------------------------------------------------------

TypeOK ==
  /\ granted \in [People -> Answers]
  /\ store \in [People -> Answers \cup {Absent}]
  /\ expired \subseteq Cached
  /\ inFlight \in [People -> Readers \cup {Absent}]
  /\ fresh \subseteq Readers
  /\ at \in [Readers -> {"idle", "loading", "loaded", "waiting", "answered"}]
  /\ email \in [Readers -> People \cup {Absent}]
  /\ joined \in [Readers -> Readers \cup {Absent}]
  /\ answer \in [Readers -> Answers \cup {Denied}]
  /\ since \in [Readers -> SUBSET Answers]
  /\ uncleared \subseteq Mutations

(* Once every change was cleared, an entry says what the database says: no *)
(* reading that began before a clearing brings the old permissions back    *)
(* for another thirty seconds (rbac.ts, generation).                       *)
NoStaleEntry ==
  uncleared = {} => \A p \in Cached : store[p] = granted[p]

(* A gate answers with permissions the person held after the gate was      *)
(* asked, unless a change was waiting for its clearing at that moment; or  *)
(* it denies.  Sharing a reading must not hand out an older one.           *)
AnswersAreFresh ==
  \A r \in Readers : at[r] = "answered" => answer[r] \in since[r] \cup {Denied}

=============================================================================
