# Cortex Next: specifications

This directory holds TLA+ specifications of the program in `src/`, the TLC
configurations that check them on small instances, and theorems about them that
TLAPS proves for every value of the constants. `PROJECT.json` maps every
definition to the lines it models.

Cortex Next is one Next.js shell (`app/idp`) with tiles. Five parts of it keep
state that several actors change at once, and those are modelled:

- the **Desk** (`packages/@cortex/desk-core`, `desk-app`): people give an assistant
  cases, the assistant runs turns against a language model with tools that touch
  files, and supervisors decide who may do what;
- the **configuration of the shell** (`packages/@cortex/service/src/system-config.ts`)
  and the **cache of permissions** (`rbac.ts`) that every gate asks;
- the **groups of Open WebUI** that mirror the shell's roles (`openwebui-sync.ts`);
- the **accounts of Open WebUI**, brought in line with the shell's people (same file);
- the **Cowork chat** (`features/cortex-cowork/server`): turns that run a child
  process in the sandbox of a session.

## Inventory

| Component | State | Operations | How it interacts | What is hard | What makes it correct | Module |
| --- | --- | --- | --- | --- | --- | --- |
| Turn, stop, sweep (`runtime.ts`, `turn-control.ts`, `case-turn.ts`, `case-stop.ts`, `db.ts`) | `case_file`, `event`, the in-memory registry of abort controllers | start a turn, run its steps, stop, sweep after a restart | the request detaches the turn and answers; the stop reaches it through the registry; the screen reads status and events | turns, stops and restarts interleave at every await; writes are separate statements | a working case is owned; an ending is not rewritten; work is billed; a stop ends spending | `DeskTurn` |
| Daily limit (`capability-gate.ts`) | none of its own; reads `event`, `person`, `grant` | `policyFor`, `spentToday` | asked by the turn request | read once, used later | the limit counts what was recorded | in `DeskTurn` |
| People, requests, grants (`people.ts`, `identity.ts`, `request.ts`, `team.ts`) | `person`, `access_request`, `grant` | first visit, ask, decide, revoke, promote, disable | policy is built from role and grants | several statements per decision, no transaction | a granted request gave something; a supervisor remains | `DeskAccess` |
| Files (`desk-storage.ts`, `files.ts`, `files-upload.ts`) | the disk of one person and its bin | upload, copy, move, bin, restore, empty, the agent's write | routes and running turns touch the same folders | look first, write later | nothing vanishes unasked | `DeskStorage` |
| Cache of permissions (`service/rbac.ts`) | entries, shared readings, a generation counter | ask, read, resolve, clear | every gate of the shell asks it, every change clears it | a reading that began before a change ends after it | the gate answers what was true after the question | `RbacCache` |
| Configuration of access (`service/system-config.ts`, `_lib/guard.ts`) | users, roles, `user_roles`, `permissions_matrix` | roles of a user, activity, roles of a module, modules of a role, deletion of a role | gate, transaction, clearing; Open WebUI afterwards | two changes each leave the other's person as the last | somebody active reaches the administration module | `SystemConfig` |
| Groups of Open WebUI (`service/openwebui-sync.ts`) | mappings here, members there | push, attach, detach, deletion of a role | after each change of a role, best effort | pushes cross, run on past their budget, fail half-way | a group holds the holders of its role | `GroupSync` |
| Accounts of Open WebUI (`openwebui-sync.ts`, `openwebui-sync-store.ts`) | accounts there, people here | the whole synchronisation | started by an administrator, read and written call by call | read at four moments, written later | nobody entitled is cut off; repeated runs converge | `AccountSync` |
| Cowork chat (`chat-engine.ts`, `sandbox-store.ts`) | `session.json`, `artifacts/`, a child process per turn | message, attempts, fallback, deletion | two requests may work on one session | the session is saved whole from each request's copy; process death, timer | one answer per message; what was finished is kept; a turn ends | `CoworkTurn` |
| Memory (`memory.ts`) | `memory` | propose, add, accept, edit, forget | read into every prompt | limit counted before the write | what is kept reaches the prompt | none |
| Evidence (`steps.ts`, `evidence.ts`, `outcomes.ts`) | none; reads `event` | pair tool starts and ends, tell failures | screen and supervisor read it | starts without ends | a failed step is not told as done | none |
| Sandbox of a turn (`sandbox.ts`) | a box per call | start, run, collect, remove | called by a tool of the turn | timeouts, leftovers | what a run made is collected once | none |
| Procedures, MCP tools | rows and editions; adopted tools and fingerprints | propose, accept; adopt, refresh | read into the prompt, offered as tools | a server changes what was adopted | only what was adopted is called | none |
| Content Guru and other tiles | tables of finished generations | generate, store | model calls | long requests | what is shown was stored | none |
| Python services, clients, screens, tests | none, or read-only | | | | | none |

The reasons for the last rows stand under "Not modelled".

## Modules

| Module | What it is |
| --- | --- |
| `CaseFile` | abstract: what a case promises its owner, a status and a reason |
| `DeskTurn` | detailed: turns, steps, money, registry, stops, restart, sweep |
| `DeskTurnProofs` | theorems about `DeskTurn`, its refinement of `CaseFile` among them |
| `DeskAccess`, `DeskAccessProofs` | people, requests, grants and the supervisor's screen |
| `DeskStorage`, `DeskStorageProofs` | the files of a desk |
| `RbacCache`, `RbacCacheProofs` | the cache of permissions, for any source of permissions |
| `SystemConfig`, `SystemConfigProofs` | the changes of access behind their gate; composes `RbacCache` and implements it |
| `GroupSync`, `GroupSyncProofs` | groups of Open WebUI against roles |
| `AccountSync`, `AccountSyncProofs` | accounts of Open WebUI against people |
| `CoworkTurn`, `CoworkTurnProofs` | turns of a session of the Cowork chat |
| `MCDeskTurn`, `MCDeskStorage`, `MCSystemConfig`, `MCAccountSync`, `MCCoworkTurn` | instances for TLC: symmetries and constants that are functions or sets |
| `MCTurnsEnd` | `DeskTurn` beside `CoworkTurn`: what must eventually happen in either |
| `MCDesk` | `DeskAccess` beside `DeskStorage` |
| `MCOpenWebuiSync` | `GroupSync` beside `AccountSync` |

The last three put two components that share no state into one run. A variable
`half` says which of the two a behaviour is about; the other stands still in one
of its initial states, so the run explores the sum of both, not the product.

JavaScript runs one continuation at a time, so in every module an action is the
code between two awaits. Variables called a history in their comment are read
by no guard: the properties need them to say what happened earlier.

### DeskTurn

`status`, `reason` and `lifecycle` are the row of the case and its last
lifecycle event; `billed` and `added` are what a turn put in cost events and
what it added to `case_file.cost_usd`; `turns` and `aborted` are the registry
and the signals; `pc` says which await a turn is at. A restart (`Restart`)
keeps the database and loses turns and registry; `Migrate` is the sweep of
start-up and `OtherProcessMigrates` the sweep of a second instance. `Faults`
are rejected queries, with the exception followed to where it lands: the
request's 500, the `catch` block, or `finally`. `alone` is a history: the turns
that began while no other turn of their case was at work.

`DeskTurn` implements `CaseFile`: the abstract variables are variables of the
detailed module, so the refinement mapping is the identity, and
`CaseFileSpec` is checked by TLC and proved.

### DeskAccess

An action is one query of `request.ts` or `team.ts` with the code up to the next
one. `due`, `pair`, `row` and `by` are the locals a handler carries from one
query to the next. `revoked`, `torn` and `raced` are histories. `Subjects`
bounds whose capabilities the calls are about.

### DeskStorage

An action is one call to the disk. A path is a folder, a name and a number
("report", "report (2)"). `place` and `number` are the name a call is trying,
`beaten` is a history: the calls whose free path another call filled before they
wrote to it. Only
the identity of a document matters, so the document an upload brings is chosen
when it is written. `Picks` bounds the paths that people pick.

### RbacCache and SystemConfig

A reading of the cache has two steps, the query (`Read`) and its continuation
(`Resolve`), and so has a change of permissions, the commit (`Mutate`) and the
clearing (`Clear`); anything may run between. The code compares a generation
counter with the one a reading began in, so the model keeps `fresh`, the
readings begun since the last clearing. An entry may pass its thirty seconds at
any moment.

`SystemConfig` has the real source of permissions: `active`, `roles`, `holds`
and `grants` are the tables. A call is a reader of the cache while it stands at
the gate and a mutation of it once it has committed; `Cache == INSTANCE
RbacCache` maps `granted` to what the tables say and `uncleared` to the calls
between commit and clearing. A transaction has the steps `Open` (what it reads
before the lock), `Check` (the lock on the row of the module and the check under
it), `Commit` and `Clear`; a PATCH that does not change the activity takes no
lock and still writes it. Two histories tell what such a write does:
`overwritten` says that one happened, `overtaken` holds the transactions between
check and commit that one fell among. That `SystemConfig` implements `RbacCache` is checked
(`CacheSpec`) and proved, and the freshness of the gate is carried over through
it.

### GroupSync

A push makes its three readings (holders of the role, members of the group,
accounts) in any order and then adds and removes; a deletion of a role notes the
group (`NoteGroup`), deletes, and goes on as a push with nobody to add. A call
may fail with or without its effect, and a mapping that cannot be read before a
deletion is taken for none (`system-config.ts:596`). `doubt` holds the groups nothing vouches
for, because their world changed or two pushes crossed, and `alone` says that
nothing crossed a push; a push that is alone takes its group out of doubt. A
group is `Watched` when it is not in doubt or such a push works on it.

### AccountSync

A run reads four things in any order, makes a plan (`MakePlan`) and carries it out
entry by entry (`Apply`, `ApplyFails`; a call given up for its time may have taken
effect). The owner of the token and the configured addresses are `Protected`: no
entry is made for them, but the refusal of an empty source (`Blocked`) counts them
among the entitled, as the code does. One entitled owner is therefore enough for a
run to cut off everybody else. `moved` are the people who changed since
the run began, `raised` those made administrators after the administrators were
read, `missed` the administrators the run restored as plain users. `calm` says
that nobody changed since the beginning of the run before the present one, and
that this earlier run reported ok.

### CoworkTurn

`saved` and `shape` are `session.json`, `copy` the session in the memory of each
request. A save is a plain `writeFile` of the whole copy: it empties the file
(`Truncate`) and then writes it (`Fill`), may fail at either (`Fail`) and leave the
file torn, and two saves that overlap may leave a mixture. `saved` is what the file
last held when it was whole, `shape` whether it is whole now; a request opens only
a whole file. A turn makes at most two attempts; the process of an
attempt (`child`) may write, crash, end without a result or run over its time,
and a process told to end may write on for a while. After the second attempt, and
after a save that fails once the model has answered, comes the keyword fallback.
`Delete` takes the session away at any moment. `crossed` (the turns that ran
beside another) and `unsaved` (those a save of which failed) are histories; `By` is
what a turn has in a session.

## Runs

| Run | Expected | What it shows |
| --- | --- | --- |
| `desk_turn` | pass | ownership, registry, billing, beginnings that are told to an end, which turns a stop is sure to reach, `CaseFile` is implemented |
| `turns_end` | pass | a detached turn reaches `finally`; a working case leaves `working`; every request of a Cowork session is answered |
| `stop_misses` | violation | an older turn's `endTurn` deletes the newer turn's controller, and a stop then stops nothing |
| `lost_turn` | violation | a restart within two minutes of the last event leaves a lost turn's case working for ever |
| `desk` | pass | what a granted request stands for, when a request doubles, who removes the last supervisor; which call may destroy which document; deleting destroys none |
| `move_overwrites` | violation | `move` swallows `too-many-copies` and overwrites |
| `upload_overwrites` | violation | two uploads find the same name free, and the second destroys the first's document |
| `system_access` | pass | the lock keeps somebody who reaches the module, only a write without it (or a check it overtook) takes the last one away, the cache serves nothing that was taken away, the calls use it as `RbacCache` says |
| `stale_activity` | violation | a PATCH of a name writes back the activity it read without the lock, and nobody reaches the module |
| `openwebui_sync` | pass | a group is right from the first push nothing crossed until its world changes, is never made worse in passing while a push vouches for it, and catches up when pushes get through; who may be cut off, what a run that reports ok leaves, what agrees is left alone, repeated runs converge |
| `missed_admin` | violation | a run reports ok and leaves an administrator it found `pending` a plain user |
| `cowork_turn` | pass | one answer, what was finished is kept, the answered attempt's files are listed, no file twice, whose words a save may overwrite |

The runs that expect a violation are findings of `PROJECT.json`, with the
sentence of the repository that each one contradicts. Three more findings have no
run of their own: a property of a passing run leaves the case out and names it.

- A query that fails between the two statements of a decision (`request.ts:137`)
  leaves a granted request that gives nothing, and no second decision is accepted;
  `request.ts:85` says that granting really gives. `torn` in `GrantedIsGiven`.
- The group of a deleted role keeps its members for ever when emptying it failed
  (`system-config.ts:620`), since no mapping leads to it any more;
  `openwebui-sync.ts:3-5` says that a missed call never costs consistency. `doubt`
  in `TrustedMirror`.
- What a crashed first attempt left in `artifacts/` counts as old in the second, and
  nobody lists what a timed-out attempt left; `chat-engine.ts:478` speaks of the
  files of the turn. `AnswerListsItsFiles` speaks of the attempt that answered.

The exceptions in the other properties are behaviour that no text of the
repository excludes, or that a comment admits:

- `Damaged` in `NoOrphanWorking`, `HistoryIsClosed` and `WorkSettles`: a restart, a
  failed query, or a failure misread as an abort leaves a case working. (That the
  sweep does not repair every restart is the finding of `lost_turn`.)
- A turn that a failed query hit after its cost event is billed twice, and a
  stopped turn has no estimate for unpriced steps: `ClosedTurnIsBilled` leaves out
  the first, and `Due` says the second as the code does. A `stopped` event may
  follow the end of a turn, and the reverse.
- `raced` in `OneRowUnlessRaced`: two openings at once make two rows. Two decisions,
  or a decision and a revocation, may leave a request that shows something else than
  what `desk.grant` says.
- Two Cowork turns beside each other may overwrite each other's messages
  (`crossed`); `sandbox-store.ts:61` calls the missing lock a known gap (last write
  wins). The same `writeFile` empties the file first: a save that fails may leave
  `session.json` torn, which no later request can read. A request that still runs
  repairs it with its next save; with none left, the session is lost.
- `unsaved` in `AnsweredOnce`: a save that fails after the answer brings a second,
  degraded one.

### Bounds

- `DeskTurn`: two turns and one stop on one case, two model steps, one restart or
  second process, one failed query. Two turns are enough for one to replace the
  other in the registry and for their endings to cross; a stop, a restart and a
  fault each meet every state of both. Cases share nothing but the daily limit,
  which is read once at admission. About 3.8 million states.
- `turns_end`: at the Desk one model step and no fault, to keep the behaviour
  graph small; restarts stay in. In Cowork one turn, since a turn waits for no
  other, and one failed save. About 0.24 million states.
- `desk`, access: two people (one seeded supervisor, one who may be promoted), one
  capability and "other", two calls in flight, two rows. Every hazard here needs
  two calls; two rows let a pair wait twice. Symmetry: slots of calls.
- `desk`, files: one removable folder and "my files", one name with two numbers,
  two documents, two entries of the bin, two calls. Two numbers let a search
  find a free one, skip a taken one, and run out. Symmetry: documents,
  identifiers, calls. About 1.22 million states with the access. `upload_overwrites`
  and `move_overwrites` use the same constants or fewer.
- `system_access`: two people, a system role and another, two calls, one entry in
  the cache. Two calls cross in every way; a cache of one entry has to throw one
  out for the other person. `stale_activity`: one role is enough. Symmetry:
  people and calls. About 1.04 million states.
- `openwebui_sync`, groups: one person, two roles over one group, two pushes, three changes of
  the world (`MaxChanges`). Every step treats people
  alike and none by what it does to another, so one shows what may happen to
  each (two people alone only make a call of a push skipped less often); two roles let a group pass from one to
  the other; three changes suffice to spoil a reading twice and put it right.
- `openwebui_sync`, accounts: two people, a protected one, two changes
  (`MaxEdits`), and every beginning up to who is who. About 1.13 million states with the
  groups. `missed_admin` needs one person and no change. What happens to one person depends on
  others only through the refusal of an empty source and the failure of an
  entry, for which the second is there.
- `cowork_turn`: two turns, one file beside the two that the fallbacks write, two
  failed saves (`MaxFaults`), so that each turn may have one or one of them two.
  Symmetry: turns. About 1.5 million states.

Symmetry stands only in runs without liveness. `CHECK_DEADLOCK FALSE` stands in
every configuration: once all requests are answered and the bounds are used up,
these systems rest.

### Fairness

`DeskTurn` and `CoworkTurn` have a `FairSpec`: weak fairness of what the event
loop runs. In `DeskTurn` that is `Migrate`, each turn's steps and each stop's
steps: a model request ends in an answer or a failed connection, a tool returns
or throws; `runTurn` sets no deadline of its own on the model, so progress rests
on the provider's client. In `CoworkTurn` it is each request's continuations,
the timer of an attempt among them, and nothing is asked of the process: it may
hang, and the timer ends the attempt. Nothing makes a person send a request, a
process restart or a query fail.

`GroupSync` and `AccountSync` assume no fairness at all. Their liveness
properties say what follows *if* synchronisations get through again and again
(`MirrorCatchesUp`, `Converges`), which is what a person who presses the button
does; nothing in the code repeats them by itself. The remaining modules have no
liveness property.

## Proofs

Assumptions are the named `ASSUME`s of the modules; TLC evaluates them on every
run. Every theorem holds for every value of the constants under them.

`DeskTurn`:

- `TypeCorrect`: `TypeOK` is not inductive, because a finished step could pass the
  ceiling; `StepsLeft` says a turn that may still ask the model has a step left.
- `RegistryIsLive`: strengthened by `AbortedHasBegun`; a turn whose signal is
  aborted has begun, so `beginTurn` never registers an aborted one.
- `WorkingIsOwned`: by the registry's invariant, since only a turn that is in the
  registry is aborted, and whoever aborts it writes or replaces the status.
- `BeginningsAreClosed`: a turn that may not tell its ending any more was aborted, and
  whoever aborted it tells one: the turn that replaced it, or the stop, whose
  append is therefore not allowed to depend on the row it closed.
- `ColumnBehindEvents` and `TurnIsBilled`: `ColumnInv` and `BillingInv` say for
  each await of the ending what is already on record and what is still owed.
- `ImplementsCaseFile`: the initial states map, and every action starts, ends or
  keeps each case (`Lawful`). The guard `status='working'` of the closing update
  is the fact that carries the proof.
- `AloneStaysAlone`: `AloneInv` adds that such a turn has begun; when another turn
  begins, `beginTurn` aborts the one in the registry, which is the only one at
  work. `StopStopsWhoBeganAlone` follows: the run `stop_misses` shows a turn that a
  stop does not reach, and this theorem that it can only be one that began while
  a replaced or stopped turn was still on its way out.
- `TurnsComeCloser`: a variant. Each move of a turn leaves fewer awaits before its
  end, for any number of steps, turns and faults. With the fairness that is
  assumed, this is why `TurnCloses` holds; the half that needs no fairness is
  proved.

`DeskAccess`:

- `AccessTypeCorrect`: strengthened by `CallInv`, what a call between two queries
  knows: it marks an existing row, grants only from the catalogue, and settles
  only what was granted. Lemmas on sequences (`MarkOne`, `MarkMany`, `AddOne`)
  say what the three writes do to the table of requests.
- `GrantsAreGiven`: `GivenFrame` states when a step preserves it; each action
  meets that frame.
- `OtherStaysAWish`: the half about grants is typing; the half about requests
  (`OtherWaits`) rests on `CallsGrantFromCatalogue`.
- `OneRowEach`: `OneRowUnlessRaced` counts rows, which the provers handle badly;
  `WaitsOnce` says it of two indices, and `CataloguePairsWaitOnce`
  that a pair waits in one row or is being inserted by one call, unless it raced.
- `LastManagerIsSpared`: an action property; only `SetRole` and `SetActive` can
  take a supervisor away, and `SparesCaller` keeps the one who calls.

`RbacCache` and `SystemConfig`:

- `StoreIsFresh`, `GateAnswersAreFresh`: a reading of the current generation saw
  what the database says, once every change was cleared (`FreshReading`); a
  shared reading is of the current generation and of that person
  (`SharedReading`); who waits for one asked before its query (`Waiting`).
- `StaysReachableUnderTheLock`: one transaction at a time is past its check
  (`OneChecked`), and what it checked still holds when it commits
  (`CheckStillHolds`) unless a write without the lock overtook it; `ReachedSoFar`
  says that none did before the first such write.
- `OnlyOverwritesLoseAccess`: an action property, from the same invariant: a checked commit that nothing overtook keeps somebody who reaches the
  module, also after an earlier write without the lock.
- `CallsUseTheCache`: each step of the composition is a step of `RbacCache` or
  leaves its variables alone. `EntriesStayFresh` and `GateStaysFresh` follow
  from it and the two theorems about `RbacCache`.

`GroupSync`:

- `MirrorIsTrusted`: call a group *watched* when it is not in doubt, or when a
  push that is alone runs on it. Every push that runs on a watched group is sane
  (`MirrorInv`): whom it wants in was entitled and is (`Aims`), and what it saw of
  the members differs from what is there only where its own call or another
  sane one has already done the work (`Progress`). `OneRolePerGroup` is the
  unique key of the mapping.
- `WatchedIsNeverWorse`: an action property from the same invariant. A sane push
  adds only who is entitled and removes only who is not (`SaneStepImproves`),
  so a group is right after a push, and on the way no worse than before.

`AccountSync`:

- `OkMeansAgreement`, `OnlyTheChangedAreCut`, `EmptySourceIsHarmless`: from one
  invariant. `ReadingsFit` is what the readings still say of a person who did
  not change, `PlanFits` that an entry is still right for such a person,
  `RestIsSettled` that whoever needs no entry any more agrees, and
  `SourceWasNotEmpty` that a plan which revokes was made while somebody was
  entitled. `edits' = edits` in the action properties tells the steps of a
  run from those of the world; `CutsByEntry` gives the entry behind a cut.
- `WhatAgreesIsLeftAlone`: from `PlanFits`, since an entry for somebody who did not
  change stands for a difference that is still there.
- The half of `OkMeansAgreement` about two runs in a row: what a run leaves wrong are
  the administrators it restored as plain users. They have access again
  (`MissedHaveAccess`), so a calm second run restores and creates nobody
  (`CalmHolds`) and repairs the rest.

`DeskStorage`:

- `TypeCorrect`: strengthened by `CallFits`, what a call carries to its next disk
  call.
- `DeletingKeeps`: only `Bin` acts for a call that is binning, and it puts into the
  bin what it takes from the disk.
- `OverwritesNeedARace`: `FreeUnlessBeaten` says that the path a call found free
  still is, or that another call filled it, which puts the call among the beaten.
  A landing loses at most the document at its own path (`LandingLosesOne`), so a
  call that is not beaten loses none. That one that is beaten does destroy
  something is the finding of `upload_overwrites`.

`CoworkTurn`:

- `OneAnswerEach`: `AnswersFit` says it of the file and of every copy at once,
  since any copy may become the file.
- `FilesAreListedOnce`: what is registered in the file or in any copy was there
  when an attempt of another turn began, unless the two ran beside each other
  (`SeenBefore`), and what an attempt registers was not there when it began
  (`FreshIsNew`).
- `FinishedStays`: what a turn that ran alone saved is in the file and in the copy of
  everybody who may still save (`Everywhere`), since who opens later reads it; and a
  file that is not whole has a turn that empties it this moment, failed to save it
  or ran beside another (`ShapeInv`).
- `AnswersListTheirFiles`: while a turn that crossed none registers, each new file is
  still to be registered or in its copy, and the reply brings the copy to disk
  (`ListsFor`); no process writes any more once it closed (`ChildrenEnded`), and one
  told to end counts as a crossing (`BesideChild`).
- `OverwritesNeedACrossing`: a running turn's copy has at least what any file or
  copy has of that turn (`OwnIsKept`); it lacks of another turn's only what was
  written beside it (`NothingLacks`), and holds more than the file only of a turn
  that was crossed itself (`NothingLingers`). A save that replaces the file thus
  takes words only from a turn that ran beside another.
- `TurnsComeCloser`: the variant of `CoworkTurnsEnd`. Each move of a turn leaves
  fewer to make or a file less to register.

Five properties are stated beside their proofs and checked by no run, since the
theorem says all a run would: `AloneIsFound`, the two `EveryMoveAdvances`,
`OtherIsNeverGranted` and `EntriesAreFresh`. Of all but the wish for "other" a run
sees a consequence: `StopReachesWhoBeganAlone`, `TurnCloses`, `CoworkTurnsEnd`,
`GateIsFresh`.

Every safety property of the passing runs is proved. Only model-checked are the
five liveness properties (`TurnCloses`, `WorkSettles`, `MirrorCatchesUp`,
`Converges`, `CoworkTurnsEnd`), since fairness and `ENABLED` are out of the
prover's reach, and the findings, which are counterexamples. `CoworkTurnsEnd` asks
of each turn that it is at rest again and again, which means for good, since no
turn moves in a circle. How far concurrent turns may overrun the daily limit is
stated nowhere: it is a sum over a set of turns, whose bound would need induction
over data.

## What the models leave out

- `DeskTurn`: what a tool does inside its step, prompts, texts and attachments,
  the audit log, and the change of the day.
- `DeskAccess`: departments, limits, the audit log, the shell's directory (where
  everybody is active), and calls refused before their first write.
- `DeskStorage`: the gate of the shared shelf, other people's desks, folders moved
  or binned with files in them, two deletions of one path in one millisecond, and
  failures of the disk.
- `RbacCache`: the caches of other processes, which nobody clears and which serve
  an old answer for up to thirty seconds.
- `SystemConfig`: grants to other tiles, scopes, names and translations, and the
  edits of the module's own row, which its guards refuse.
- `GroupSync`: the result noted on a mapping, names of groups, and a group that
  somebody removed by hand, on which every push fails.
- `AccountSync`: the preview, the accounts of the protected people, the creation of
  groups, the pushes of groups at the end of a run, and a timed-out write that takes
  effect later than the next entry.
- `CoworkTurn`: the order and the words of messages, prompts, credentials, streamed
  events, uploads, the rules for projects, a process that makes the directory of a
  deleted session anew, and a crash of the shell (which may tear `session.json` as a
  failed save does, and leaves turns unanswered).

## Not modelled

- Memory, procedures and MCP tools of the Desk change their tables by single
  statements or one transaction; the one count before a write (`memory.ts:111`)
  and what would follow from it are told nowhere, and it is listed as a hazard.
- Evidence, steps, outcomes, case access and the origin of files are readings of
  what `DeskTurn` writes, without state of their own; unit tests cover them.
- The sandbox of a turn is made, used and removed by the one call that owns it;
  what may go wrong lies in the daemon.
- Parsing documents, API clients and Python services are stateless calls over
  HTTP.
- Content Guru and the other tiles store finished results, one statement each.
- Screens, the component library, mock-ups, data sets, tests and type
  definitions have no control a model could add to. They are most of the
  repository's lines, and why the lines the modules map are a small share of
  all: the modules follow the code in which order, failure and concurrency
  matter.

## Where to go next

- `DeskStorage` with two desks and the shared shelf, whose gate asks where a
  restored file will land before `restore` asks again (`files.ts:53`).
- Memory with its limit, counted before the write (`memory.ts:111`).
- `RbacCache` with a second process, whose cache nobody clears: how long an old
  answer may live.
- The pairing of tool starts and ends in the evidence of a turn that a restart
  cut off (`runtime.ts:266`).
