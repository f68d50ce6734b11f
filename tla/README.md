# A formal model of the Team Vault plugin

TLA+ modules that model the synchronisation core of the Team Vault plugin for
Obsidian, the TLC configurations that check them on small instances, and
theorems about them checked by TLAPS. The reference is the TypeScript under
`src/src/`; paths below are relative to that directory, and a bare line number
is one of `sync/engine.ts`.

    tlc -config MCOpDelivery_delivery.cfg MCOpDelivery.tla     a run
    tlapm OpDeliveryProofs.tla                                 the proofs

`PROJECT.json` lists the runs, the source lines behind every definition, the
hazards the properties are about, and for each property a mutated definition
that breaks it. The mutated definitions stand in the modules right before the
definition they mutate, marked "mutant"; no specification uses them.

## 1. Inventory

The plugin is one process with one JavaScript thread. Everything hard in it
comes from `await`: each function is cut into steps by its awaits, and between
two of them any other function, timer, socket event or vault event may run.
Beside the interleavings there are a server that answers late, twice or not at
all, a process that may end between any two storage calls, and a next instance
of the plugin that may start before the last one is gone.

| Component | State | Operations | Hard behaviour | What makes it correct |
|---|---|---|---|---|
| **Operation delivery** `sync/engine.ts` (`sendOp`, `onSocketConnect`, `settleUnanswered`, the drain), `sync/reconnect.ts` | the operations in flight, the gate (`queueFirst`, `queueStuck`, `pumpFailures`), the drain and its passes, the connection (`link`) | send live, record, resend from the queue, ask `ops:status`, hand the queue over, halt and reopen | lost answers, connection dropping at any await, `busy`, failed writes, crash between write and answer | each change applied at most once; written before sent; nothing lost; the order after `busy`; everything delivered in the end |
| **Operation log** `sync/operation-log.ts` | the queue, in flight operations, opIds and their generations, file meta, clocks, one JSON document | enqueue, take in flight, dequeue, rotate ids, `persistNow`, debounced write, load, close | a write is four storage calls; the document changes while it is written; a crash between two calls | what it called written can be read back, always |
| **Hand-over between instances** `integration/plugin-teardown.ts`, `integration/obsidian-log-storage.ts`, `main.ts` | who owns `state.json`, the teardown under way | `teardownPlugin`, `claimStateFile`, `awaitPreviousTeardown` | two instances at once, requests that settle after `close()`, a teardown that outlasts the wait | the newer instance starts from everything acknowledged; nothing of the older gets into its file |
| **Engine roster** `sync/engine-manager.ts`, `sync/stop-fence.ts`, `settings/tab.ts` | the engine of each binding, restarts, pause | `refreshFromSettings`, `restartEngine`, `dropEngine`, `pause`, `resume`, `dispatchVaultEvent`, `stop` | refreshes run side by side over settings that change under them | no engine runs on forgotten; every enabled binding has one; no vault event and no local state is lost |
| **Local changes** `sync/engine.ts` (`handleLocalCreate`, `sendLocalDelete`, `handleLocalRename`, `replayPending`, ...) | claims, waits, file index, queue | create, delete, rename, each before the previous one was answered; collapse and replay of the queue | a chain of renames of one file, a delete joining a create | the server ends with the files this device has, under their names |
| **Catch-up and own operations** `sync/engine.ts`, `sync/vector-clock.ts` | vector clock, own ids, `appliedLive`, the listing | join, refresh of the index, rows of the catch-up, `adoptOwnCounter`, `forgetAppliedLive` | three sources tell of one rename; answers lost between them | no operation taken for another device's, no rename undone by an older one |
| **Remote operations on the vault** `sync/engine.ts`, `sync/vault-adapter.ts` | names waited for, path locks, copies asked about | create, rename, delete on disk | swaps and cycles of names; files in the way | the vault ends as the server has it, no content is lost, nobody waits for ever |
| **Notes and documents** `sync/engine.ts`, `crdt/*` | Yjs documents and their stores by name, fold markers and bases, marks of writes, snapshots | fold a save, write a snapshot, merge a catch-up, move a history with its note | a save and a remote update over the same await; a name that changes hands | no text typed is lost or doubled; a history stays with its note |
| **Attachments and conflicts** `sync/engine.ts`, `sync/conflict.ts`, `client/api.ts` | versions and hashes | upload, download, ask the user | both sides changed while the question is open; an update that landed without its answer | a version saved is not lost; the queue replaces no version of a teammate's unasked |
| **Echo suppression** `watcher/*` | markers with counts and expiry, what each watcher told | mark, take, expire, note, debounce | an echo that comes late; two watchers of one disk | a remote change is not sent back, a local one never swallowed |
| **Log file** `utils/file-log-sink.ts` | `sync.log` and its archives | append, rotate, clear | a call of the rotation fails | the files tell of the last lines without a gap |
| **Socket client** `client/socket.ts` | listeners, pending acks | `emitWithAck`, handshake | an answer on another connection | an answer settles the request of its own connection only |
| **Paths, settings, identity, UI, texts** | see `PROJECT.json` | | | |

Calls go from the watchers to the roster (`dispatchVaultEvent`), to an engine
(`handleVaultEvent`), which records the change in the operation log and emits
on the socket; answers and remote events come back as callbacks. The engines
share one log, one document manager and one set of echo markers. The settings
tab and a binding that has synced save the settings, and every save makes the
roster reconcile.

## 2. Modules

| Module | Models | Built on |
|---|---|---|
| `DurableQueue` | what the queue promises, with no protocol: a change recorded on disk ends applied, or given up after a refusal | - |
| `OpDelivery` | operation delivery over the log: live sends, connect flow, drain, gate, the server | implements `DurableQueue` (`QueueSpec`) |
| `OpDeliveryProofs` | theorems about `OpDelivery` | `OpDelivery`, TLAPS |
| `StateFile` | the log's document on the storage, call by call, over several instances of the plugin | - |
| `StateFileProofs` | theorems about `StateFile` | `StateFile`, TLAPS |
| `EngineManager` | the roster of engines under concurrent refreshes | - |
| `EngineManagerProofs` | theorems about `EngineManager`: no engine at large; the roster follows the settings, pauses, events | `EngineManager`, TLAPS |
| `FileNames` | the names of files: handlers of local and remote creates, renames and deletes, the queue and its replay, the index | - |
| `CatchUp` | a join: vector clock, own operations, the listing, the catch-up's renames, operations applied live | - |
| `CatchUpProofs` | theorems about `CatchUp`: own operations come back as own; no teammate's rename undoes a later one of the user's | `CatchUp`, TLAPS |
| `NamesProofs` | more of them: with nothing under way the names agree | `CatchUpProofs` |
| `NoteFold` | one note's text: disk, document, store, server | - |
| `NoteFoldProofs` | theorems about `NoteFold`: nothing typed lost; what a fold takes for the user's edit | `NoteFold`, TLAPS |
| `DocStores` | the documents' stores by name, while names change hands | - |
| `Attachments` | the versions of one attachment: saves, teammates' versions, the question of a conflict, the queue | - |
| `AttachmentsProofs` | theorems about `Attachments` | `Attachments`, TLAPS |
| `Watchers` | the two watchers, the echo markers, the debounce | - |
| `DeviceProofs` | theorems about `Watchers` and `LogFile` | both, TLAPS |
| `LogFile` | `sync.log` and its rotation | - |
| `MCOpDelivery`, `MCLive`, `MCStateFile`, `MCEngineManager`, `MCNoteFold` | the small instances TLC checks | the module named |
| `MCJoins` | what joins bring | `DocStores`, `CatchUp`, `Attachments` |
| `MCDevice` | what happens on the device | `FileNames`, `Watchers`, `LogFile` |

`MCJoins` and `MCDevice` check several modules in one run: a variable `part`,
chosen in the initial state, says which of them moves. The parts share no
state; nothing is composed by it but the list of what is checked.

### OpDelivery

One local change is one file operation on its way to the server. `stage` says
where it is: recorded as in flight, on the wire (`sent` live, `replayed` from
the queue), answered and being recorded, `queued`, or out of the log (`done`
when the server applied it, `dropped` when it was refused). `disk`, `snap`, `writing` and
`written` are `state.json` and the generations by which `operation-log.ts`
knows what is on it. `link` is how far `onSocketConnect` has got: the rows of
`ops:status` asked for, settled, written, the queue handed over. `gate` and
`drain` are `queueFirst` with its counters and `runDrain` with the pass it is
on. The network is a set of packets, each with the connection it belongs to
and its opId: a packet of a connection that is gone may still reach the
server, late. The server applies an id once, voids an id it is asked about and
does not know, answers on the connection of the packet, and bars a connection
after `busy` until its own queue has passed.

One action is the code between two awaits: `Take` is `sendOp` up to its write,
`SendRecorded` and `SendUnwritten` what follows the write, `LiveOk`,
`LiveGone`, `LiveAgain` the answer, `RecordLive` and `RecordLiveFails` the
write of the result. `CrashAndRestart` throws away the memory, and what a
write under way had in hand either is on the disk or is not.

### StateFile

In `OpDelivery` a write of the document is one step. `StateFile` opens it: the
dirty flag and the debounce timer, the chain of writes, `persistNow` and its
callers, then `write(tmp)` (truncate, fill), `exists`, `remove`, `rename`, and
the fallback that writes in place. Every one of them may fail, and the process
may end between any two. A second instance may start while the first tears
down; `claimStateFile` makes it the owner, and `load` is four steps of its
own. A document is the set of changes it records. `world`, chosen in the
initial state, says which faults a behaviour may have.

### EngineManager

`task` holds the refreshes under way, each with what it read of the settings
before its first await (`todo`, `known`, `addr`), where it is, and which engine
it waits for. `roster`, `restart` and `leaving` are the maps of
`EngineManager`; `phase` is how far each engine's `stop()` has got. Answers
that wake a refresh are handled before the next outside event (`Turn`), as the
event loop does. The user's edits follow the settings tab: the toggle changes
the entry in place, a removal replaces the array, so that a refresh under way
goes on over the old one (`ghost`). `hasty` is a history variable: true once a
binding was switched on or added while a refresh was under way, or an entry
was replaced that a refresh has still to come to.

### FileNames

`disk`, the engine `e` (its index by name and by id, the maps of names asked
for, created, moved, waited for, the queue), the socket both ways, the server.
A handler under way is a task with the calls it still has to make; a call is
the code between two awaits, named after its function. A handler may take the
promise of another (`on`): a rename waits for the create it follows, a second
delete joins the first. `Urgent` runs what awaits nothing before anything
else, in the order of the microtasks. The queue is replayed by a drain that is
a task as well, after `collapseQueuedRenames` (`Collapsed`, over pairs of
entries, without recursion). A local rename asks for the locks of both names for
the note's history (`Renaming`), goes on to its folder check and to the server
beside it, and waits for the history before it follows the server's name or lets
the old one go (`HistoryMoves`). All files are notes here: an attachment has no
history and does not wait.

The content of a file is a number, and `meant` the contents nobody deleted.
`e.windows` is a history: the names of situations met in which the code, as
read, does not keep what the properties say (section 7). `IndexAgrees`,
`SettledTree` and `NothingLost` are about behaviours in which it is empty.

### CatchUp

One file and its names, the user's renames of it and changes of other files, a
teammate's renames. `mem` is the engine and its log, `file` is `state.json`,
`project` the server with its journal, a row per operation. `mem.flow` is the
connect flow: what `ops:status` still has to settle (`asked`), the join and
the listing on their way together, and the rows of the catch-up that are still
to be looked at (`todo`), earliest first. The clock is a pair of counters, as `adoptOwnCounter` takes one and a
row's merge both. The server's rule for a catch-up (a row is returned when
some counter of it is greater than the join's) is the one of the test kit's
server (`tests/engine-test-kit.ts`, `catchupFor`).

### NoteFold

A text says how often each line is in it; a document is a set of insertions
and the set of those deleted, merged by union. `job` is the handler that has
the lock of the name: a fold after a save, or a snapshot, step by step from
reading the disk to writing it. `store` and `saved` are what survives a crash,
y-indexeddb and `state.json`, each with its own delay. `Merge3` is what
`text-merge.ts` and `text-diff.ts` do to lines, as one function on counts.

### DocStores

`path` is the index, `docMoves` the names a renamed note's history still has
to go through, `cache` and `store` the document and the database under each
name, `clearing` the deletes of databases under way. `queue` holds the tasks
in the order in which they asked for their names, each with its step:
opening, loading, checking the lineage, starting over, moving, sending. An
operation knows its note, the note's life (a note created again under its id
is a new life of it) and who made it.

### Attachments

A version is a number. `copy` is the file, `aside` the copies a conflict left,
`engine` the index and the log in memory, `doc` `state.json`. Each refresh of
the index makes a new entry (`engine.known`), and a handler goes on with the
one it found: `meta`. A handler is a job whose `step` is what it does next:
look at the save, upload, wait for the answer; or download, compare, ask, move
the record, write the file. `conn` is the connect flow: `ops:status` settled,
joined, the listing read, the rows or the listing's check one by one, then the
drain. `asks` and `answers` are the socket, `remote` the server with what it
was told by which operation. `tale` is history: the version saved last and not
given up, what the server has ever had, what the user chose against.

### Watchers and LogFile

`Watchers`: time passes in ticks, every marker, note and debounced call has
the ticks it has left. Obsidian's events come with the change, chokidar's some
ticks after it, and chokidar compares what it saw last with what is there, so
that it may tell several changes as one, or a replaced file as two. The engine
marks, does its operation within `OwnLate` ticks, or fails and takes the
markers back. `LogFile`: lines of two lengths, the four calls of the storage,
failures and ends of the process between any two of them.

## 3. Runs

| Run | Module | Bounds | States | Shows |
|---|---|---|---|---|
| `delivery` | OpDelivery | 2 changes (one a question), 2 connections, 1 crash, failing writes, every outcome | 1,190,000 | at most one application of a change; write-ahead; `OpDelivery` implements `DurableQueue` |
| `live` | OpDelivery | 2 changes, 2 connections, 1 crash, one pass of a drain; `busy`, or `busy` and failed uploads of the drain | 469,000 | the gate reopens, also where the drain gives up at its limit of tries or of passes; nothing overtakes what was refused busy; where no upload fails, every change on disk is applied in the end |
| `upload` | OpDelivery | 2 changes, 1 connection, `busy`, `upload` | violated | finding 1 |
| `disk` | StateFile | three worlds: 3 changes, no fault; 3 changes, 1 crash, 2 failing calls; 2 changes, slow teardown, late requests | 175,000 | what was reported written is readable; one fault costs nothing; nothing of the older instance gets into the newer one's file |
| `overlap` | StateFile | 3 changes, 2 instances, late requests | violated | finding 2 |
| `recrash` | StateFile | 3 changes, 2 instances, 1 crash | violated | finding 3 |
| `roster` | EngineManager | 1 or 2 bindings, 2 refreshes at once, 4 engines, 3 changes of the settings, 1 vault event | 1,880,000 | no engine at large, none missing, pause holds, events and local state kept |
| `toggle` | EngineManager | the same | violated | finding 4 |
| `notes` | NoteFold | 1 save, 1 edit of a teammate's, 1 crash or failing call, 2 tries of a fold, both typing at one place | 1,361,000 | nothing typed lost, nothing taken back, nothing doubled, all agree in the end |
| `reinserted` | NoteFold | the same | violated | finding 5 |
| `joins` | DocStores, CatchUp, Attachments | five budgets of renames, deletes, edits and crashes over 2 notes and 2 names; five allowances of renames, drops and crashes over 3 names; four turns of saves, drops and crashes over one attachment | 5,220,000 | a document's store holds its note's operations only; no rename undone; own operations come back as own; no version of an attachment lost, none replaced unasked |
| `device` | FileNames, Watchers, LogFile | FileNames: 2 names, 3 changes here, or 2 here and 2 of a teammate's; Watchers: 2 names, 3 operations; LogFile: 2 archives, 6 lines, 2 faults | 1,620,000 | one tree on both sides, nothing lost, nobody waits for ever; echoes; the log's last lines |

Every run says `CHECK_DEADLOCK FALSE`: with its bounds used up the system
stops, and idles when nothing is left to do. Where standing still is the
hazard, a property of its own asks about it (`NoStandstill`).

### Bounds

- `MaxConnects`: a late packet needs a connection that is gone and one that is
  there. The last connection stays up, or no run could end.
- `MaxCrashes` = 1: a crash and a lost connection meet; a second crash finds
  the same kinds of states, since all memory is rebuilt from the file.
- `MaxIds` = 2: one rotation of an opId; joins are not refused any more after.
- `QueueFailuresMax` is 2 where the code has 3: a failed try that is not the last and
  the last one. `DrainPassesMax` is 2 in `delivery`, where no drain comes to it, and
  1 in `live`, where the code has 50. `live` comes to both limits: a drain that
  failed too often leaves the gate open and the queue stuck, and one that had all
  its passes leaves what is still queued to the next try. `SentInOrder` is proved
  for any number of either.
- `MaxJobs` = 2: a write under way and one behind it; more writes in the chain
  behave as the second.
- `MaxInstances` = 2: the hand-over is between two.
- `MaxChanges` in `EngineManager` is 3 (a switch off, on and an edit of the
  server), `MaxSaves` bounds only the saves that a binding's sync begins. Four
  engines are enough for two bindings and two refreshes, since a refresh holds
  at most one engine that the roster has not, and only engines stopped for good
  are reused. With one binding all properties also hold for four changes.
- `Busy` in `FileNames`: how many changes the user and a teammate make. Three
  changes of two names give a create, rename and delete of one file in any
  order; two on either side give a name taken from both sides, and files
  waiting for each other. `Spare` are the names files are put aside under, one
  for each that may have to be.
- `Allowances` in `CatchUp`: each counts renames here, changes of other files,
  a teammate's renames, drops, crashes and refused joins. A drop and a crash
  together give an operation settled by `ops:status` whose row comes only with
  the second join.
- `Budgets` in `DocStores`: two names are enough for a name that changes hands
  and comes back; `Lives` = 2: a note created again once.
- `FoldAttempts` = 2 where the code has more: the try that is not last and the
  last one.
- `Ttl`, `RenameTtl`, `NoteFor`, `Pause`, `FsPause` and `FsLate` are ticks in
  the order of the code's times, an engine's own write being told sooner than
  its marker expires. `Ttl` of a delete and a write are one.
- `MaxSize` = 2 and lengths 1 and 3: a line that fits, one that does not, and
  one longer than a file; two archives are the first and the last of the chain.

- `Turns` in `Attachments`: a save, a teammate's and a drop, or a crash, cross
  in every step of the handlers; two saves and a crash give an update that
  landed, whose answer is lost, under a later save. The properties also hold
  with one of each, and with two versions of either side and no fault.

### Fairness

`OpDelivery`: weak fairness on what the event loop, the disk and socket.io do
by themselves - writes, reconnecting (socket.io retries for ever), the steps of
the connect flow and of the drain, the timer of the next try, an answer to a
request that reached the server. Strong fairness only on the server applying an
operation: a busy server gets to it if asked often enough. There is none on
losing packets, dropping connections, crashes, or the user making changes.
`StateFile`: the debounce timer fires and a storage call answers.
`NoteFold`: weak fairness on the handlers' steps and the two delayed writes,
on the server taking what was sent, on a lost connection coming back and a
plugin that ended being started again; none on saves, edits, drops or crashes.
`EngineManager` has no liveness property: its `stop()` waits have no bound in
the code, and the safety properties say what must hold whenever they end. In
`FileNames` the question is a safety property, `NoStandstill`: the handlers
never all wait for each other.

## 4. Properties

`OpDelivery`
- `AtMostOnce`: the server never applies a change under two ids.
- `WriteAhead`: an id the server has acted on, or still may, unknown to the
  device, is the one `state.json` has for the change.
- `NoVoidedAnswer`: the engine never meets the answer `op_voided`.
- `InOrder`: while `queueFirst` is set, a change goes out only after all that
  were queued before it.
- `QueueSpec`: refinement of `DurableQueue`.
- `Delivered`: a change on disk is applied in the end. `live` checks it as
  `DeliveredUnhurt`, of the behaviours in which no upload fails: after one that does
  the queue may be left to a next connection, and the last one stays up.
- `GateReopens`: a gate that closed opens again, the queue sent or given up.

In `live` the uploads of the drain may fail, those of live changes do not:
`InOrder` does not hold then (finding 1, the run `upload`).

`StateFile`
- `RecoverableUnhurt`: while no call failed and no process ended, whatever
  `persistNow` reported, and whatever the generations count as written, is
  found by a load at any moment - a crash at that moment included. Its parts
  are `Recoverable` and `WrittenIsThere`.
- `OneFaultSafe`: a single crash or failed call loses no such change at the
  next start, while no instance is torn down so slowly that the next one stops
  waiting, and no request settles after the hand-over (`InTurn`; `overlap`). `CleanIsWritten`: a log without unwritten changes is on disk.
- `StraysStayOut`: what an older instance changes after the hand-over never
  reaches the file. `Persisted`: every change gets to the disk.

`EngineManager`
- `NoneAtLarge`: an engine that has not stopped is in the roster, or one the
  unload waits for. Hence no binding has two engines at work on its files.
- `DownIsDown`: after the unload every engine has stopped, whatever refreshes
  were under way.
- `RosterFollowsInTime`: with nothing under way, exactly the bindings that are
  on have an engine, on the server's present address - as long as no refresh
  missed a change (`hasty`); without that condition it is finding 4.
- `PauseHolds`, `EventsKept`, `PurgedIfRemoved`.

`FileNames`
- `SettledTree`: with nothing under way, asked or queued, the disk, the index
  and the server have the same files under the same names.
- `NothingLost`: a content nobody deleted is on the disk or on the server, at
  every moment.
- `IndexAgrees`: the index by name and the index by id tell the same, and a
  name is waited for by one file.
- `NoStandstill`: while a handler is unfinished on an idle connection, one of
  them can go on.

`CatchUp`
- `OwnNotTaken`: a row of an operation of this device is never taken for one
  of another device with the same identity.
- `NothingUndone`: a row of a catch-up never moves a file back from a name it
  got by a later rename.
- `NamesAgree`: with nothing under way the file has here the name it has on
  the server.

`DocStores`
- `OnlyItsOwn`: what the engine sends to the server's document of a note is of
  that note, and of its present life.
- `FoldedIsHeld`: a note whose marker says its text is folded has a document
  with that text.

`NoteFold`
- `NothingTypedLost`: a line saved here and not removed since is on the disk,
  in the document, or on the server.
- `KeepsTheirs`: a fold deletes no line that a teammate wrote and nobody here
  removed. `NotDoubled`: no line is inserted twice. Both speak of folds that found
  the text folded last, no crash having lost the record of one (windows `coarse`
  and `torn`, section 7; `NotDoubled` without `overtaken` as well). `reinserted` is
  the same as `NotDoubled` without its windows.
- `Converges`: in the end the disk, the document and the server agree.

`Attachments`
- `VersionKept`: a version saved here stands in the vault or has been on the
  server until the user gives it up; at rest, it stands aside or has been on
  the server.
- `TheirsAsked`: what the queue sends after a catch-up replaces no teammate's
  version that catch-up was told of, unless it was taken here (or even sent
  from here) or the user chose against it.

`Watchers` and `LogFile`
- `EchoesStay`: a change the engine made is never passed back to it.
  `InStep`: when all is quiet, the engine was told what the disk became.
- `LastLinesKept`: the files hold the last lines written without a gap, and
  more of them than one file holds where there are archives.

## 5. Proofs

Each theorem holds for every number of changes, connections, crashes, bindings,
engines, refreshes, names, instances and ticks, and for every value of the other
constants that satisfies the module's assumption. The inductive invariants are
proved here and are no invariant of a run: TLC had checked each of them on small
instances before it was proved, on as many states as the table says.

| Module | Inductive invariant | Checked first | Theorems about properties of the runs |
|---|---|---|---|
| `OpDeliveryProofs` | `IInv` | 1,190,000 | `AppliedAtMostOnce`, `WrittenAhead`, `VoidedNeverAnswered`, `ImplementsQueue` (and `TypesHold`) |
| | `OInv` beside it | 6,870,000 | `SentInOrder` |
| `StateFileProofs` | `IInv` | 236,000; 104,000 with three instances | `TypesHold`, `StraysStayOutHolds`, `CleanIsWrittenHolds`, `OneFaultSafeHolds`, `RecoverableUnhurtHolds` |
| `EngineManagerProofs` | `IInv` | 1,880,000 | `NoEngineAtLarge`, `DownForGood` |
| | `RInv` beside it | 1,880,000 | `RosterFollowsAlways`, `PauseHoldsAlways`, `EventsKeptAlways`, `PurgedIfRemovedAlways` |
| `DeviceProofs` | `WInv` | 564,000 | `EchoesStayAlways`, `InStepAlways` |
| | `LogInv` | 162,000 | `LastLinesKeptAlways` |
| `CatchUpProofs` | `CatchUpInv` | 693,000 | `OwnNotTakenAlways` (and `CatchUpTypesAlways`, a part of `TypesOK` of `joins`) |
| | `UInv` beside it | 693,000 | `NothingUndoneAlways` |
| `NamesProofs` | `NInv` beside both | 6,000,000 | `NamesAgreeAlways` |
| `AttachmentsProofs` | `AInv` | 3,480,000 | `VersionKeptAlways` |
| | `CInv` beside it | 3,480,000 | `TheirsAskedAlways` |
| `NoteFoldProofs` | `NInv` | 20,600,000 | `NothingTypedLostAlways`, `NoteTypesAlways` |
| | `TInv` beside it | 20,600,000 | `KeepsTheirsAlways`, `NotDoubledAlways` |

Each proof has one lemma for each part of the invariant, or for each action,
whichever the actions disturb less; where an action does more than one line
says, a lemma first says what it does, and the later steps cite that.

### Operation delivery

`AtMostOnce` is not inductive: that a second id is never applied depends on what
the file says, what is on the wire and what was voided. `IInv` adds those parts:

- `IdsDrawn`: ids are drawn before they are used, so a new one is in nobody's hands;
- `FileFollowsLog`: what the generations count as written is on disk, and
  survives the write under way;
- `OneIdOut`: per change one id is out at most, and memory, file and write
  under way agree on it;
- `OneExchange`: a packet of the open connection has its entry waiting, and at
  most one answer;
- `AskedFirst`: what may be out is asked about before anything is sent;
- `LeftForAReason`: an entry leaves the log applied or refused.

`ImplementsQueue` maps initial states to initial states of `DurableQueue`, and
every step to a step of it or a stutter.

`SentInOrder` says `InOrder` under conditions, because TLC has a counterexample
without each of them (finding 1): no write fails and nothing is refused but
`busy` or for good (`Smooth`, on the constants), and no drain gives up, after
`DRAIN_PASSES_MAX` passes, while live operations are out (`~GivesUpEarly`, on the
steps). In `live` two changes are too few for the second to matter, and for the uploads of the
drain that fail there. The invariant is about places in the queue. A
change refused may go back to the queue at any time, so what is sent must be
older than all that may still come back: a pass is older than what is out and
than what is queued beside it (`PassBefore`), the queue is older than what went
out at once (`QueueBefore`), what has no connection is not out (`SentLater`), a
drain works for the connection it was started by only (`OwnDrain`), and a write
that has an entry has the older ones (`WrittenInOrder`), so that entries come out
of `recorded` in their order.

### The file

Three layers. Of each instance by itself: its writes are a chain, one at work and
those that wait, and every waiting call of `persistNow` has one that is to come
(`Chain`, `Closed`, `Fresh`). Of instances among each other: the last one started has the
file, and what an older one still does is behind an `ownsFile` that says no
(`Turns`, `Strays`, hence `StraysStayOut`, in every world). And, where every start waits for the
teardown before it (`InTurn`), what is on the storage at each step of a write
(`Storage`): which of `state.json` and its `.tmp` is complete, half written or not
there, and whose, however many faults there were. With one fault at most (`Kept`) what
was acknowledged is in the document last written, which a load finds or the write
under way replaces. A second fault may take both files: finding 3.

The first attempt stated `OneFaultSafe` for a teardown slower than the next
instance waits for as well. It did not go through, and TLC confirmed why: finding 2
without any request that settles late.

### The roster

`NoneAtLarge` needs that the roster stays empty once the plugin unloads
(`RosterEmptied`), that `stop()` waits only then (`LeftInTime`), and that a
restart always has the engine it replaces, so that it cannot spawn into an empty
roster (`RestartHasEngine`).

`RInv` goes on from there, in three layers. Engines: no two bindings have one in
common (`Apart`), each that is not on has a refresh waiting for it (`Attended`), and
no two refreshes restart the same one (`Restarts`, `Held`, `HeldApart`); with
`Off` and `Told`, that is `PauseHolds`. The order of steps: one walk at a time goes on
(`OneWalk`), and an event that was woken goes before the walk that could take its
engine away again (`Wakes`); both are what `Turn` is for. What each refresh
knows of the settings, unless one missed a change (`hasty`): its list has every
binding that is to have an engine (`Knows`, `Covers`), it drops none of those
(`Spares`) and restarts none that is dropped meanwhile (`Renews`). Then every binding
has its engine or a refresh that will give it one (`Followed`), which at rest is
`RosterFollowsInTime`.

### Echoes

Counting and time. A marker is set for as many events as an operation may come
back as: one at once, and as many as chokidar's next look may tell, which is
`Looks` of the version it saw and the one it finds, 2 where a file was replaced by
another. `Looks` obeys the triangle inequality, so markers set for each operation
of a series suffice for one look at the result (`Marked`). Time: an operation is over in
`OwnLate` ticks and chokidar looks within `FsLate` of the change (`InTime`), so that a marker of
`Ttl` ticks is there when it does; that is `WatchersAssumption`: the code has no
bound on either, but its TTL of 2 s (60 s for a rename, `recently-applied.ts:26` and 45-52)
is chosen so. A rename is expected only while the engine is
at it (`OnlyOwn`, `Awaited`). `ToBeTold` says, for each version the engine does not know,
who will tell it: a debounced call, a look of chokidar's to come, or nobody, the
name being `silenced`.

### The last lines

`LastLinesKept` says of each file how many stored lines come before its own (`EndToEnd`),
and not that the files put together end the sequence of stored lines: the same, and no induction
is needed. Half-way through a rotation one file is empty, the one the next is moved to
(`Hole`), and moving it there takes nothing from the count. With no failure all newer
archives are there when one is, and the rotation begins with lines in the file
(`Unbroken`), so the oldest archive is only dropped with all of them full. A failure in
a rotation may leave a hole, and the next rotation drops the oldest archive again: that is the
archive more the property grants.

### Own operations

The argument follows an operation from its record to the row a join returns. While
it is out it is in the log and in `state.json` (`Carried`). When it leaves the log
its counter is recorded, and the teammate's was there when it was sent, so the
recorded clock covers its row (`Recorded`). A join is sent with a clock that covers
all rows but those this device recognises as its own (`Joining`), hence what is
returned of its own is recognised, and stays so until the row is looked at (`Shown`). A
crash may leave `state.json` with less of the teammate's counters than an operation
carried: those are `past.ahead`, the window of section 7.

The attempt found `Collapsed` written with a `CASE` whose arms overlapped: a chain
of renames back to its first name satisfied two of them. It is an `IF` now, in the order of
`collapseQueuedRenames`.

### Renames undone

Three things move the file for a teammate, and for each the argument says why no
rename of the user's can have come later. A broadcast: a rename the server had after it
is in the log still when the broadcast comes, because its answer comes behind (`Ordered`,
`Pending`); a broadcast is taken up only if the log has no rename, and then the count
tells of one made before it moves the file (`Held`). The listing: what was renamed before it was
asked for is queued until the refresh looks, and none is on the server after what the
listing was read from (`Plain`, `Asked`). A row of the catch-up: either it was applied live, and then it is
known as such, or a clock that a catch-up was asked from covers it, so that none returns it
(`Remembered`); or it is of after the listing, and the count and what the refresh found
here tell (`Refreshed`). All three need that broadcasts come only between a join and
the next loss of the room (`Quiet`): what is settled before a join has none on its way.

The theorem says of rows of a catch-up what the property does: those no guard is over
(`Unguarded`, section 7) do not count, and TLC has the counterexample if they do.

### Names agreed

A file's name here and on the server may differ for long; what has to be shown is that
whatever will make them the same is never lost. Three things can (`Settling`): a rename
of the user's that has not landed, a broadcast of the last rename that comes or is in hand,
or that they are the same already. The first does, as the user's renames go out and land
in turn (`Turns`) and the last of them names the file as it stands here (`MemEnds`; after a
restart, `FileEnds`); a chain the refresh collapses leads where its last rename did, or back to
where it started. The second does, as broadcasts come in the order of their rows, each with all
later ones behind it while the device is in the room (`InLine`, `Closed`). When the listing
is read and the refresh over, one of the three holds, or the last rename is in the catch-up and
its row will move the file (`Due`): it is there, as a join's clock covers no row made after the
listing was read (`JoinClocks`, from a count of the teammate's renames, `Counters`), and a
rename after the listing is applied, on its way or in the catch-up (`Accounted`); and no guard
of `applyServerOperation` skips it, as the listing's name is the one the first rename
after it starts from (`ListedName`) and that one is in the catch-up too (`GatheredAll`).
A rename the user makes while the listing is awaited keeps the first of the three going until it
lands (`NewOut`, `MatchedBefore`).

Each window of the property is one of these steps: `replayed` a row that moves the file
though its guards know less than `Due` asks; `outdated` a broadcast that the listing is
older than, so that the refresh ends in none of the three.

### Versions

A version saved last that is neither on the server nor put aside is the copy's
(`Standing`), and no handler about to write the file has compared it with an older copy,
unless the windows `overlooked` or `twice` were met (`GivenUp`). Somebody has still to bring it to
the server (`Cared`): the watcher that has yet to tell of the save, a handler that
looks at it, sends it or waits for its answer, or an entry of the queue no drain has
taken yet; only a crash before the save is queued breaks that (`untold`). What is recorded,
in the index, the log, `state.json`, on the wire, is a version the server has had
(`Recorded`). And an answer tells of the version that was sent: each handler waits
for an operation of its own, and what is under way for it is of that version (`Waits`,
`Sent`, `Drains`, `Ops`), so that a record after an answer is of the version that landed. At
rest nobody is left to care, hence the version is safe, which is `VersionKept`.

### What a catch-up was told of

A teammate's last version, while it is the server's and was not sent from here, is owed
a question before the queue is drained (`Owed`). `CInv` says that it gets one: what the
vector clock covers is recorded here or was chosen against (`Dealt`), and so is what
this connection's catch-up covers, or one of its rows or the handler of one is still to look
at it (`Rows`); a handler of an older connection, which will have it covered when it is through, is
about to deal with it too (`Covering`). A catch-up cut short takes in the clock first and has
the listing checked after, so the clock may be ahead until that check is through (`Clock`);
that is where `unchecked` comes from, in memory by a drop and in `state.json` by a write.
`outlived` is the handler that has its row covered and leaves the version.

What is dealt with stays so, for the record moves to another version only by an
answer to an update, by an update found landed, or by a handler that writes a version it
fetched. Once the version is covered there are none of the first two (`Answered`): both are of
updates the server took, hence before the teammate's save, and a join begins with
nothing left to be answered. And every handler that holds the index's entry holds
this version (`Meant`): it has looked since the join, which made the entry new. So
what the drain sends is based on the version, or the user chose against it (`Bases`),
and what it replaces then is no version the last catch-up reported
(`Reported`) unless that was dealt with.

The first statement was false, by steps the bounds of the run leave out. An
older handler may itself send the version the teammate made, back from the disk; what
a drain replaces then was taken here, and the property says so now. And an answer
to an update from before the teammate's save came after the join's and moved the record; the
server answers in the order it takes things in, which `JoinAttachments` now has.

### Typed text

A line saved here is on disk or safe: in the store or on the server, which no crash
takes away (`Standing`). What could break that is a snapshot whose text lacks the line, so the
argument follows a handler from its reading to its write. A line it did not find on disk
is safe or not in the document (`Missed`), so the merge cannot delete what is nowhere
else; a line it did find and the merge leaves out was in the base, hence some document
has had it, and it was deleted from there; either way it is safe before it is written
over (`Dropped`). That a base is made of lines that documents have had is `Records`, for
`foldedHash` and the hash of the last write, and `MarksHeld`, for the mark in the store, which
says what `state.json` missed; `Folded` is the same of the texts a handler holds. A
line deleted from the document is safe (`Deleted`): a deletion of the server's is of an
insertion the server has, and only what is on the server or in the store can be
missing from both the disk and the document. The deletion may reach this device
before the insertion, so a document may hold deletions of insertions it has not
got (`Whole`); the first `Docs` did not allow that, and TLC had the counterexample.

### What a fold takes for the user's edit

A fold takes what differs from the text folded last for an edit: a line the disk lacks
was deleted here, one the documents lack was typed here. So the proof is about what names that
text. `TInv` says, of each line, that either `state.json`'s record names it or the mark
of the last write does, the record having missed that write (`Told`, `LostMark`):
a line on disk that somebody has is in the record, or in the mark. What a fold under way has read,
merged and is about to write stays true of the disk and the document while others move
(`Read`), and a line missing from a mark's text was deleted before that write or inserted
after it (`Marked`). Then no line is inserted a second time (`Single`, `Ones`), and of a
teammate's line the disk once had the disk still has it or the server knows of its deletion
(`TheirsStay`), so that no fold deletes it.

Two things carry the proof. The steps of the handlers are put in a normal form first
(`Moves`: a dozen kinds, named for what they do to disk, document, record and mark), and
each part of the invariant is shown for those. And a mark counts only while it is the
store's (`Confirmed`): y-indexeddb has the edits of a write before its mark, so a crash
that leaves the mark leaves the document it speaks of.

The first statement of each was false, and TLC confirmed both on more saves and crashes than
the run has. `KeepsTheirs` without `torn`: a crash that lost the record of a fold doubles a
teammate's line, the teammate deletes one of the two, a second such crash makes the
fold take that for the user's deletion of the other. `NotDoubled` without `coarse`: a fold
without a base inserts a line, the user takes the edit back, so that the record is what
`state.json` has again; a crash loses the document's last edits, and the next fold without a
base inserts the line again. The properties of the run say so now.

### Only model-checked

- Liveness (`Delivered`, `GateReopens`, `Persisted`, `Converges`), which is beyond the
  prover.
- `FileNames`. `NoStandstill` is about `ENABLED`. Of `IndexAgrees`, that the two maps
  tell the same also held in simulations of more names and more changes, over 80
  million states; that a file waits for one name does not hold there, two
  handlers of one file having both decided to wait. `SettledTree` and `NothingLost`
  rest on the windows, which are those TLC showed within the run's bounds.
- `DocStores`. `OnlyItsOwn` also holds for larger budgets without a crash (33 million
  states); with one it does not: a crash that cuts off the deletion of a deleted
  note's store leaves it for the note created again elsewhere under its id, and
  a rename back onto that name merges the two (`doc-manager.ts`, `move`, "Ours
  already"); and a live edit may land in a document opened from an older store,
  before the clear of its start, which a crash stops. `FoldedIsHeld` fails for larger budgets where
  two clears of one name are queued, the second closing what was opened between them.
  Hence there is no theorem.

No module declares a recursive operator.

## 6. Findings

1. `upload` - **a drain under way overtakes a change refused busy.**
   `drainQueue` waits for the live operations only when `queueFirst` is set as
   a pass begins (`sync/engine.ts:9626`). With a queued upload in the pass and an
   earlier change on the wire, the earlier one is refused, goes back to the
   queue ahead, and the pass still sends the later one first. The same order comes
   about, with other constants than a run's, when a later live change was refused for a while or
   could not be written, and its drain is under way as an earlier one is refused busy;
   and when a drain gives up after `DRAIN_PASSES_MAX` passes (9625) and opens the gate while live
   operations are out. `SentInOrder` (section 5) is stated without these.
2. `overlap` - **a load can miss the newest state.** `load` looks for the
   `.tmp` only when `exists(path)` was false; an older instance's write that
   removes the file between `exists` and `read` (`operation-log.ts:311`) makes
   the read fail, and the log starts empty.
3. `recrash` - **after a crash that left only the `.tmp`, the next write
   truncates it**, the only complete document (`operation-log.ts:954`).
4. `toggle` - **a binding switched off and on again may be left without an
   engine.** The first refresh waits in `dropEngine` for the old engine, the
   second finds it in the map and leaves it, then the first forgets it
   (`engine-manager.ts:443`). The binding stays without sync, its vault events
   dropped, until the settings are saved again.
5. `reinserted` - **a save folded just before a crash may be inserted twice.**
   The marker of a fold is written to `state.json` half a second after the
   document reached y-indexeddb. When the process ends in between, the next
   fold starts from the older marker's text; with a teammate's edit beside the
   saved text nothing tells that both sides have it already
   (`sync/engine.ts:9005`).

Seen while modelling, without a run of their own:

- `PurgedIfRemoved` without `hasty` fails as well: while a refresh waits for a
  restart, the binding is removed and another one added; a second refresh
  spawns its engine, and the first, whose `known` is older, drops that engine
  and purges the new binding's local state (`engine-manager.ts:199`).
- With two bindings (settings of an older build), a refresh waiting for the
  restart of one goes on over the array it has; when the other was removed and
  dropped meanwhile, it gets an engine again, which the next refresh drops.
- When `write(tmp)` fails the fallback writes `state.json` in place, which
  empties an intact file first: two failures in a row lose both documents.
- Finding 2 needs no request that settles late: a teardown slower than the next
  start waits for is enough, its write removing `state.json` between the newer load's
  `exists` and `read`.
- `ownsFile` is asked when a write begins and not again, so that a write of the
  older instance that hangs may replace the newer one's file.
- After a catch-up cut short, the attachments are checked against the listing
  when the rows' clocks have been taken in. When the connection drops before
  that check is through, the next catch-up is a whole one and does not return
  the update: an offline edit in the queue then goes out over the teammate's
  version, which the comment at 7275-7279 is about, and the comment at 7334
  ("The next connect checks again") does not hold. `TheirsAsked` without its
  window `unchecked` shows it.
- An update that landed without its answer is recorded by its version though a
  teammate's has replaced it meanwhile (2317-2323); a "Keep local" chosen over
  that one while offline then finds the disk "unchanged" (10129), and is not
  sent.
- Each call of the log file's rotation that fails and is tried again drops one
  more archive (`file-log-sink.ts:134`).
- `renameRecorded` follows the conflict name the server stored a rename under only
  when the note's history has moved (6405-6407), behind a fold under the old
  name. A teammate's later rename of the file that comes meanwhile waits for the same
  locks and gets them first; the older name is applied after it, and the file
  stands under it until the next connect (window `behind`).
- The windows of section 7: situations in which the code, as read, does not do
  what a property says. Some contradict a comment, named there.

## 7. Abstractions, assumptions and windows

### What is abstracted, what is assumed

- `OpDelivery`: what an operation does to the vault, and its type; pauses
  before a retry (a retry that is due may come at any time); the server without
  operation ids (`opIdempotency` absent); a drain that stalls (only after
  `collapseQueuedRenames`); `ops:status` answered after its connection is gone.
  What a landed row of `ops:status` changes in the records (2166-2371) is left
  to `CatchUp` and `Attachments`: here it takes the change out of the log
  (`SettleRow`). Every queued change is sent by the drain itself: a create of a file known by
  now, a queued save of a note and a rename into an ignored folder, which
  `replayPending` hands to the live handlers (9996, 10025, 10118), are left
  out, and with them the `fromQueue` side of `mayEmitLive` (2474-2494) and
  `dropIfDrainGone` (2592-2611).
- `StateFile`: ids given to a queue of an older build, `purgeBinding`, the quit
  of Obsidian, an unload while `load` is under way.
- `EngineManager`: all bindings on one server; aggregate status and listeners;
  `start()` of an engine (it waits for nothing); a `start()` after `stop()`;
  failures thrown by `stop()` or `spawn`.
- `FileNames`: a folder is its files; no case-only renames, no names this
  client never writes; storage calls do not fail; the content of a file is sent
  with its create. The device goes online once, and the broadcasts of its own
  operations, which it ignores, are left out. A teammate is at work only in the
  states `Busy` names. Offline, a delete is queued and its records forgotten in
  one step (5730-5733), and no delete waits for its document's (`dropDoc`, 5705),
  which is in `DocStores`. `QuickLooks`: a look at one file on this disk is over
  before the user's next change, before the connection comes, and before a
  copy is written.
- `CatchUp`: the refresh of the listing is one step. A rename applied from its
  broadcast, and a write of an operation, are over before the next connection
  is up, and such a rename before the next try after a refused join: the try
  comes 2 s later at the earliest (`engine.ts:209`), the rename waits for the
  locks of its names and moves one file. Without that, TLC has two renames of a
  teammate's and a refused join break `NamesAgree`: the first, moved after the
  second try's catch-up brought the second, stays. No crash between a file's rename on disk and the write of its record.
  Renames of one file go out in their order. A catch-up that was cut short has
  every row made since the listing was read when it comes again.
- `NoteFold`: a text is a count of lines, so that two edits of one line are out
  of it. The hash of a file and its text are read as one (`watcher` waits 500 ms
  after the last change). y-indexeddb is written before `state.json`
  (`engine.ts:3775-3778`). The check of a document before a teammate's edit goes in
  (7112-7122) is one step, from the fetch to the apply: an edit that comes in between
  waits for it. What the server lacks after a catch-up is sent as the catch-up is applied, while
  the code writes the snapshot first (2834-2835).
- `DocStores`: operations are opaque; what a database holds is all or nothing.
- `Attachments`: one file, always on the server and under its name; a write of
  `state.json` before a send is part of the send; refusals, `busy` and `stop()`
  are left to `OpDelivery` and `StateFile`; uploads and downloads fail only
  with the connection. A catch-up cut short lacks the update in question. The
  server answers in the order it takes things in, so no answer to an update sent
  before a join comes behind the join's.
- `Watchers`: Obsidian's events are passed on synchronously; ignored names and
  folders are filtered before. The engine has one operation on the disk under way
  at a time (`Begin`), where the code may have several on different names.
- `LogFile`: `readLog` and the wording of lines.

### Windows

A history variable names each situation met, and the properties named above
speak of behaviours without it. None was put in before TLC had shown the
behaviour. In `FileNames` (`e.windows`):

| Window | Situation |
|---|---|
| `asked` | a copy that differs from its record is met by a server's delete, and the user is asked |
| `overwritten` | a record is written over another file's: an answered rename, or one onto a name whose file is not on disk (about 6207) |
| `deleting` | a file is renamed onto a name whose file has its delete under way, for all the comment at 5016-5023 says |
| `back` | an older rename of a file is answered while a later one is pending, and puts the index back (10252-10257, 6407; the comment at 10244-10251 speaks of it) |
| `behind` | the conflict name of an answered rename is followed, the history having moved, while a later rename of the server's waits for the locks (6405-6407) |
| `moved` | a delete meets a file that a server's rename is moving, or moved a moment ago |
| `taken` | the name of a create was taken on the server, and the file is moved aside (4858-4880) |
| `listed` | a delete of a file that has no record looks its name up in the server's list, and finds a teammate's file created there just then; the comment about 5589-5605 rules it out |
| `moved in` | `applyServerRename` (8212-8221) asks `createQueuedAt`, not `creatingAt` and `ownCreateAt` as the server's create does (7386) |
| `stranded` | files wait for each other's names, and nothing releases them before the next connect (8401) |
| `merged`, `kept`, `again`, `twice`, `leaving`, `placing`, `parked` | two changes of one file or name cross in another of the handlers' awaits; the comment at each in the module says which |

In `CatchUp`: `ahead` (`OwnNotTaken`): an operation sent live carries a
teammate's counter that `state.json` does not have yet; after a crash
`ops:status` adopts this device's counter only (2388), the connection drops
before the catch-up, the next connect clears `ownKnown` (1652), and the row
comes back and is taken for a twin's, for all the comment at 2399-2415 says.
`replayed` (`NothingUndone`, `NamesAgree`): the guards of `applyServerOperation`
know the listing by name only, and own renames as of the refresh: a file
renamed after the refresh is moved back by a row (7255; the comments at
7130-7150 and 3498-3505), and so is one that came back to a name some older
row starts from (7232-7249). `outdated` (`NamesAgree`): a teammate's rename
applied live after the listing was read is undone by the refresh, which asks
for own renames only (3943). The next connect mends all but the first.

In `NoteFold`: `blind` (a save after a write's last look at the disk), `torn`
(a crash lost the record of a fold without a mark), `overtaken` (a catch-up
passed over a document opened after it looked), `coarse` (a fold without a
base). In `DocStores`: `overlooked` (1768, 2915-2919), `strayed` (2808-2809),
`early` (6640-6649), `revived` (the server goes on with a history of an earlier
life of a note). In
`Attachments`: `overlooked` (a save between the comparison and the write,
7604-7690, is written over), `twice` (two handlers bring one version, and a
save after the first is no conflict to the second), `untold` (a crash before a
save is queued, and nothing looks at known attachments at the start),
`outlived` (a handler of an older connect finds its entry replaced, leaves the
version to the next, and its row counts as taken), `unchecked` (section 6). In
`Watchers`: `silenced`: a user's change takes a marker meant for an echo, a
save less than 300 ms before a rename is told under the old name, a rename and
a save reach chokidar as one.

### Not modelled

The components marked so in `PROJECT.json`, with the reason: paths and ignored
files, settings and identity, the user interface. Of the modelled ones:
case-only renames, the first upload of a vault, deletes that conflict with an
edited attachment, folders as one operation, the eviction of documents, `reportTwin`.

## 8. Plan

1. Case-only renames and their step-aside names, with a crash in between
   (8628): one more module of `MCDevice`.
2. The first upload of a vault (`initialPush`) with a crash in its middle.
3. `DocStores` with windows for the three situations of section 5, for larger
   budgets, and then its proofs; the proof of `NothingLost`.
4. Queued operations that are replayed through the live handlers (section 7).
