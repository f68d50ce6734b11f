----------------------------- MODULE StateFile -----------------------------
(***************************************************************************)
(* How the operation log gets to state.json and back (operation-log.ts),   *)
(* step by step on the storage, across crashes, failed storage calls and   *)
(* the hand-over from one instance of the plugin to the next               *)
(* (plugin-teardown.ts): in OpDelivery a write of the file is one step.    *)
(*                                                                         *)
(* A document is the set of changes it records; changes are never taken    *)
(* out, so the newer of two documents of an instance includes the older.   *)
(*                                                                         *)
(* Left out: the ids a load gives to a queue of an older build, the queue  *)
(* of a removed binding (purgeBinding), and Obsidian's quit, which only    *)
(* waits longer before the process ends.                                   *)
(***************************************************************************)
EXTENDS Integers, FiniteSets

CONSTANTS
    MaxChanges,     \* bound: changes made to the log
    MaxInstances,   \* bound: times the plugin starts
    MaxJobs,        \* bound: writes waiting in the chain at once
    Worlds          \* what may go wrong: see World

ASSUME BoundsAssumption ==
    /\ MaxChanges \in Nat /\ MaxInstances \in Nat \ {0} /\ MaxJobs \in Nat \ {0}
    /\ \A w \in Worlds : /\ w.changes \in 0..MaxChanges /\ w.crashes \in Nat /\ w.fails \in Nat
                         /\ w.slow \in BOOLEAN /\ w.late \in BOOLEAN

Instance == 1..MaxInstances
Change == 1..MaxChanges

VARIABLES
    \* The storage.
    path,       \* state.json
    tmp,        \* state.json.tmp
    fails,      \* storage calls that failed so far
    \* The instances of the plugin.
    started,    \* how many have started
    owner,      \* the one whose claimStateFile was the last, 0 for none
    phase,      \* how far each is: see Phase
    \* The log of each.
    mem,        \* the document in memory
    dirty,      \* it changed since the last write took it
    timer,      \* a write is due when the debounce has run out
    closed,     \* close() was called
    issued,     \* writes asked for: the chain
    done,       \* writes of the chain that are over
    closing,    \* how many of them close() waits for
    step,       \* where the write under way is: see Step
    snap,       \* the document it writes
    wrote,      \* the document the last good write put on disk: writtenGeneration
    waits,      \* calls of persistNow: the write each waits for, and what it was to save
    \* History.
    made,       \* changes made so far
    acked,      \* changes a persistNow has reported as written
    stray,      \* changes made by an instance that has not the file any more
    crashes,
    world       \* bounds: how many changes, crashes, how many storage calls that fail; whether a teardown
                \* may take longer than the next start waits for it (slow), and requests of an
                \* engine may settle after its log was closed (late)

diskVars == <<path, tmp>>
lifeVars == <<started, owner, phase, closed, closing>>
logVars  == <<mem, dirty, timer, issued, done, step, snap, wrote, waits>>
histVars == <<made, acked, stray, crashes, world>>
vars == <<diskVars, fails, lifeVars, logVars, histVars>>

\* claimed, pathSeen, pathGone, tmpSeen, again: steps of load.
Phase == {"none", "claimed", "pathSeen", "pathGone", "tmpSeen", "again", "on", "stopping"}
Loading == {"claimed", "pathSeen", "pathGone", "tmpSeen", "again"}
Step == {"idle", "write", "fill", "exists", "remove", "rename", "fallback", "inPlace", "clean"}

\* A file: whether it is there and whole, what it says, who is writing it.
File == [kind : {"absent", "half", "whole"}, doc : SUBSET Change, by : SUBSET Instance]
Absent == [kind |-> "absent", doc |-> {}, by |-> {}]
\* What hydrate makes of it: nothing, unless the document is whole.
Text(file) == IF file.kind = "whole" THEN file.doc ELSE {}

\* What a load reads now.
Recovered == IF path.kind # "absent" THEN Text(path) ELSE Text(tmp)

Init ==
    /\ path = Absent /\ tmp = Absent /\ fails = 0
    /\ started = 0 /\ owner = 0
    /\ phase = [i \in Instance |-> "none"]
    /\ mem = [i \in Instance |-> {}]
    /\ dirty = [i \in Instance |-> FALSE]
    /\ timer = [i \in Instance |-> FALSE]
    /\ closed = [i \in Instance |-> FALSE]
    /\ issued = [i \in Instance |-> 0]
    /\ done = [i \in Instance |-> 0]
    /\ closing = [i \in Instance |-> 0]
    /\ step = [i \in Instance |-> "idle"]
    /\ snap = [i \in Instance |-> {}]
    /\ wrote = [i \in Instance |-> {}]
    /\ waits = [i \in Instance |-> {}]
    /\ made = 0 /\ acked = {} /\ stray = {} /\ crashes = 0 /\ world \in Worlds

-----------------------------------------------------------------------------
(***************************************************************************)
(* Starting, loading, stopping, crashing.                                  *)
(***************************************************************************)

TornDown(i) == closed[i] /\ done[i] >= closing[i]

\* awaitPreviousTeardown, then claimStateFile.
Start ==
    /\ started < MaxInstances
    /\ \A i \in Instance :
          \/ phase[i] = "none"
          \/ phase[i] = "stopping" /\ (TornDown(i) \/ world.slow)
    /\ started' = started + 1
    /\ owner' = started + 1
    /\ phase' = [phase EXCEPT ![started + 1] = "claimed"]
    /\ UNCHANGED <<diskVars, fails, closed, closing, logVars, histVars>>

\* The steps of load, each an await of its own.
LookForPath(i) ==
    /\ phase[i] = "claimed"
    /\ phase' = [phase EXCEPT ![i] = IF path.kind # "absent" THEN "pathSeen" ELSE "pathGone"]
    /\ UNCHANGED <<diskVars, fails, started, owner, closed, closing, logVars, histVars>>

\* Mutant: the .tmp is not looked for.
LookForTmpNot(i) ==
    /\ phase[i] = "pathGone"
    /\ phase' = [phase EXCEPT ![i] = "on"]
    /\ UNCHANGED <<diskVars, fails, started, owner, closed, closing, logVars, histVars>>

\* No document: its .tmp, or an empty log.
LookForTmp(i) ==
    /\ phase[i] = "pathGone"
    /\ phase' = [phase EXCEPT ![i] = IF tmp.kind # "absent" THEN "tmpSeen" ELSE "on"]
    /\ UNCHANGED <<diskVars, fails, started, owner, closed, closing, logVars, histVars>>

\* A document that cannot be read, or is not whole, leaves the log empty; a
\* .tmp renamed meanwhile is looked for under the name it has now.
Load(i) ==
    \/ /\ phase[i] \in {"pathSeen", "again"}
       /\ phase' = [phase EXCEPT ![i] = "on"]
       /\ mem' = [mem EXCEPT ![i] = Text(path)]
       /\ wrote' = [wrote EXCEPT ![i] = Text(path)]
       /\ UNCHANGED <<diskVars, fails, started, owner, closed, closing, dirty, timer, issued,
                      done, step, snap, waits, histVars>>
    \/ /\ phase[i] = "tmpSeen" /\ tmp.kind # "absent"
       /\ phase' = [phase EXCEPT ![i] = "on"]
       /\ mem' = [mem EXCEPT ![i] = Text(tmp)]
       /\ wrote' = [wrote EXCEPT ![i] = Text(tmp)]
       /\ UNCHANGED <<diskVars, fails, started, owner, closed, closing, dirty, timer, issued,
                      done, step, snap, waits, histVars>>
    \/ /\ phase[i] = "tmpSeen" /\ tmp.kind = "absent"
       /\ phase' = [phase EXCEPT ![i] = "again"]
       /\ UNCHANGED <<diskVars, fails, started, owner, closed, closing, logVars, histVars>>

\* onunload: the engines stop in the background.
Unload(i) ==
    /\ phase[i] = "on"
    /\ phase' = [phase EXCEPT ![i] = "stopping"]
    /\ UNCHANGED <<diskVars, fails, started, owner, closed, closing, logVars, histVars>>

\* flush: one more write in the chain when there is something to write.
Flush(i) == issued' = [issued EXCEPT ![i] = IF dirty'[i] THEN @ + 1 ELSE @]

HasRoom(i) == issued[i] - done[i] < MaxJobs

\* close, once the engines have stopped.
Close(i) ==
    /\ phase[i] = "stopping" /\ ~closed[i] /\ HasRoom(i)
    /\ closed' = [closed EXCEPT ![i] = TRUE]
    /\ timer' = [timer EXCEPT ![i] = FALSE]
    /\ UNCHANGED dirty
    /\ Flush(i)
    /\ closing' = [closing EXCEPT ![i] = issued'[i]]
    /\ UNCHANGED <<diskVars, fails, started, owner, phase, mem, done, step, snap, wrote, waits,
                   histVars>>

\* The process ends: only the files are left.
Crash ==
    /\ crashes < world.crashes /\ started > 0 /\ started < MaxInstances
    /\ crashes' = crashes + 1
    /\ path' = [path EXCEPT !.by = {}]
    /\ tmp' = [tmp EXCEPT !.by = {}]
    /\ owner' = 0
    /\ phase' = [i \in Instance |-> "none"]
    /\ mem' = [i \in Instance |-> {}]
    /\ dirty' = [i \in Instance |-> FALSE]
    /\ timer' = [i \in Instance |-> FALSE]
    /\ closed' = [i \in Instance |-> FALSE]
    /\ issued' = [i \in Instance |-> 0]
    /\ done' = [i \in Instance |-> 0]
    /\ closing' = [i \in Instance |-> 0]
    /\ step' = [i \in Instance |-> "idle"]
    /\ snap' = [i \in Instance |-> {}]
    /\ wrote' = [i \in Instance |-> {}]
    /\ waits' = [i \in Instance |-> {}]
    /\ UNCHANGED <<fails, started, made, acked, stray, world>>

-----------------------------------------------------------------------------
(***************************************************************************)
(* Changes, and calls for a write.                                         *)
(***************************************************************************)

\* The log is in use.
InUse(i) == phase[i] \in {"on", "stopping"} /\ (closed[i] => world.late)

\* touch: a change, written at once when the caller says so or the log is
\* closed, and after the debounce otherwise.
Touch(i) ==
    /\ InUse(i) /\ made < world.changes /\ HasRoom(i)
    /\ made' = made + 1
    /\ stray' = IF owner = i THEN stray ELSE stray \cup {made + 1}
    /\ mem' = [mem EXCEPT ![i] = @ \cup {made + 1}]
    /\ dirty' = [dirty EXCEPT ![i] = TRUE]
    /\ \/ Flush(i) /\ UNCHANGED timer
       \/ /\ ~closed[i]
          /\ timer' = [timer EXCEPT ![i] = TRUE]
          /\ UNCHANGED issued
    /\ UNCHANGED <<diskVars, fails, lifeVars, done, step, snap, wrote, waits, acked, crashes,
                   world>>

\* Mutant: the write is left to the next change.
TimerFiresIdly(i) ==
    /\ timer[i]
    /\ timer' = [timer EXCEPT ![i] = FALSE]
    /\ UNCHANGED <<diskVars, fails, lifeVars, mem, dirty, issued, done, step, snap, wrote,
                   waits, histVars>>

\* The debounce has run out.
TimerFires(i) ==
    /\ timer[i] /\ HasRoom(i)
    /\ timer' = [timer EXCEPT ![i] = FALSE]
    /\ UNCHANGED dirty
    /\ Flush(i)
    /\ UNCHANGED <<diskVars, fails, lifeVars, mem, done, step, snap, wrote, waits, histVars>>

\* persistNow, up to where it waits for the chain; an instance that lost the
\* file is told so at once.
PersistNow(i) ==
    /\ InUse(i) /\ owner = i
    /\ mem[i] \notin {w.doc : w \in waits[i]} /\ ~(mem[i] \subseteq acked)
    /\ HasRoom(i)
    /\ timer' = [timer EXCEPT ![i] = FALSE]
    /\ UNCHANGED dirty
    /\ Flush(i)
    /\ IF issued'[i] > done[i]
       THEN /\ waits' = [waits EXCEPT ![i] = @ \cup {[job |-> issued'[i], doc |-> mem[i]]}]
            /\ UNCHANGED acked
       ELSE /\ acked' = acked \cup mem[i]
            /\ UNCHANGED waits
    /\ UNCHANGED <<diskVars, fails, lifeVars, mem, done, step, snap, wrote, made, stray, crashes,
                   world>>

-----------------------------------------------------------------------------
(***************************************************************************)
(* One write: writeOnce and writeDocument.                                 *)
(***************************************************************************)

\* Mutant: the calls that waited for the job are not told.
JobDoneUntold(i, good) ==
    /\ step' = [step EXCEPT ![i] = "idle"]
    /\ done' = [done EXCEPT ![i] = @ + 1]
    /\ UNCHANGED <<waits, acked>>

\* The job is over; the calls that waited for it go on, as written when it
\* was and the file is still this instance's.
JobDone(i, good) ==
    /\ step' = [step EXCEPT ![i] = "idle"]
    /\ done' = [done EXCEPT ![i] = @ + 1]
    /\ LET over == {w \in waits[i] : w.job <= done[i] + 1} IN
          /\ waits' = [waits EXCEPT ![i] = @ \ over]
          /\ acked' = IF good /\ owner = i THEN acked \cup UNION {w.doc : w \in over}
                      ELSE acked

\* The document is on disk.
Wrote(i) ==
    /\ JobDone(i, TRUE)
    /\ wrote' = [wrote EXCEPT ![i] = @ \cup snap[i]]
    /\ snap' = [snap EXCEPT ![i] = {}]

GoTo(i, next) ==
    /\ step' = [step EXCEPT ![i] = next]
    /\ UNCHANGED <<mem, dirty, timer, issued, done, snap, wrote, waits, acked>>

Rest == UNCHANGED <<lifeVars, made, stray, crashes, world>>

\* writeOnce: nothing to write, or not this instance's file any more.
SkipWrite(i) ==
    /\ issued[i] > done[i] /\ step[i] = "idle"
    /\ ~dirty[i] \/ owner # i
    /\ dirty' = [dirty EXCEPT ![i] = FALSE]
    /\ JobDone(i, ~dirty[i])
    /\ UNCHANGED <<diskVars, fails, mem, timer, issued, snap, wrote>>
    /\ Rest

\* Mutant: an older instance goes on writing.
BeginWriteAnyhow(i) ==
    /\ issued[i] > done[i] /\ step[i] = "idle" /\ dirty[i]
    /\ dirty' = [dirty EXCEPT ![i] = FALSE]
    /\ snap' = [snap EXCEPT ![i] = mem[i]]
    /\ step' = [step EXCEPT ![i] = "write"]
    /\ UNCHANGED <<diskVars, fails, mem, timer, issued, done, wrote, waits, acked>>
    /\ Rest

\* The document is taken as it is now, and the flag cleared before the first
\* await.
BeginWrite(i) ==
    /\ issued[i] > done[i] /\ step[i] = "idle" /\ dirty[i] /\ owner = i
    /\ dirty' = [dirty EXCEPT ![i] = FALSE]
    /\ snap' = [snap EXCEPT ![i] = mem[i]]
    /\ step' = [step EXCEPT ![i] = "write"]
    /\ UNCHANGED <<diskVars, fails, mem, timer, issued, done, wrote, waits, acked>>
    /\ Rest

\* storage.write opens and empties the file, and fills it later.
Emptied(file, i) == [kind |-> "half", doc |-> {}, by |-> file.by \cup {i}]

\* Two writers in one file leave the text of the later, or a mixture.
Filled(file, i) ==
    {[kind |-> "whole", doc |-> snap[i], by |-> file.by \ {i}]} \cup
    (IF file.kind = "whole" \/ file.by # {i}
     THEN {[kind |-> "half", doc |-> {}, by |-> file.by \ {i}]} ELSE {})

\* The text goes to the file that was opened, wherever it is now.
Fill(i) ==
    /\ path' \in IF i \in path.by THEN Filled(path, i) ELSE {path}
    /\ tmp' \in IF i \in tmp.by THEN Filled(tmp, i) ELSE {tmp}

\* Mutant: the file is written in place.
EmptyPathFirst(i) ==
    /\ step[i] = "write"
    /\ GoTo(i, "fallback")
    /\ UNCHANGED <<diskVars, fails>> /\ Rest

\* The first try: write the .tmp, remove the file, rename.
EmptyTmp(i) ==
    /\ step[i] = "write"
    /\ tmp' = Emptied(tmp, i)
    /\ GoTo(i, "fill")
    /\ UNCHANGED <<path, fails>> /\ Rest

FillTmp(i) ==
    /\ step[i] = "fill"
    /\ Fill(i)
    /\ GoTo(i, "exists")
    /\ UNCHANGED fails /\ Rest

ExistsPath(i) ==
    /\ step[i] = "exists"
    /\ GoTo(i, IF path.kind = "absent" THEN "rename" ELSE "remove")
    /\ UNCHANGED <<diskVars, fails>> /\ Rest

RemovePath(i) ==
    /\ step[i] = "remove"
    /\ path' = Absent
    /\ GoTo(i, IF path.kind = "absent" THEN "fallback" ELSE "rename")
    /\ UNCHANGED <<tmp, fails>> /\ Rest

RenameTmp(i) ==
    /\ step[i] = "rename" /\ tmp.kind # "absent"
    /\ path' = tmp
    /\ tmp' = Absent
    /\ Wrote(i)
    /\ UNCHANGED <<fails, mem, dirty, timer, issued>> /\ Rest

\* Nothing to rename, or an adapter that does not replace a file.
RenameRefused(i) ==
    /\ step[i] = "rename" /\ (tmp.kind = "absent" \/ path.kind # "absent")
    /\ GoTo(i, "fallback")
    /\ UNCHANGED <<diskVars, fails>> /\ Rest

EmptyPath(i) ==
    /\ step[i] = "fallback"
    /\ path' = Emptied(path, i)
    /\ GoTo(i, "inPlace")
    /\ UNCHANGED <<tmp, fails>> /\ Rest

FillPath(i) ==
    /\ step[i] = "inPlace"
    /\ Fill(i)
    /\ GoTo(i, "clean")
    /\ UNCHANGED fails /\ Rest

\* The .tmp goes; whether it does is not looked at.
RemoveTmp(i) ==
    /\ step[i] = "clean"
    /\ tmp' = Absent
    /\ Wrote(i)
    /\ UNCHANGED <<path, fails, mem, dirty, timer, issued>> /\ Rest

\* A storage call fails: of the first try, and the document is written in place;
\* of the second, and the change waits for the next call for a write.
TmpFails(i) ==
    /\ step[i] \in {"write", "fill", "exists", "remove", "rename"}
    /\ GoTo(i, "fallback")
    /\ tmp' = [tmp EXCEPT !.by = @ \ {i}]
    /\ UNCHANGED path

\* Mutant: the flag stays cleared.
InPlaceFailsUnmarked(i) ==
    /\ step[i] \in {"fallback", "inPlace"}
    /\ JobDone(i, FALSE)
    /\ snap' = [snap EXCEPT ![i] = {}]
    /\ path' = [path EXCEPT !.by = @ \ {i}]
    /\ UNCHANGED <<tmp, dirty, mem, timer, issued, wrote>>

InPlaceFails(i) ==
    /\ step[i] \in {"fallback", "inPlace"}
    /\ dirty' = [dirty EXCEPT ![i] = TRUE]
    /\ JobDone(i, FALSE)
    /\ snap' = [snap EXCEPT ![i] = {}]
    /\ path' = [path EXCEPT !.by = @ \ {i}]
    /\ UNCHANGED <<tmp, mem, timer, issued, wrote>>

CleanUpFails(i) ==
    /\ step[i] = "clean"
    /\ Wrote(i)
    /\ UNCHANGED <<diskVars, mem, dirty, timer, issued>>

StorageFails(i) ==
    /\ fails < world.fails
    /\ fails' = fails + 1
    /\ TmpFails(i) \/ InPlaceFails(i) \/ CleanUpFails(i)
    /\ Rest

-----------------------------------------------------------------------------
Write(i) ==
    \/ SkipWrite(i) \/ BeginWrite(i) \/ EmptyTmp(i) \/ FillTmp(i) \/ ExistsPath(i)
    \/ RemovePath(i) \/ RenameTmp(i) \/ RenameRefused(i)
    \/ EmptyPath(i) \/ FillPath(i) \/ RemoveTmp(i)

Next ==
    \/ Start \/ Crash
    \/ \E i \in Instance :
          \/ LookForPath(i) \/ LookForTmp(i) \/ Load(i) \/ Unload(i) \/ Close(i)
          \/ Touch(i) \/ TimerFires(i) \/ PersistNow(i)
          \/ Write(i) \/ StorageFails(i)

Spec == Init /\ [][Next]_vars

-----------------------------------------------------------------------------
(***************************************************************************)
(* Properties.                                                             *)
(***************************************************************************)

\* The types of the variables; a call of persistNow waits for a write that is
\* still to be made.
TypeOK ==
    /\ path \in File /\ tmp \in File /\ fails \in Nat
    /\ started \in 0..MaxInstances /\ owner \in 0..MaxInstances
    /\ phase \in [Instance -> Phase] /\ step \in [Instance -> Step]
    /\ mem \in [Instance -> SUBSET Change] /\ snap \in [Instance -> SUBSET Change]
    /\ wrote \in [Instance -> SUBSET Change]
    /\ dirty \in [Instance -> BOOLEAN] /\ timer \in [Instance -> BOOLEAN]
    /\ closed \in [Instance -> BOOLEAN]
    /\ issued \in [Instance -> Nat] /\ done \in [Instance -> Nat]
    /\ closing \in [Instance -> Nat]
    /\ waits \in [Instance -> SUBSET [job : Nat, doc : SUBSET Change]]
    /\ \A i \in Instance : \A w \in waits[i] : w.job \in done[i] + 1..issued[i]
    /\ made \in 0..MaxChanges /\ acked \subseteq Change /\ stray \subseteq Change
    /\ crashes \in Nat /\ world \in Worlds

\* A change persistNow reported as written - whose operation may have gone
\* out - is found by a load, at whatever moment the process ends.
Recoverable == acked \subseteq Recovered

\* So is what inFlightWritten and queuedWritten take for written, on which an
\* operation goes out with no write of its own.
WrittenIsThere ==
    \A i \in Instance : owner = i /\ phase[i] \notin Loading => wrote[i] \subseteq Recovered

\* Both hold without a crash and a failed call, for a load that comes in its turn.
InTurn == ~world.slow /\ ~world.late
RecoverableUnhurt == crashes + fails = 0 /\ InTurn => Recoverable /\ WrittenIsThere

\* One crash, or one failed storage call, costs no such change: the next
\* instance starts with it (writeDocument's .tmp and its fallback, load), if it
\* waits for the one before.
Remembered ==
    \A i \in Instance : owner = i /\ phase[i] \notin Loading => acked \subseteq mem[i]
OneFaultSafe == crashes + fails <= 1 /\ InTurn => Remembered

\* A log without unwritten changes is on the disk: Obsidian's quit waits for
\* no other (hasUnwrittenChanges).
CleanIsWritten ==
    InTurn => \A i \in Instance :
       owner = i /\ phase[i] \notin Loading /\ ~dirty[i] /\ step[i] = "idle" =>
          mem[i] \subseteq Recovered

\* What an older instance does once a newer one has the file stays out of the
\* file: claimStateFile, for requests that settle late and a teardown that
\* takes longer than the start waits.
StraysStayOut == stray \cap (path.doc \cup tmp.doc \cup acked) = {}

\* The timer fires and the storage answers.
Fairness ==
    \A i \in Instance : WF_vars(TimerFires(i)) /\ WF_vars(Write(i))

FairSpec == Spec /\ Fairness

\* A change gets to the disk, unless a write of it fails (it is then left to the next
\* change), the process ends or another instance takes the file over first.
Persisted ==
    \A i \in Instance, c \in Change :
       (world.fails = 0 /\ InTurn /\ owner = i /\ c \in mem[i]) ~> (c \in Recovered \/ owner # i)
=============================================================================
