---------------------------- MODULE StateFileProofs ----------------------------
(***************************************************************************)
(* Proofs about StateFile, for any number of changes, instances and faults *)
(* in any worlds. The invariant IInv has three layers: what holds of the   *)
(* chain of writes of every instance, what the instances that lost the     *)
(* file keep out of it, and, where every start waits for the one before,   *)
(* what is on the storage at each step of a write.                         *)
(***************************************************************************)
EXTENDS StateFile, TLAPS

\* The last that started has the file, if any; the others are on their way out.
Turns ==
    /\ owner \in {0, started}
    /\ \A i \in Instance :
          /\ i > started => phase[i] = "none"
          /\ i # owner => phase[i] \in {"none", "stopping"}
          /\ i = owner => phase[i] # "none"

\* An instance that has not loaded its log has done nothing with it.
FreshAt(i) ==
    phase[i] \in Loading \cup {"none"} =>
        /\ mem[i] = {} /\ snap[i] = {} /\ wrote[i] = {} /\ waits[i] = {}
        /\ ~dirty[i] /\ ~timer[i] /\ ~closed[i] /\ step[i] = "idle"
        /\ issued[i] = 0 /\ done[i] = 0 /\ closing[i] = 0
Fresh == \A i \in Instance : FreshAt(i)

\* Where a write is, what it writes and what its callers wait for.
ChainAt(i) ==
    /\ done[i] <= issued[i]
    /\ step[i] # "idle" => done[i] < issued[i] /\ wrote[i] \subseteq snap[i]
    /\ snap[i] \subseteq mem[i] /\ wrote[i] \subseteq mem[i]
    /\ step[i] # "idle" /\ ~dirty[i] => mem[i] \subseteq snap[i]
    /\ step[i] = "idle" /\ ~dirty[i] /\ owner = i => mem[i] \subseteq wrote[i]
    /\ \A w \in waits[i] : /\ w.doc \subseteq mem[i]
                           /\ step[i] # "idle" /\ w.job = done[i] + 1 => w.doc \subseteq snap[i]
Chain == \A i \in Instance : ChainAt(i)

\* A closed log whose requests have settled asks for no more writes.
ClosedAt(i) ==
    closed[i] => /\ phase[i] = "stopping"
                 /\ ~world.late => ~timer[i] /\ issued[i] = closing[i]
Closed == \A i \in Instance : ClosedAt(i)

\* What is anywhere was made; strays are in no file, no write, and not in the
\* log that has the file.
OutOfFile(S) == S \subseteq 1..made /\ stray \cap S = {}
StraysAt(i) ==
    /\ mem[i] \subseteq 1..made /\ OutOfFile(snap[i])
    /\ \A w \in waits[i] : OutOfFile(w.doc)
    /\ owner = i => OutOfFile(mem[i])
StraysOnDisk == OutOfFile(path.doc) /\ OutOfFile(tmp.doc)
Strays ==
    /\ stray \subseteq 1..made /\ OutOfFile(acked) /\ StraysOnDisk
    /\ \A i \in Instance : StraysAt(i)

\* An instance that lost the file is through with it, when starts wait.
Quiet(i) ==
    /\ step[i] = "idle" /\ issued[i] = done[i] /\ ~timer[i]
    /\ phase[i] = "stopping" => closed[i]
Others == \A i \in Instance : i # owner => Quiet(i)

\* What is on the storage while the owner loads, and at each step of its writes.
InLoad(i) ==
    /\ path.by = {} /\ tmp.by = {}
    /\ phase[i] = "pathSeen" => path.kind # "absent"
    /\ phase[i] \in {"pathGone", "tmpSeen"} => path.kind = "absent"
    /\ phase[i] = "tmpSeen" => tmp.kind # "absent"
    /\ phase[i] # "again"
InWrite(i) ==
    /\ step[i] # "fill" => tmp.by = {}
    /\ step[i] # "inPlace" => path.by = {}
    /\ step[i] = "fill" => tmp.kind = "half" /\ tmp.by = {i}
    /\ step[i] \in {"exists", "remove", "rename"} => tmp.kind = "whole" /\ tmp.doc = snap[i]
    /\ step[i] = "remove" => path.kind # "absent"
    /\ step[i] = "rename" => path.kind = "absent"
    /\ step[i] = "inPlace" => path.kind = "half" /\ path.by = {i}
    /\ step[i] = "clean" => path.kind = "whole" /\ path.doc = snap[i]
    /\ step[i] = "idle" /\ ~dirty[i] => mem[i] \subseteq Recovered

StorageAt(i) == IF phase[i] \in Loading THEN InLoad(i) ELSE InWrite(i)
Storage ==
    /\ owner = 0 => path.by = {} /\ tmp.by = {}
    /\ \A i \in Instance : owner = i => StorageAt(i)

\* With one fault at most, what was acknowledged is on the disk or in memory;
\* without any, it is on the disk at every step.
Unhurt(i) ==
    /\ step[i] \in {"idle", "write"} => tmp = Absent /\ wrote[i] \subseteq Recovered
    /\ step[i] \in {"fill", "exists", "remove"} => wrote[i] \subseteq Text(path)
KeptAt(i) ==
    /\ acked \subseteq wrote[i]
    /\ step[i] = "idle" => wrote[i] \subseteq Recovered
    /\ step[i] \in {"fallback", "inPlace", "clean"} => fails > 0
    /\ crashes + fails = 0 => Unhurt(i)
KeptOnDisk == acked \subseteq Recovered /\ (crashes + fails = 0 => tmp = Absent)
Kept ==
    /\ owner = 0 => KeptOnDisk
    /\ \A i \in Instance : owner = i => IF phase[i] \in Loading THEN KeptOnDisk ELSE KeptAt(i)

\* TypeOK, a group of variables at a time.
DiskTypes == path \in File /\ tmp \in File /\ fails \in Nat
LogTypes ==
    /\ phase \in [Instance -> Phase] /\ step \in [Instance -> Step]
    /\ mem \in [Instance -> SUBSET Change] /\ snap \in [Instance -> SUBSET Change]
    /\ wrote \in [Instance -> SUBSET Change]
FlagTypes == /\ dirty \in [Instance -> BOOLEAN] /\ timer \in [Instance -> BOOLEAN]
             /\ closed \in [Instance -> BOOLEAN]
CountTypes == /\ issued \in [Instance -> Nat] /\ done \in [Instance -> Nat]
              /\ closing \in [Instance -> Nat]
CallTypes ==
    /\ waits \in [Instance -> SUBSET [job : Nat, doc : SUBSET Change]]
    /\ \A i \in Instance : \A w \in waits[i] : w.job \in done[i] + 1..issued[i]
HistTypes ==
    /\ started \in 0..MaxInstances /\ owner \in 0..MaxInstances
    /\ made \in 0..MaxChanges /\ acked \subseteq Change /\ stray \subseteq Change
    /\ crashes \in Nat /\ world \in Worlds

\* A step of one instance, and what it leaves alone.
Asks(i) == Close(i) \/ Touch(i) \/ TimerFires(i) \/ PersistNow(i)
Loads(i) == LookForPath(i) \/ LookForTmp(i) \/ Load(i) \/ Unload(i)
Acts(i) == Loads(i) \/ Asks(i) \/ Write(i) \/ StorageFails(i)
SameAt(j) ==
    /\ phase'[j] = phase[j] /\ step'[j] = step[j]
    /\ mem'[j] = mem[j] /\ snap'[j] = snap[j] /\ wrote'[j] = wrote[j] /\ waits'[j] = waits[j]
    /\ dirty'[j] = dirty[j] /\ timer'[j] = timer[j] /\ closed'[j] = closed[j]
    /\ issued'[j] = issued[j] /\ done'[j] = done[j] /\ closing'[j] = closing[j]

IInv ==
    /\ TypeOK /\ Turns /\ Fresh /\ Chain /\ Closed /\ Strays
    /\ InTurn => Others /\ Storage
    /\ InTurn /\ crashes + fails <= 1 => Kept

-----------------------------------------------------------------------------
(***************************************************************************)
(* Types.                                                                  *)
(***************************************************************************)

\* TypeOK is proved a group of variables at a time.
LEMMA TypeParts ==
    TypeOK <=> /\ DiskTypes /\ LogTypes /\ FlagTypes
               /\ CountTypes /\ CallTypes /\ HistTypes
BY DEF TypeOK, DiskTypes, LogTypes, FlagTypes, CountTypes, CallTypes, HistTypes

\* Every step keeps the types: of the files,
LEMMA DiskTyped ==
    ASSUME DiskTypes, LogTypes, [Next]_vars
    PROVE  DiskTypes'
<1>1. CASE Start \/ UNCHANGED vars
      BY <1>1 DEF DiskTypes, LogTypes, File, diskVars, Start, vars
<1>2. CASE Crash
      BY <1>2 DEF DiskTypes, LogTypes, File, diskVars, Crash
<1>3. ASSUME NEW i \in Instance, LookForPath(i) \/ LookForTmp(i) \/ Load(i) \/
                                 Unload(i) \/ Close(i) \/ Touch(i) \/ TimerFires(i) \/
                                 PersistNow(i) \/ SkipWrite(i) \/ BeginWrite(i) \/
                                 ExistsPath(i) \/ RenameRefused(i)
      PROVE  DiskTypes'
      BY <1>3 DEF DiskTypes, LogTypes, File, diskVars, LookForPath, LookForTmp, Load, Text,
                  Unload, Close, Flush, Touch, TimerFires, PersistNow, SkipWrite, JobDone,
                  Rest, BeginWrite, ExistsPath, GoTo, RenameRefused
<1>4. ASSUME NEW i \in Instance, EmptyTmp(i)
      PROVE  DiskTypes'
      BY <1>4 DEF DiskTypes, LogTypes, File, diskVars, EmptyTmp, GoTo, Rest, Emptied
<1>5. ASSUME NEW i \in Instance, FillTmp(i)
      PROVE  DiskTypes'
      BY <1>5 DEF DiskTypes, LogTypes, File, diskVars, FillTmp, Fill, Filled, GoTo, Rest
<1>6. ASSUME NEW i \in Instance, RemovePath(i)
      PROVE  DiskTypes'
      BY <1>6 DEF DiskTypes, LogTypes, File, diskVars, RemovePath, GoTo, Rest, Absent
<1>7. ASSUME NEW i \in Instance, RenameTmp(i)
      PROVE  DiskTypes'
      BY <1>7 DEF DiskTypes, LogTypes, File, diskVars, RenameTmp, Wrote, JobDone, Rest,
                  Absent
<1>8. ASSUME NEW i \in Instance, EmptyPath(i)
      PROVE  DiskTypes'
      BY <1>8 DEF DiskTypes, LogTypes, File, diskVars, EmptyPath, GoTo, Rest, Emptied
<1>9. ASSUME NEW i \in Instance, FillPath(i)
      PROVE  DiskTypes'
      BY <1>9 DEF DiskTypes, LogTypes, File, diskVars, FillPath, Fill, Filled, GoTo, Rest
<1>10. ASSUME NEW i \in Instance, RemoveTmp(i)
      PROVE  DiskTypes'
      BY <1>10 DEF DiskTypes, LogTypes, File, diskVars, RemoveTmp, Wrote, JobDone, Rest,
                   Absent
<1>11. ASSUME NEW i \in Instance, StorageFails(i)
      PROVE  DiskTypes'
      BY <1>11 DEF DiskTypes, LogTypes, File, diskVars, StorageFails, TmpFails,
                   InPlaceFails, CleanUpFails, GoTo, Wrote, JobDone, Rest
<1>   QED
      BY <1>1, <1>2, <1>3, <1>4, <1>5, <1>6, <1>7, <1>8, <1>9, <1>10, <1>11 DEF Next, Write

\* of the logs and where their writes are,
LEMMA LogTyped ==
    ASSUME BoundsAssumption, DiskTypes, LogTypes, HistTypes, [Next]_vars
    PROVE  LogTypes'
<1>1. CASE Start \/ UNCHANGED vars
      BY <1>1 DEF DiskTypes, LogTypes, File, Phase, Step, lifeVars, logVars, Start, vars
<1>2. CASE Crash
      BY <1>2 DEF DiskTypes, LogTypes, File, Phase, Step, lifeVars, logVars, Crash
<1>3. ASSUME NEW i \in Instance, LookForPath(i) \/ LookForTmp(i) \/ Unload(i)
      PROVE  LogTypes'
      BY <1>3 DEF DiskTypes, LogTypes, File, Phase, Step, lifeVars, logVars, LookForPath,
                  LookForTmp, Unload
<1>4. ASSUME NEW i \in Instance, Load(i)
      PROVE  LogTypes'
      BY <1>4 DEF DiskTypes, LogTypes, File, Phase, Step, lifeVars, logVars, Load, Text
<1>5. ASSUME NEW i \in Instance, Close(i) \/ TimerFires(i) \/ PersistNow(i)
      PROVE  LogTypes'
      BY <1>5 DEF DiskTypes, LogTypes, File, Phase, Step, lifeVars, logVars, Close, Flush,
                  TimerFires, PersistNow
<1>6. ASSUME NEW i \in Instance, Touch(i)
      PROVE  LogTypes'
  <2>1. made + 1 \in Change
        BY <1>6 DEF Touch, BoundsAssumption, HistTypes, Change
  <2>   QED
        BY <1>6, <2>1 DEF LogTypes, lifeVars, Touch, Flush
<1>7. ASSUME NEW i \in Instance, SkipWrite(i) \/ RenameTmp(i) \/ RemoveTmp(i)
      PROVE  LogTypes'
      BY <1>7 DEF DiskTypes, LogTypes, File, Phase, Step, lifeVars, logVars, SkipWrite,
                  JobDone, Rest, RenameTmp, Wrote, Absent, RemoveTmp
<1>8. ASSUME NEW i \in Instance, BeginWrite(i)
      PROVE  LogTypes'
      BY <1>8 DEF DiskTypes, LogTypes, File, Phase, Step, lifeVars, logVars, BeginWrite,
                  Rest
<1>9. ASSUME NEW i \in Instance, EmptyTmp(i) \/ FillTmp(i) \/ ExistsPath(i) \/
                                 RemovePath(i) \/ RenameRefused(i) \/ EmptyPath(i) \/
                                 FillPath(i)
      PROVE  LogTypes'
      BY <1>9 DEF DiskTypes, LogTypes, File, Phase, Step, lifeVars, logVars, EmptyTmp,
                  GoTo, Rest, Emptied, FillTmp, Fill, Filled, ExistsPath, RemovePath,
                  Absent, RenameRefused, EmptyPath, FillPath
<1>10. ASSUME NEW i \in Instance, StorageFails(i)
      PROVE  LogTypes'
      BY <1>10 DEF DiskTypes, LogTypes, File, Phase, Step, lifeVars, logVars, StorageFails,
                   TmpFails, InPlaceFails, CleanUpFails, GoTo, Wrote, JobDone, Rest
<1>   QED
      BY <1>1, <1>2, <1>3, <1>4, <1>5, <1>6, <1>7, <1>8, <1>9, <1>10 DEF Next, Write

\* of the flags,
LEMMA FlagTyped ==
    ASSUME FlagTypes, [Next]_vars
    PROVE  FlagTypes'
<1>1. CASE Start \/ UNCHANGED vars
      BY <1>1 DEF FlagTypes, lifeVars, logVars, Start, vars
<1>2. CASE Crash
      BY <1>2 DEF FlagTypes, lifeVars, logVars, Crash
<1>3. ASSUME NEW i \in Instance, LookForPath(i) \/ LookForTmp(i) \/ Load(i) \/
                                 Unload(i)
      PROVE  FlagTypes'
      BY <1>3 DEF FlagTypes, lifeVars, logVars, LookForPath, LookForTmp, Load, Text, Unload
<1>4. ASSUME NEW i \in Instance, Close(i)
      PROVE  FlagTypes'
      BY <1>4 DEF FlagTypes, lifeVars, logVars, Close, Flush
<1>5. ASSUME NEW i \in Instance, Touch(i)
      PROVE  FlagTypes'
      BY <1>5 DEF FlagTypes, lifeVars, logVars, Touch, Flush
<1>6. ASSUME NEW i \in Instance, TimerFires(i)
      PROVE  FlagTypes'
      BY <1>6 DEF FlagTypes, lifeVars, logVars, TimerFires, Flush
<1>7. ASSUME NEW i \in Instance, PersistNow(i)
      PROVE  FlagTypes'
      BY <1>7 DEF FlagTypes, lifeVars, logVars, PersistNow, Flush
<1>8. ASSUME NEW i \in Instance, SkipWrite(i) \/ RenameTmp(i) \/ RemoveTmp(i)
      PROVE  FlagTypes'
      BY <1>8 DEF FlagTypes, lifeVars, logVars, SkipWrite, JobDone, Rest, RenameTmp, Wrote,
                  Absent, RemoveTmp
<1>9. ASSUME NEW i \in Instance, BeginWrite(i)
      PROVE  FlagTypes'
      BY <1>9 DEF FlagTypes, lifeVars, logVars, BeginWrite, Rest
<1>10. ASSUME NEW i \in Instance, EmptyTmp(i) \/ FillTmp(i) \/ ExistsPath(i) \/
                                  RemovePath(i) \/ RenameRefused(i) \/ EmptyPath(i) \/
                                  FillPath(i)
      PROVE  FlagTypes'
      BY <1>10 DEF FlagTypes, lifeVars, logVars, EmptyTmp, GoTo, Rest, Emptied, FillTmp,
                   Fill, Filled, ExistsPath, RemovePath, Absent, RenameRefused, EmptyPath,
                   FillPath
<1>11. ASSUME NEW i \in Instance, StorageFails(i)
      PROVE  FlagTypes'
  <2>1. CASE TmpFails(i) \/ CleanUpFails(i)
        BY <1>11, <2>1 DEF FlagTypes, lifeVars, StorageFails, TmpFails, CleanUpFails, GoTo,
                           Wrote, JobDone, Rest
  <2>2. CASE InPlaceFails(i)
        BY <1>11, <2>2 DEF FlagTypes, lifeVars, StorageFails, InPlaceFails, JobDone, Rest
  <2>   QED
        BY <1>11, <2>1, <2>2 DEF StorageFails
<1>   QED
      BY <1>1, <1>2, <1>3, <1>4, <1>5, <1>6, <1>7, <1>8, <1>9, <1>10, <1>11 DEF Next, Write

\* of the counters of the chain,
LEMMA CountTyped ==
    ASSUME CountTypes, [Next]_vars
    PROVE  CountTypes'
<1>1. CASE Start \/ UNCHANGED vars
      BY <1>1 DEF CountTypes, lifeVars, logVars, Start, vars
<1>2. CASE Crash
      BY <1>2 DEF CountTypes, lifeVars, logVars, Crash
<1>3. ASSUME NEW i \in Instance, LookForPath(i) \/ LookForTmp(i) \/ Load(i) \/
                                 Unload(i)
      PROVE  CountTypes'
      BY <1>3 DEF CountTypes, lifeVars, logVars, LookForPath, LookForTmp, Load, Text,
                  Unload
<1>4. ASSUME NEW i \in Instance, Close(i)
      PROVE  CountTypes'
      BY <1>4 DEF CountTypes, lifeVars, logVars, Close, Flush
<1>5. ASSUME NEW i \in Instance, Touch(i)
      PROVE  CountTypes'
      BY <1>5 DEF CountTypes, lifeVars, logVars, Touch, Flush
<1>6. ASSUME NEW i \in Instance, TimerFires(i)
      PROVE  CountTypes'
      BY <1>6 DEF CountTypes, lifeVars, logVars, TimerFires, Flush
<1>7. ASSUME NEW i \in Instance, PersistNow(i)
      PROVE  CountTypes'
      BY <1>7 DEF CountTypes, lifeVars, logVars, PersistNow, Flush
<1>8. ASSUME NEW i \in Instance, SkipWrite(i) \/ RenameTmp(i) \/ RemoveTmp(i)
      PROVE  CountTypes'
      BY <1>8 DEF CountTypes, lifeVars, logVars, SkipWrite, JobDone, Rest, RenameTmp,
                  Wrote, Absent, RemoveTmp
<1>9. ASSUME NEW i \in Instance, EmptyTmp(i) \/ FillTmp(i) \/ ExistsPath(i) \/
                                 RemovePath(i) \/ RenameRefused(i) \/ EmptyPath(i) \/
                                 FillPath(i) \/ BeginWrite(i)
      PROVE  CountTypes'
      BY <1>9 DEF CountTypes, lifeVars, logVars, EmptyTmp, GoTo, Rest, Emptied, FillTmp,
                  Fill, Filled, ExistsPath, RemovePath, Absent, RenameRefused, EmptyPath,
                  FillPath, BeginWrite
<1>10. ASSUME NEW i \in Instance, StorageFails(i)
      PROVE  CountTypes'
      BY <1>10 DEF CountTypes, lifeVars, logVars, StorageFails, TmpFails, InPlaceFails,
                   CleanUpFails, GoTo, Wrote, JobDone, Rest
<1>   QED
      BY <1>1, <1>2, <1>3, <1>4, <1>5, <1>6, <1>7, <1>8, <1>9, <1>10 DEF Next, Write

\* of the calls that wait - for a write that is still to be made -,
LEMMA CallTyped ==
    ASSUME CountTypes, LogTypes, CallTypes, [Next]_vars
    PROVE  CallTypes'
<1>1. CASE Start \/ UNCHANGED vars
      BY <1>1 DEF CountTypes, LogTypes, CallTypes, lifeVars, logVars, Start, vars
<1>2. CASE Crash
      BY <1>2 DEF CountTypes, LogTypes, CallTypes, lifeVars, logVars, Crash
<1>3. ASSUME NEW i \in Instance, LookForPath(i) \/ LookForTmp(i) \/ Load(i) \/
                                 Unload(i)
      PROVE  CallTypes'
      BY <1>3 DEF CountTypes, LogTypes, CallTypes, lifeVars, logVars, LookForPath,
                  LookForTmp, Load, Text, Unload
<1>4. ASSUME NEW i \in Instance, Close(i)
      PROVE  CallTypes'
      BY <1>4 DEF CountTypes, LogTypes, CallTypes, lifeVars, logVars, Close, Flush
<1>5. ASSUME NEW i \in Instance, Touch(i)
      PROVE  CallTypes'
      BY <1>5 DEF CountTypes, LogTypes, CallTypes, lifeVars, logVars, Touch, Flush
<1>6. ASSUME NEW i \in Instance, TimerFires(i)
      PROVE  CallTypes'
      BY <1>6 DEF CountTypes, LogTypes, CallTypes, lifeVars, logVars, TimerFires, Flush
<1>7. ASSUME NEW i \in Instance, PersistNow(i)
      PROVE  CallTypes'
      BY <1>7 DEF CountTypes, LogTypes, CallTypes, lifeVars, logVars, PersistNow, Flush
<1>8. ASSUME NEW i \in Instance, SkipWrite(i) \/ RenameTmp(i) \/ RemoveTmp(i)
      PROVE  CallTypes'
      BY <1>8 DEF CountTypes, LogTypes, CallTypes, lifeVars, logVars, SkipWrite, JobDone,
                  Rest, RenameTmp, Wrote, Absent, RemoveTmp
<1>9. ASSUME NEW i \in Instance, EmptyTmp(i) \/ FillTmp(i) \/ ExistsPath(i) \/
                                 RemovePath(i) \/ RenameRefused(i) \/ EmptyPath(i) \/
                                 FillPath(i) \/ BeginWrite(i)
      PROVE  CallTypes'
      BY <1>9 DEF CountTypes, LogTypes, CallTypes, lifeVars, logVars, EmptyTmp, GoTo, Rest,
                  Emptied, FillTmp, Fill, Filled, ExistsPath, RemovePath, Absent,
                  RenameRefused, EmptyPath, FillPath, BeginWrite
<1>10. ASSUME NEW i \in Instance, StorageFails(i)
      PROVE  CallTypes'
      BY <1>10 DEF CountTypes, LogTypes, CallTypes, lifeVars, logVars, StorageFails,
                   TmpFails, InPlaceFails, CleanUpFails, GoTo, Wrote, JobDone, Rest
<1>   QED
      BY <1>1, <1>2, <1>3, <1>4, <1>5, <1>6, <1>7, <1>8, <1>9, <1>10 DEF Next, Write

\* and of the history.
LEMMA HistTyped ==
    ASSUME BoundsAssumption, LogTypes, CallTypes, HistTypes, [Next]_vars
    PROVE  HistTypes'
<1>1. CASE Start
      BY <1>1 DEF BoundsAssumption, LogTypes, CallTypes, HistTypes, Change, Instance,
                  lifeVars, logVars, histVars, Start
<1>2. CASE Crash
      BY <1>2 DEF BoundsAssumption, LogTypes, CallTypes, HistTypes, Change, Instance,
                  lifeVars, logVars, histVars, Crash
<1>3. ASSUME NEW i \in Instance, LookForPath(i) \/ LookForTmp(i) \/ Load(i) \/
                                 Unload(i)
      PROVE  HistTypes'
      BY <1>3 DEF BoundsAssumption, LogTypes, CallTypes, HistTypes, Change, Instance,
                  lifeVars, logVars, histVars, LookForPath, LookForTmp, Load, Text, Unload
<1>4. ASSUME NEW i \in Instance, Close(i)
      PROVE  HistTypes'
      BY <1>4 DEF BoundsAssumption, LogTypes, CallTypes, HistTypes, Change, Instance,
                  lifeVars, logVars, histVars, Close, Flush
<1>5. ASSUME NEW i \in Instance, Touch(i)
      PROVE  HistTypes'
      BY <1>5 DEF BoundsAssumption, LogTypes, CallTypes, HistTypes, Change, Instance,
                  lifeVars, logVars, histVars, Touch, Flush
<1>6. ASSUME NEW i \in Instance, TimerFires(i)
      PROVE  HistTypes'
      BY <1>6 DEF BoundsAssumption, LogTypes, CallTypes, HistTypes, Change, Instance,
                  lifeVars, logVars, histVars, TimerFires, Flush
<1>7. ASSUME NEW i \in Instance, PersistNow(i)
      PROVE  HistTypes'
      BY <1>7 DEF BoundsAssumption, LogTypes, CallTypes, HistTypes, Change, Instance,
                  lifeVars, logVars, histVars, PersistNow, Flush
<1>8. ASSUME NEW i \in Instance, SkipWrite(i) \/ RenameTmp(i) \/ RemoveTmp(i)
      PROVE  HistTypes'
  <2>1. waits[i] \in SUBSET [job : Nat, doc : SUBSET Change]
        BY DEF CallTypes
  <2>2. UNION {w.doc : w \in {v \in waits[i] : v.job <= done[i] + 1}} \subseteq Change
        BY <2>1
  <2>3. UNCHANGED <<started, owner, made, stray, crashes, world>>
        BY <1>8 DEF SkipWrite, RenameTmp, RemoveTmp, Rest, lifeVars
  <2>4. acked' \subseteq Change
        BY <1>8, <2>2 DEF HistTypes, SkipWrite, RenameTmp, RemoveTmp, Wrote, JobDone
  <2>   QED
        BY <2>3, <2>4 DEF HistTypes
<1>9. ASSUME NEW i \in Instance, EmptyTmp(i) \/ FillTmp(i) \/ ExistsPath(i) \/
                                 RemovePath(i) \/ RenameRefused(i) \/ EmptyPath(i) \/
                                 FillPath(i) \/ BeginWrite(i)
      PROVE  HistTypes'
      BY <1>9 DEF BoundsAssumption, LogTypes, CallTypes, HistTypes, Change, Instance,
                  lifeVars, logVars, histVars, EmptyTmp, GoTo, Rest, Emptied, FillTmp,
                  Fill, Filled, ExistsPath, RemovePath, Absent, RenameRefused, EmptyPath,
                  FillPath, BeginWrite
<1>10. ASSUME NEW i \in Instance, StorageFails(i)
      PROVE  HistTypes'
  <2>1. waits[i] \in SUBSET [job : Nat, doc : SUBSET Change]
        BY DEF CallTypes
  <2>2. UNION {w.doc : w \in {v \in waits[i] : v.job <= done[i] + 1}} \subseteq Change
        BY <2>1
  <2>3. UNCHANGED <<started, owner, made, stray, crashes, world>>
        BY <1>10 DEF StorageFails, Rest, lifeVars
  <2>4. acked' \subseteq Change
        BY <1>10, <2>2 DEF HistTypes, StorageFails, TmpFails, InPlaceFails, CleanUpFails,
                           GoTo, Wrote, JobDone
  <2>   QED
        BY <2>3, <2>4 DEF HistTypes
<1>11. CASE UNCHANGED vars
      BY <1>11 DEF BoundsAssumption, LogTypes, CallTypes, HistTypes, Change, Instance,
                   lifeVars, logVars, histVars, vars
<1>   QED
      BY <1>1, <1>2, <1>3, <1>4, <1>5, <1>6, <1>7, <1>8, <1>9, <1>10, <1>11 DEF Next, Write

-----------------------------------------------------------------------------
(***************************************************************************)
(* The chain of writes, instance by instance.                              *)
(***************************************************************************)

\* A step is one instance's, or a start, or a crash.
LEMMA StepCases ==
    ASSUME [Next]_vars
    PROVE  Start \/ Crash \/ UNCHANGED vars \/ \E i \in Instance : Acts(i)
BY DEF Next, Acts, Loads, Asks, Write

\* What another instance has is left alone.
LEMMA Alone ==
    ASSUME LogTypes, FlagTypes, CountTypes, CallTypes, NEW i \in Instance, Acts(i),
           NEW j \in Instance \ {i}
    PROVE  SameAt(j)
<1>1. CASE LookForPath(i) \/ LookForTmp(i) \/ Unload(i)
      BY <1>1 DEF SameAt, LogTypes, FlagTypes, CountTypes, CallTypes, lifeVars, logVars,
                  LookForPath, LookForTmp, Unload
<1>2. CASE Load(i)
      BY <1>2 DEF SameAt, LogTypes, FlagTypes, CountTypes, CallTypes, lifeVars, logVars,
                  Load
<1>3. CASE Close(i)
      BY <1>3 DEF SameAt, LogTypes, FlagTypes, CountTypes, CallTypes, lifeVars, logVars,
                  Close, Flush
<1>4. CASE Touch(i)
      BY <1>4 DEF SameAt, LogTypes, FlagTypes, CountTypes, CallTypes, lifeVars, logVars,
                  Touch, Flush
<1>5. CASE TimerFires(i)
      BY <1>5 DEF SameAt, LogTypes, FlagTypes, CountTypes, CallTypes, lifeVars, logVars,
                  TimerFires, Flush
<1>6. CASE PersistNow(i)
      BY <1>6 DEF SameAt, LogTypes, FlagTypes, CountTypes, CallTypes, lifeVars, logVars,
                  PersistNow, Flush
<1>7. CASE SkipWrite(i) \/ RenameTmp(i) \/ RemoveTmp(i)
      BY <1>7 DEF SameAt, LogTypes, FlagTypes, CountTypes, CallTypes, lifeVars, logVars,
                  SkipWrite, JobDone, Rest, RenameTmp, Wrote, RemoveTmp
<1>8. CASE BeginWrite(i)
      BY <1>8 DEF SameAt, LogTypes, FlagTypes, CountTypes, CallTypes, lifeVars, logVars,
                  BeginWrite, Rest
<1>9. CASE EmptyTmp(i) \/ FillTmp(i) \/ ExistsPath(i) \/ RemovePath(i) \/
           RenameRefused(i) \/ EmptyPath(i) \/ FillPath(i)
      BY <1>9 DEF SameAt, LogTypes, FlagTypes, CountTypes, CallTypes, lifeVars, logVars,
                  EmptyTmp, GoTo, Rest, FillTmp, ExistsPath, RemovePath, RenameRefused,
                  EmptyPath, FillPath
<1>10. CASE StorageFails(i)
      BY <1>10 DEF SameAt, LogTypes, FlagTypes, CountTypes, CallTypes, lifeVars, logVars,
                   StorageFails, TmpFails, InPlaceFails, CleanUpFails, GoTo, Wrote,
                   JobDone, Rest
<1>   QED
      BY <1>1, <1>2, <1>3, <1>4, <1>5, <1>6, <1>7, <1>8, <1>9, <1>10 DEF Acts, Loads, Asks,
                                                                         Write

\* The file is whose it was.
LEMMA Before ==
    ASSUME NEW i \in Instance, Acts(i)
    PROVE  owner' = owner /\ started' = started /\ world' = world
<1>1. CASE LookForPath(i) \/ LookForTmp(i) \/ Load(i) \/ Unload(i)
      BY <1>1 DEF lifeVars, histVars, LookForPath, LookForTmp, Load, Unload
<1>2. CASE Close(i) \/ Touch(i) \/ TimerFires(i) \/ PersistNow(i)
      BY <1>2 DEF lifeVars, histVars, Close, Touch, TimerFires, PersistNow
<1>3. CASE EmptyTmp(i) \/ FillTmp(i) \/ ExistsPath(i) \/ RemovePath(i) \/
           RenameRefused(i) \/ EmptyPath(i) \/ FillPath(i) \/ BeginWrite(i) \/
           SkipWrite(i) \/ RenameTmp(i) \/ RemoveTmp(i)
      BY <1>3 DEF lifeVars, histVars, EmptyTmp, Rest, FillTmp, ExistsPath, RemovePath,
                  RenameRefused, EmptyPath, FillPath, BeginWrite, SkipWrite, RenameTmp,
                  RemoveTmp
<1>4. CASE StorageFails(i)
      BY <1>4 DEF lifeVars, histVars, StorageFails, TmpFails, InPlaceFails, CleanUpFails,
                  Rest
<1>   QED
      BY <1>1, <1>2, <1>3, <1>4 DEF Acts, Loads, Asks, Write

\* One instance at a time has the file.
LEMMA TurnsHold ==
    ASSUME LogTypes, HistTypes, Turns, [Next]_vars
    PROVE  Turns'
<1>1. CASE Start
      BY <1>1 DEF LogTypes, HistTypes, Turns, Instance, Start
<1>2. CASE Crash
      BY <1>2 DEF LogTypes, Turns, Instance, Crash
<1>3. CASE UNCHANGED vars
      BY <1>3 DEF Turns, vars, lifeVars
<1>4. ASSUME NEW i \in Instance, Acts(i) PROVE Turns'
  <2>1. owner' = owner /\ started' = started
        BY <1>4, Before
  <2>2. \/ UNCHANGED phase
        \/ /\ phase[i] \notin {"none", "stopping"}
           /\ \E p \in Phase \ {"none"} : phase' = [phase EXCEPT ![i] = p]
        BY <1>4 DEF Acts, Loads, LookForPath, LookForTmp, Load, Unload, Asks, Close, Touch,
                    TimerFires, PersistNow, Write, SkipWrite, BeginWrite, EmptyTmp,
                    FillTmp, ExistsPath, RemovePath, RenameTmp, RenameRefused, EmptyPath,
                    FillPath, RemoveTmp, StorageFails, Rest, lifeVars, Phase
  <2>   QED
        BY <2>1, <2>2 DEF Turns, LogTypes
<1>   QED
      BY <1>1, <1>2, <1>3, <1>4, StepCases

\* An instance does nothing with a log it has not loaded.
LEMMA FreshOwn ==
    ASSUME LogTypes, FlagTypes, CountTypes, CallTypes, NEW i \in Instance, FreshAt(i), Acts(i)
    PROVE  FreshAt(i)'
<1>1. CASE LookForPath(i) \/ LookForTmp(i) \/ Load(i) \/ Unload(i)
      BY <1>1 DEF FreshAt, Loading, Phase, InUse, LogTypes, FlagTypes, CountTypes,
                  CallTypes, lifeVars, logVars, LookForPath, LookForTmp, Load, Unload
<1>2. CASE Close(i)
      BY <1>2 DEF FreshAt, Loading, Phase, InUse, LogTypes, FlagTypes, CountTypes,
                  CallTypes, lifeVars, logVars, Close, Flush
<1>3. CASE Touch(i)
      BY <1>3 DEF FreshAt, Loading, Phase, InUse, LogTypes, FlagTypes, CountTypes,
                  CallTypes, lifeVars, logVars, Touch, Flush
<1>4. CASE TimerFires(i)
      BY <1>4 DEF FreshAt, Loading, Phase, InUse, LogTypes, FlagTypes, CountTypes,
                  CallTypes, lifeVars, logVars, TimerFires, Flush
<1>5. CASE PersistNow(i)
      BY <1>5 DEF FreshAt, Loading, Phase, InUse, LogTypes, FlagTypes, CountTypes,
                  CallTypes, lifeVars, logVars, PersistNow, Flush
<1>6. CASE SkipWrite(i)
      BY <1>6 DEF FreshAt, Loading, Phase, InUse, LogTypes, FlagTypes, CountTypes,
                  CallTypes, lifeVars, logVars, SkipWrite, JobDone, Rest
<1>7. CASE BeginWrite(i)
      BY <1>7 DEF FreshAt, Loading, Phase, InUse, LogTypes, FlagTypes, CountTypes,
                  CallTypes, lifeVars, logVars, BeginWrite, Rest
<1>8. CASE EmptyTmp(i) \/ FillTmp(i) \/ ExistsPath(i) \/ RemovePath(i) \/
           RenameRefused(i) \/ EmptyPath(i) \/ FillPath(i)
      BY <1>8 DEF FreshAt, Loading, Phase, InUse, LogTypes, FlagTypes, CountTypes,
                  CallTypes, lifeVars, logVars, EmptyTmp, GoTo, Rest, FillTmp, ExistsPath,
                  RemovePath, RenameRefused, EmptyPath, FillPath
<1>9. CASE RenameTmp(i) \/ RemoveTmp(i)
      BY <1>9 DEF FreshAt, Loading, Phase, InUse, LogTypes, FlagTypes, CountTypes,
                  CallTypes, lifeVars, logVars, RenameTmp, Wrote, JobDone, Rest, RemoveTmp
<1>10. CASE StorageFails(i)
      BY <1>10 DEF FreshAt, Loading, Phase, InUse, LogTypes, FlagTypes, CountTypes,
                   CallTypes, lifeVars, logVars, StorageFails, TmpFails, InPlaceFails,
                   CleanUpFails, GoTo, Wrote, JobDone, Rest
<1>   QED
      BY <1>1, <1>2, <1>3, <1>4, <1>5, <1>6, <1>7, <1>8, <1>9, <1>10 DEF Acts, Loads, Asks,
                                                                         Write

\* Fresh is preserved.
LEMMA FreshHolds ==
    ASSUME LogTypes, FlagTypes, CountTypes, CallTypes, HistTypes, Turns, Fresh, [Next]_vars
    PROVE  Fresh'
<1>1. CASE Start
      BY <1>1 DEF Start, Fresh, FreshAt, Turns, LogTypes, HistTypes, Loading, logVars,
                  Instance
<1>2. CASE Crash
      BY <1>2 DEF Crash, Fresh, FreshAt
<1>3. CASE UNCHANGED vars
      BY <1>3 DEF Fresh, FreshAt, vars, lifeVars, logVars
<1>4. ASSUME NEW i \in Instance, Acts(i) PROVE Fresh'
  <2>1. FreshAt(i)'
        BY <1>4, FreshOwn DEF Fresh
  <2>2. ASSUME NEW j \in Instance \ {i} PROVE FreshAt(j)'
    <3>1. SameAt(j) /\ owner' = owner /\ world' = world
          BY <1>4, Alone, Before
    <3>   QED
          BY <3>1 DEF Fresh, SameAt, FreshAt
  <2>   QED
        BY <2>1, <2>2 DEF Fresh
<1>   QED
      BY <1>1, <1>2, <1>3, <1>4, StepCases

\* Nothing is asked of a log after its close, unless requests are late.
LEMMA ClosedOwn ==
    ASSUME LogTypes, FlagTypes, CountTypes, CallTypes, NEW i \in Instance, FreshAt(i),
           ClosedAt(i), Acts(i)
    PROVE  ClosedAt(i)'
<1>1. CASE LookForPath(i) \/ LookForTmp(i) \/ Load(i) \/ Unload(i)
      BY <1>1 DEF FreshAt, ClosedAt, Loading, InUse, histVars, LogTypes, FlagTypes,
                  CountTypes, CallTypes, lifeVars, logVars, LookForPath, LookForTmp, Load,
                  Unload
<1>2. CASE Close(i)
      BY <1>2 DEF FreshAt, ClosedAt, Loading, InUse, histVars, LogTypes, FlagTypes,
                  CountTypes, CallTypes, lifeVars, logVars, Close, Flush
<1>3. CASE Touch(i)
      BY <1>3 DEF FreshAt, ClosedAt, Loading, InUse, histVars, LogTypes, FlagTypes,
                  CountTypes, CallTypes, lifeVars, logVars, Touch, Flush
<1>4. CASE TimerFires(i)
      BY <1>4 DEF FreshAt, ClosedAt, Loading, InUse, histVars, LogTypes, FlagTypes,
                  CountTypes, CallTypes, lifeVars, logVars, TimerFires, Flush
<1>5. CASE PersistNow(i)
      BY <1>5 DEF FreshAt, ClosedAt, Loading, InUse, histVars, LogTypes, FlagTypes,
                  CountTypes, CallTypes, lifeVars, logVars, PersistNow, Flush
<1>6. CASE SkipWrite(i)
      BY <1>6 DEF FreshAt, ClosedAt, Loading, InUse, histVars, LogTypes, FlagTypes,
                  CountTypes, CallTypes, lifeVars, logVars, SkipWrite, JobDone, Rest
<1>7. CASE BeginWrite(i)
      BY <1>7 DEF FreshAt, ClosedAt, Loading, InUse, histVars, LogTypes, FlagTypes,
                  CountTypes, CallTypes, lifeVars, logVars, BeginWrite, Rest
<1>8. CASE EmptyTmp(i) \/ FillTmp(i) \/ ExistsPath(i) \/ RemovePath(i) \/
           RenameRefused(i) \/ EmptyPath(i) \/ FillPath(i)
      BY <1>8 DEF FreshAt, ClosedAt, Loading, InUse, histVars, LogTypes, FlagTypes,
                  CountTypes, CallTypes, lifeVars, logVars, EmptyTmp, GoTo, Rest, FillTmp,
                  ExistsPath, RemovePath, RenameRefused, EmptyPath, FillPath
<1>9. CASE RenameTmp(i) \/ RemoveTmp(i)
      BY <1>9 DEF FreshAt, ClosedAt, Loading, InUse, histVars, LogTypes, FlagTypes,
                  CountTypes, CallTypes, lifeVars, logVars, RenameTmp, Wrote, JobDone,
                  Rest, RemoveTmp
<1>10. CASE StorageFails(i)
      BY <1>10 DEF FreshAt, ClosedAt, Loading, InUse, histVars, LogTypes, FlagTypes,
                   CountTypes, CallTypes, lifeVars, logVars, StorageFails, TmpFails,
                   InPlaceFails, CleanUpFails, GoTo, Wrote, JobDone, Rest
<1>   QED
      BY <1>1, <1>2, <1>3, <1>4, <1>5, <1>6, <1>7, <1>8, <1>9, <1>10 DEF Acts, Loads, Asks,
                                                                         Write

\* Closed is preserved.
LEMMA ClosedHolds ==
    ASSUME LogTypes, FlagTypes, CountTypes, CallTypes, HistTypes, Turns, Fresh, Closed,
           [Next]_vars
    PROVE  Closed'
<1>1. CASE Start
      BY <1>1 DEF Start, Closed, ClosedAt, Fresh, FreshAt, Turns, LogTypes, HistTypes,
                  Loading, logVars, histVars, Instance
<1>2. CASE Crash
      BY <1>2 DEF Crash, Closed, ClosedAt
<1>3. CASE UNCHANGED vars
      BY <1>3 DEF Closed, ClosedAt, vars, lifeVars, logVars, histVars
<1>4. ASSUME NEW i \in Instance, Acts(i) PROVE Closed'
  <2>1. ClosedAt(i)'
        BY <1>4, ClosedOwn DEF Closed, Fresh
  <2>2. ASSUME NEW j \in Instance \ {i} PROVE ClosedAt(j)'
    <3>1. SameAt(j) /\ owner' = owner /\ world' = world
          BY <1>4, Alone, Before
    <3>   QED
          BY <3>1 DEF Closed, SameAt, ClosedAt
  <2>   QED
        BY <2>1, <2>2 DEF Closed
<1>   QED
      BY <1>1, <1>2, <1>3, <1>4, StepCases

\* A write takes all that its callers were to have saved, and a log without
\* unwritten changes was written.
LEMMA ChainOwn ==
    ASSUME LogTypes, FlagTypes, CountTypes, CallTypes, NEW i \in Instance, FreshAt(i),
           ChainAt(i), Acts(i)
    PROVE  ChainAt(i)'
<1>1. CASE LookForPath(i) \/ Unload(i)
      BY <1>1 DEF FreshAt, ChainAt, Loading, LogTypes, FlagTypes, CountTypes, CallTypes,
                  lifeVars, logVars, LookForPath, Unload
<1>2. CASE LookForTmp(i)
      BY <1>2 DEF FreshAt, ChainAt, Loading, LogTypes, FlagTypes, CountTypes, CallTypes,
                  lifeVars, logVars, LookForTmp
<1>3. CASE Load(i)
      BY <1>3 DEF FreshAt, ChainAt, Loading, LogTypes, FlagTypes, CountTypes, CallTypes,
                  lifeVars, logVars, Load
<1>4. CASE Close(i)
      BY <1>4 DEF FreshAt, ChainAt, Loading, LogTypes, FlagTypes, CountTypes, CallTypes,
                  lifeVars, logVars, Close, Flush
<1>5. CASE Touch(i)
      BY <1>5 DEF FreshAt, ChainAt, Loading, LogTypes, FlagTypes, CountTypes, CallTypes,
                  lifeVars, logVars, Touch, Flush
<1>6. CASE TimerFires(i)
      BY <1>6 DEF FreshAt, ChainAt, Loading, LogTypes, FlagTypes, CountTypes, CallTypes,
                  lifeVars, logVars, TimerFires, Flush
<1>7. CASE PersistNow(i)
      BY <1>7 DEF FreshAt, ChainAt, Loading, LogTypes, FlagTypes, CountTypes, CallTypes,
                  lifeVars, logVars, PersistNow, Flush
<1>8. CASE SkipWrite(i)
      BY <1>8 DEF FreshAt, ChainAt, Loading, LogTypes, FlagTypes, CountTypes, CallTypes,
                  lifeVars, logVars, SkipWrite, JobDone, Rest
<1>9. CASE BeginWrite(i)
      BY <1>9 DEF FreshAt, ChainAt, Loading, LogTypes, FlagTypes, CountTypes, CallTypes,
                  lifeVars, logVars, BeginWrite, Rest
<1>10. CASE EmptyTmp(i) \/ FillTmp(i) \/ ExistsPath(i) \/ RemovePath(i) \/
            RenameRefused(i) \/ EmptyPath(i) \/ FillPath(i)
      BY <1>10 DEF FreshAt, ChainAt, Loading, LogTypes, FlagTypes, CountTypes, CallTypes,
                   lifeVars, logVars, EmptyTmp, GoTo, Rest, FillTmp, ExistsPath,
                   RemovePath, RenameRefused, EmptyPath, FillPath
<1>11. CASE RenameTmp(i)
      BY <1>11 DEF FreshAt, ChainAt, Loading, LogTypes, FlagTypes, CountTypes, CallTypes,
                   lifeVars, logVars, RenameTmp, Wrote, JobDone, Rest
<1>12. CASE RemoveTmp(i)
      BY <1>12 DEF FreshAt, ChainAt, Loading, LogTypes, FlagTypes, CountTypes, CallTypes,
                   lifeVars, logVars, RemoveTmp, Wrote, JobDone, Rest
<1>13. CASE StorageFails(i)
      BY <1>13 DEF FreshAt, ChainAt, Loading, LogTypes, FlagTypes, CountTypes, CallTypes,
                   lifeVars, logVars, StorageFails, TmpFails, InPlaceFails, CleanUpFails,
                   GoTo, Wrote, JobDone, Rest
<1>   QED
      BY <1>1, <1>2, <1>3, <1>4, <1>5, <1>6, <1>7, <1>8, <1>9, <1>10, <1>11, <1>12,
         <1>13 DEF Acts, Loads, Asks, Write

\* Chain is preserved.
LEMMA ChainHolds ==
    ASSUME LogTypes, FlagTypes, CountTypes, CallTypes, HistTypes, Turns, Fresh, Chain,
           [Next]_vars
    PROVE  Chain'
<1>1. CASE Start
      BY <1>1 DEF Start, Chain, ChainAt, Fresh, FreshAt, Turns, LogTypes, HistTypes,
                  Loading, logVars, Instance
<1>2. CASE Crash
      BY <1>2 DEF Crash, Chain, ChainAt
<1>3. CASE UNCHANGED vars
      BY <1>3 DEF Chain, ChainAt, vars, lifeVars, logVars
<1>4. ASSUME NEW i \in Instance, Acts(i) PROVE Chain'
  <2>1. ChainAt(i)'
        BY <1>4, ChainOwn DEF Chain, Fresh
  <2>2. ASSUME NEW j \in Instance \ {i} PROVE ChainAt(j)'
    <3>1. SameAt(j) /\ owner' = owner /\ world' = world
          BY <1>4, Alone, Before
    <3>   QED
          BY <3>1 DEF Chain, SameAt, ChainAt
  <2>   QED
        BY <2>1, <2>2 DEF Chain
<1>   QED
      BY <1>1, <1>2, <1>3, <1>4, StepCases

-----------------------------------------------------------------------------
(***************************************************************************)
(* Strays.                                                                 *)
(***************************************************************************)

\* A change made now is in nothing that was there before.
LEMMA MadeNow ==
    ASSUME HistTypes, stray \subseteq 1..made, NEW i \in Instance, Touch(i), NEW S, OutOfFile(S)
    PROVE  OutOfFile(S)'
<1>1. /\ made \in Nat /\ made' = made + 1 /\ stray' \subseteq stray \cup {made + 1}
      BY DEF Touch, HistTypes
<1>   QED
      BY <1>1 DEF OutOfFile

\* No other step makes one.
LEMMA MadeBefore ==
    ASSUME NEW i \in Instance, Acts(i), ~Touch(i)
    PROVE  made' = made /\ stray' = stray
<1>1. CASE LookForPath(i) \/ LookForTmp(i) \/ Load(i) \/ Unload(i) \/ Close(i) \/
           TimerFires(i) \/ PersistNow(i) \/ EmptyTmp(i) \/ FillTmp(i) \/
           ExistsPath(i) \/ RemovePath(i) \/ RenameRefused(i) \/ EmptyPath(i) \/
           FillPath(i) \/ BeginWrite(i) \/ SkipWrite(i) \/ RenameTmp(i) \/ RemoveTmp(i)
      BY <1>1 DEF histVars, LookForPath, LookForTmp, Load, Unload, Close, TimerFires,
                  PersistNow, EmptyTmp, Rest, FillTmp, ExistsPath, RemovePath,
                  RenameRefused, EmptyPath, FillPath, BeginWrite, SkipWrite, RenameTmp,
                  RemoveTmp
<1>2. CASE StorageFails(i)
      BY <1>2 DEF histVars, StorageFails, TmpFails, InPlaceFails, CleanUpFails, Rest
<1>   QED
      BY <1>1, <1>2 DEF Acts, Loads, Asks, Write

\* What is written to the storage was taken while the file was the instance's.
LEMMA StraysOnDiskOwn ==
    ASSUME DiskTypes, StraysOnDisk, NEW i \in Instance, OutOfFile(snap[i]), Acts(i),
           ~Touch(i), made' = made, stray' = stray
    PROVE  StraysOnDisk'
<1>1. CASE LookForPath(i) \/ LookForTmp(i) \/ Load(i) \/ Unload(i) \/ Close(i) \/
           TimerFires(i) \/ PersistNow(i) \/ SkipWrite(i) \/ BeginWrite(i) \/
           ExistsPath(i) \/ RenameRefused(i)
      BY <1>1 DEF DiskTypes, File, StraysOnDisk, OutOfFile, diskVars, LookForPath,
                  LookForTmp, Load, Text, Unload, Close, Flush, TimerFires, PersistNow,
                  SkipWrite, JobDone, Rest, BeginWrite, ExistsPath, GoTo, RenameRefused
<1>2. CASE EmptyTmp(i)
      BY <1>2 DEF DiskTypes, File, StraysOnDisk, OutOfFile, diskVars, EmptyTmp, GoTo, Rest,
                  Emptied
<1>3. CASE FillTmp(i)
      BY <1>3 DEF DiskTypes, File, StraysOnDisk, OutOfFile, diskVars, FillTmp, Fill,
                  Filled, GoTo, Rest
<1>4. CASE RemovePath(i)
      BY <1>4 DEF DiskTypes, File, StraysOnDisk, OutOfFile, diskVars, RemovePath, GoTo,
                  Rest, Absent
<1>5. CASE RenameTmp(i)
      BY <1>5 DEF DiskTypes, File, StraysOnDisk, OutOfFile, diskVars, RenameTmp, Wrote,
                  JobDone, Rest, Absent
<1>6. CASE EmptyPath(i)
      BY <1>6 DEF DiskTypes, File, StraysOnDisk, OutOfFile, diskVars, EmptyPath, GoTo,
                  Rest, Emptied
<1>7. CASE FillPath(i)
      BY <1>7 DEF DiskTypes, File, StraysOnDisk, OutOfFile, diskVars, FillPath, Fill,
                  Filled, GoTo, Rest
<1>8. CASE RemoveTmp(i)
      BY <1>8 DEF DiskTypes, File, StraysOnDisk, OutOfFile, diskVars, RemoveTmp, Wrote,
                  JobDone, Rest, Absent
<1>9. CASE StorageFails(i)
      BY <1>9 DEF DiskTypes, File, StraysOnDisk, OutOfFile, diskVars, StorageFails,
                  TmpFails, InPlaceFails, CleanUpFails, GoTo, Wrote, JobDone, Rest
<1>   QED
      BY <1>1, <1>2, <1>3, <1>4, <1>5, <1>6, <1>7, <1>8, <1>9 DEF Acts, Loads, Asks, Write

\* A log that has the file loads, keeps and writes no stray.
LEMMA StraysOwn ==
    ASSUME DiskTypes, LogTypes, CallTypes, StraysOnDisk, NEW i \in Instance, StraysAt(i),
           Acts(i), ~Touch(i), made' = made, stray' = stray
    PROVE  StraysAt(i)'
<1>1. CASE LookForPath(i) \/ LookForTmp(i) \/ Unload(i)
      BY <1>1 DEF StraysAt, OutOfFile, LogTypes, CallTypes, lifeVars, logVars, LookForPath,
                  LookForTmp, Unload
<1>2. CASE Load(i)
      BY <1>2 DEF StraysAt, StraysOnDisk, OutOfFile, LogTypes, CallTypes, lifeVars,
                  logVars, Load, Text
<1>3. CASE Close(i) \/ TimerFires(i)
      BY <1>3 DEF StraysAt, OutOfFile, LogTypes, CallTypes, lifeVars, logVars, Close,
                  Flush, TimerFires
<1>4. CASE PersistNow(i)
      BY <1>4 DEF StraysAt, OutOfFile, LogTypes, CallTypes, lifeVars, logVars, PersistNow,
                  Flush
<1>5. CASE SkipWrite(i)
      BY <1>5 DEF StraysAt, OutOfFile, LogTypes, CallTypes, lifeVars, logVars, SkipWrite,
                  JobDone, Rest
<1>6. CASE BeginWrite(i)
      BY <1>6 DEF StraysAt, OutOfFile, LogTypes, CallTypes, lifeVars, logVars, BeginWrite,
                  Rest
<1>7. CASE EmptyTmp(i) \/ FillTmp(i) \/ ExistsPath(i) \/ RemovePath(i) \/
           RenameRefused(i) \/ EmptyPath(i) \/ FillPath(i)
      BY <1>7 DEF StraysAt, OutOfFile, LogTypes, CallTypes, lifeVars, logVars, EmptyTmp,
                  GoTo, Rest, FillTmp, ExistsPath, RemovePath, RenameRefused, EmptyPath,
                  FillPath
<1>8. CASE RenameTmp(i)
      BY <1>8 DEF StraysAt, OutOfFile, LogTypes, CallTypes, lifeVars, logVars, RenameTmp,
                  Wrote, JobDone, Rest
<1>9. CASE RemoveTmp(i)
      BY <1>9 DEF StraysAt, OutOfFile, LogTypes, CallTypes, lifeVars, logVars, RemoveTmp,
                  Wrote, JobDone, Rest
<1>10. CASE StorageFails(i)
      BY <1>10 DEF StraysAt, OutOfFile, LogTypes, CallTypes, lifeVars, logVars,
                   StorageFails, TmpFails, InPlaceFails, CleanUpFails, GoTo, Wrote,
                   JobDone, Rest
<1>   QED
      BY <1>1, <1>2, <1>3, <1>4, <1>5, <1>6, <1>7, <1>8, <1>9, <1>10 DEF Acts, Loads, Asks,
                                                                         Write

\* None is acknowledged.
LEMMA StraysAcked ==
    ASSUME DiskTypes, LogTypes, CallTypes, OutOfFile(acked), NEW i \in Instance,
           StraysAt(i), Acts(i), ~Touch(i), made' = made, stray' = stray
    PROVE  OutOfFile(acked)'
<1>1. CASE LookForPath(i) \/ LookForTmp(i) \/ Load(i) \/ Unload(i) \/ Close(i) \/
           TimerFires(i)
      BY <1>1 DEF StraysAt, OutOfFile, histVars, LookForPath, LookForTmp, Load, Unload,
                  Close, Flush, TimerFires
<1>2. CASE PersistNow(i)
      BY <1>2 DEF StraysAt, OutOfFile, histVars, PersistNow, Flush
<1>3. CASE SkipWrite(i) \/ RenameTmp(i) \/ RemoveTmp(i)
  <2> DEFINE docs == UNION {w.doc : w \in {v \in waits[i] : v.job <= done[i] + 1}}
  <2>1. OutOfFile(docs)
        BY DEF StraysAt, OutOfFile
  <2>2. acked' = acked \/ acked' = acked \cup docs
        BY <1>3 DEF SkipWrite, RenameTmp, RemoveTmp, Wrote, JobDone
  <2>   QED
        BY <2>1, <2>2 DEF OutOfFile
<1>4. CASE EmptyTmp(i) \/ FillTmp(i) \/ ExistsPath(i) \/ RemovePath(i) \/
           RenameRefused(i) \/ EmptyPath(i) \/ FillPath(i) \/ BeginWrite(i)
      BY <1>4 DEF StraysAt, OutOfFile, histVars, EmptyTmp, GoTo, Rest, FillTmp, ExistsPath,
                  RemovePath, RenameRefused, EmptyPath, FillPath, BeginWrite
<1>5. CASE StorageFails(i)
      BY <1>5 DEF StraysAt, OutOfFile, histVars, StorageFails, TmpFails, InPlaceFails,
                  CleanUpFails, GoTo, Wrote, JobDone, Rest
<1>   QED
      BY <1>1, <1>2, <1>3, <1>4, <1>5 DEF Acts, Loads, Asks, Write

\* What an older instance does stays out of the file.
LEMMA StraysHold ==
    ASSUME TypeOK, Turns, Fresh, Strays, [Next]_vars
    PROVE  Strays'
<1>t. DiskTypes /\ LogTypes /\ FlagTypes /\ CountTypes /\ CallTypes /\ HistTypes
      BY TypeParts
<1>1. CASE Start
  <2>1. UNCHANGED <<made, stray, acked, path, tmp, mem, snap, waits>>
        BY <1>1 DEF Start, diskVars, logVars, histVars
  <2>2. \A i \in Instance : owner' = i => mem[i] = {}
        BY <1>1, <1>t DEF Start, Turns, Fresh, FreshAt, Instance, HistTypes
  <2>   QED
        BY <2>1, <2>2 DEF Strays, StraysAt, StraysOnDisk, OutOfFile
<1>2. CASE Crash
  <2>1. /\ UNCHANGED <<made, stray, acked>>
        /\ path'.doc = path.doc /\ tmp'.doc = tmp.doc
        BY <1>2, <1>t DEF Crash, DiskTypes, File
  <2>2. \A i \in Instance : mem'[i] = {} /\ snap'[i] = {} /\ waits'[i] = {}
        BY <1>2 DEF Crash
  <2>   QED
        BY <2>1, <2>2 DEF Strays, StraysAt, StraysOnDisk, OutOfFile
<1>3. CASE UNCHANGED vars
      BY <1>3 DEF Strays, StraysAt, StraysOnDisk, OutOfFile, vars, diskVars, lifeVars,
                  logVars, histVars
<1>4. ASSUME NEW i \in Instance, Touch(i) PROVE Strays'
  <2>1. \A S : OutOfFile(S) => OutOfFile(S)'
        BY <1>4, <1>t, MadeNow DEF Strays
  <2>2. /\ UNCHANGED <<path, tmp, acked, snap, waits, owner>> /\ made \in Nat /\ made' = made + 1
        /\ mem' = [mem EXCEPT ![i] = @ \cup {made + 1}]
        /\ stray' = IF owner = i THEN stray ELSE stray \cup {made + 1}
        BY <1>4, <1>t DEF Touch, diskVars, lifeVars, HistTypes
  <2>3. stray' \subseteq 1..made' /\ OutOfFile(acked)' /\ StraysOnDisk'
        BY <2>1, <2>2 DEF Strays, StraysOnDisk, OutOfFile
  <2>4. ASSUME NEW j \in Instance PROVE StraysAt(j)'
    <3>1. mem'[j] \subseteq 1..made'
          BY <1>t, <2>2 DEF Strays, StraysAt, LogTypes
    <3>2. OutOfFile(snap[j])' /\ \A w \in waits'[j] : OutOfFile(w.doc)'
          BY <2>1, <2>2 DEF Strays, StraysAt, OutOfFile
    <3>3. owner' = j => OutOfFile(mem[j])'
          BY <1>t, <2>2 DEF Strays, StraysAt, OutOfFile, LogTypes
    <3>   QED
          BY <3>1, <3>2, <3>3 DEF StraysAt, OutOfFile
  <2>   QED
        BY <2>3, <2>4 DEF Strays
<1>5. ASSUME NEW i \in Instance, Acts(i), ~Touch(i) PROVE Strays'
  <2>1. made' = made /\ stray' = stray /\ owner' = owner
        BY <1>5, MadeBefore, Before
  <2>2. OutOfFile(acked)' /\ StraysOnDisk' /\ StraysAt(i)'
        BY <1>5, <1>t, <2>1, StraysAcked, StraysOnDiskOwn, StraysOwn DEF Strays, StraysAt
  <2>3. ASSUME NEW j \in Instance \ {i} PROVE StraysAt(j)'
        BY <1>5, <1>t, <2>1, Alone DEF Strays, StraysAt, OutOfFile, SameAt
  <2>   QED
        BY <2>1, <2>2, <2>3 DEF Strays
<1>   QED
      BY <1>1, <1>2, <1>3, <1>4, <1>5, StepCases

-----------------------------------------------------------------------------
(***************************************************************************)
(* The storage, when a start waits for the instance before.                *)
(***************************************************************************)

\* Only the instance that has the file goes on.
LEMMA OwnerActs ==
    ASSUME CountTypes, NEW i \in Instance, FreshAt(i), ClosedAt(i),
           phase[i] \in {"none", "stopping"}, Quiet(i), InTurn, Acts(i)
    PROVE  FALSE
<1>1. CASE LookForPath(i) \/ LookForTmp(i) \/ Load(i) \/ Unload(i)
      BY <1>1 DEF Quiet, CountTypes, FreshAt, ClosedAt, InTurn, InUse, LookForPath,
                  LookForTmp, Load, Unload
<1>2. CASE Close(i)
      BY <1>2 DEF Quiet, CountTypes, FreshAt, ClosedAt, InTurn, InUse, Close
<1>3. CASE Touch(i)
      BY <1>3 DEF Quiet, CountTypes, FreshAt, ClosedAt, InTurn, InUse, Touch
<1>4. CASE TimerFires(i)
      BY <1>4 DEF Quiet, CountTypes, FreshAt, ClosedAt, InTurn, InUse, TimerFires
<1>5. CASE PersistNow(i)
      BY <1>5 DEF Quiet, CountTypes, FreshAt, ClosedAt, InTurn, InUse, PersistNow
<1>6. CASE SkipWrite(i) \/ RenameTmp(i) \/ RemoveTmp(i) \/ EmptyTmp(i) \/ FillTmp(i) \/
           ExistsPath(i) \/ RemovePath(i) \/ RenameRefused(i) \/ EmptyPath(i) \/
           FillPath(i) \/ BeginWrite(i)
      BY <1>6 DEF Quiet, CountTypes, FreshAt, ClosedAt, InTurn, InUse, SkipWrite,
                  RenameTmp, RemoveTmp, EmptyTmp, FillTmp, ExistsPath, RemovePath,
                  RenameRefused, EmptyPath, FillPath, BeginWrite
<1>7. CASE StorageFails(i)
      BY <1>7 DEF Quiet, CountTypes, FreshAt, ClosedAt, InTurn, InUse, StorageFails,
                  TmpFails, InPlaceFails, CleanUpFails
<1>   QED
      BY <1>1, <1>2, <1>3, <1>4, <1>5, <1>6, <1>7 DEF Acts, Loads, Asks, Write

\* When starts wait, nothing is left to do for an instance that loses the file.
LEMMA OthersHold ==
    ASSUME TypeOK, Turns, Fresh, Chain, Closed, InTurn, Others, [Next]_vars
    PROVE  Others'
<1>t. DiskTypes /\ LogTypes /\ FlagTypes /\ CountTypes /\ CallTypes /\ HistTypes
      BY TypeParts
<1>1. CASE Start
  <2>1. /\ UNCHANGED <<closed, closing, timer, step, issued, done>>
        /\ owner' = started + 1
        /\ \A j \in Instance : owner' # j => phase'[j] = phase[j]
        BY <1>1, <1>t DEF Start, logVars, LogTypes
  <2>2. ASSUME NEW j \in Instance, owner' # j, j # owner PROVE Quiet(j)'
        BY <2>1, <2>2 DEF Others, Quiet
  <2>3. ASSUME NEW j \in Instance, owner' # j, j = owner PROVE Quiet(j)'
    <3>1. closed[j] /\ done[j] >= closing[j]
          BY <1>1, <2>3 DEF Start, Turns, TornDown, InTurn
    <3>2. ~timer[j] /\ issued[j] = closing[j] /\ done[j] <= issued[j]
          BY <3>1 DEF Closed, ClosedAt, InTurn, Chain, ChainAt
    <3>3. issued[j] = done[j] /\ step[j] = "idle"
          BY <1>t, <3>1, <3>2 DEF Chain, ChainAt, CountTypes
    <3>   QED
          BY <2>1, <3>1, <3>2, <3>3 DEF Quiet
  <2>   QED
        BY <2>2, <2>3 DEF Others
<1>2. CASE Crash
      BY <1>2 DEF Crash, Others, Quiet
<1>3. CASE UNCHANGED vars
      BY <1>3 DEF Others, Quiet, vars, lifeVars, logVars
<1>4. ASSUME NEW i \in Instance, Acts(i) PROVE Others'
  <2>1. i = owner
        BY <1>4, <1>t, OwnerActs DEF Turns, Fresh, Closed, Others
  <2>   QED
        BY <1>4, <1>t, <2>1, Alone, Before DEF Others, Quiet, SameAt
<1>   QED
      BY <1>1, <1>2, <1>3, <1>4, StepCases

\* A log that is not loaded is only loaded.
LEMMA OnlyLoads ==
    ASSUME CountTypes, NEW i \in Instance, FreshAt(i), phase[i] \in Loading, Acts(i)
    PROVE  LookForPath(i) \/ LookForTmp(i) \/ Load(i)
<1>1. CASE LookForPath(i) \/ LookForTmp(i) \/ Load(i)
      BY <1>1 DEF CountTypes, FreshAt, Loading, InUse, LookForPath, LookForTmp, Load
<1>2. CASE Unload(i)
      BY <1>2 DEF CountTypes, FreshAt, Loading, InUse, Unload
<1>3. CASE Close(i)
      BY <1>3 DEF CountTypes, FreshAt, Loading, InUse, Close
<1>4. CASE Touch(i)
      BY <1>4 DEF CountTypes, FreshAt, Loading, InUse, Touch
<1>5. CASE TimerFires(i)
      BY <1>5 DEF CountTypes, FreshAt, Loading, InUse, TimerFires
<1>6. CASE PersistNow(i)
      BY <1>6 DEF CountTypes, FreshAt, Loading, InUse, PersistNow
<1>7. CASE EmptyTmp(i) \/ FillTmp(i) \/ ExistsPath(i) \/ RemovePath(i) \/
           RenameRefused(i) \/ EmptyPath(i) \/ FillPath(i) \/ SkipWrite(i) \/
           RenameTmp(i) \/ RemoveTmp(i) \/ BeginWrite(i)
      BY <1>7 DEF CountTypes, FreshAt, Loading, InUse, EmptyTmp, FillTmp, ExistsPath,
                  RemovePath, RenameRefused, EmptyPath, FillPath, SkipWrite, RenameTmp,
                  RemoveTmp, BeginWrite
<1>8. CASE StorageFails(i)
      BY <1>8 DEF CountTypes, FreshAt, Loading, InUse, StorageFails, TmpFails,
                  InPlaceFails, CleanUpFails
<1>   QED
      BY <1>1, <1>2, <1>3, <1>4, <1>5, <1>6, <1>7, <1>8 DEF Acts, Loads, Asks, Write

\* The load finds what is there.
LEMMA LoadStorage ==
    ASSUME DiskTypes, LogTypes, CountTypes, NEW i \in Instance, FreshAt(i),
           phase[i] \in Loading, InLoad(i), Acts(i)
    PROVE  StorageAt(i)'
<1>1. CASE LookForPath(i)
      BY <1>1 DEF LookForPath, StorageAt, InLoad, Loading, LogTypes, diskVars
<1>2. CASE LookForTmp(i)
      BY <1>2 DEF LookForTmp, StorageAt, InLoad, InWrite, Loading, LogTypes, diskVars,
                  logVars, FreshAt
<1>3. CASE Load(i)
      BY <1>3 DEF Load, StorageAt, InLoad, InWrite, Loading, LogTypes, diskVars, FreshAt,
                  Recovered
<1>   QED
      BY <1>1, <1>2, <1>3, OnlyLoads

\* A step of a write leaves the storage as the next one expects it.
LEMMA WriteStorage ==
    ASSUME DiskTypes, LogTypes, FlagTypes, CountTypes, NEW i \in Instance, owner = i,
           FreshAt(i), phase[i] \notin Loading, ChainAt(i), InWrite(i), Acts(i)
    PROVE  phase'[i] \notin Loading /\ InWrite(i)'
<1>1. CASE LookForPath(i)
      BY <1>1 DEF DiskTypes, LogTypes, FlagTypes, File, InWrite, ChainAt, Recovered, Text,
                  Loading, diskVars, lifeVars, logVars, LookForPath
<1>2. CASE LookForTmp(i)
      BY <1>2 DEF DiskTypes, LogTypes, FlagTypes, File, InWrite, ChainAt, Recovered, Text,
                  Loading, diskVars, lifeVars, logVars, LookForTmp
<1>3. CASE Load(i)
      BY <1>3 DEF DiskTypes, LogTypes, FlagTypes, File, InWrite, ChainAt, Recovered, Text,
                  Loading, diskVars, lifeVars, logVars, Load
<1>4. CASE Unload(i)
      BY <1>4 DEF DiskTypes, LogTypes, FlagTypes, File, InWrite, ChainAt, Recovered, Text,
                  Loading, diskVars, lifeVars, logVars, Unload
<1>5. CASE Close(i) \/ TimerFires(i) \/ PersistNow(i)
      BY <1>5 DEF DiskTypes, LogTypes, FlagTypes, File, InWrite, ChainAt, Recovered, Text,
                  Loading, diskVars, lifeVars, logVars, Close, Flush, TimerFires,
                  PersistNow
<1>6. CASE Touch(i)
      BY <1>6 DEF DiskTypes, LogTypes, FlagTypes, File, InWrite, ChainAt, Recovered, Text,
                  Loading, diskVars, lifeVars, logVars, Touch, Flush
<1>7. CASE SkipWrite(i)
      BY <1>7 DEF DiskTypes, LogTypes, FlagTypes, File, InWrite, ChainAt, Recovered, Text,
                  Loading, diskVars, lifeVars, logVars, SkipWrite, JobDone, Rest
<1>8. CASE BeginWrite(i)
      BY <1>8 DEF DiskTypes, LogTypes, FlagTypes, File, InWrite, ChainAt, Recovered, Text,
                  Loading, diskVars, lifeVars, logVars, BeginWrite, Rest
<1>9. CASE EmptyTmp(i)
      BY <1>9 DEF DiskTypes, LogTypes, FlagTypes, File, InWrite, ChainAt, Recovered, Text,
                  Loading, diskVars, lifeVars, logVars, EmptyTmp, GoTo, Rest, Emptied
<1>10. CASE FillTmp(i)
      BY <1>10 DEF DiskTypes, LogTypes, FlagTypes, File, InWrite, ChainAt, Recovered, Text,
                   Loading, diskVars, lifeVars, logVars, FillTmp, Fill, Filled, GoTo, Rest
<1>11. CASE ExistsPath(i) \/ RenameRefused(i)
      BY <1>11 DEF DiskTypes, LogTypes, FlagTypes, File, InWrite, ChainAt, Recovered, Text,
                   Loading, diskVars, lifeVars, logVars, ExistsPath, GoTo, Rest,
                   RenameRefused
<1>12. CASE RemovePath(i)
      BY <1>12 DEF DiskTypes, LogTypes, FlagTypes, File, InWrite, ChainAt, Recovered, Text,
                   Loading, diskVars, lifeVars, logVars, RemovePath, GoTo, Rest, Absent
<1>13. CASE RenameTmp(i)
      BY <1>13 DEF DiskTypes, LogTypes, FlagTypes, File, InWrite, ChainAt, Recovered, Text,
                   Loading, diskVars, lifeVars, logVars, RenameTmp, Wrote, JobDone, Rest,
                   Absent
<1>14. CASE EmptyPath(i)
      BY <1>14 DEF DiskTypes, LogTypes, FlagTypes, File, InWrite, ChainAt, Recovered, Text,
                   Loading, diskVars, lifeVars, logVars, EmptyPath, GoTo, Rest, Emptied
<1>15. CASE FillPath(i)
      BY <1>15 DEF DiskTypes, LogTypes, FlagTypes, File, InWrite, ChainAt, Recovered, Text,
                   Loading, diskVars, lifeVars, logVars, FillPath, Fill, Filled, GoTo, Rest
<1>16. CASE RemoveTmp(i)
      BY <1>16 DEF DiskTypes, LogTypes, FlagTypes, File, InWrite, ChainAt, Recovered, Text,
                   Loading, diskVars, lifeVars, logVars, RemoveTmp, Wrote, JobDone, Rest,
                   Absent
<1>17. CASE StorageFails(i)
      BY <1>17 DEF DiskTypes, LogTypes, FlagTypes, File, InWrite, ChainAt, Recovered, Text,
                   Loading, diskVars, lifeVars, logVars, StorageFails, TmpFails,
                   InPlaceFails, CleanUpFails, GoTo, Wrote, JobDone, Rest
<1>   QED
      BY <1>1, <1>2, <1>3, <1>4, <1>5, <1>6, <1>7, <1>8, <1>9, <1>10, <1>11, <1>12,
         <1>13, <1>14, <1>15, <1>16, <1>17 DEF Acts, Loads, Asks, Write

\* Storage is preserved.
LEMMA StorageHolds ==
    ASSUME TypeOK, Turns, Fresh, Chain, Closed, InTurn, Others, Storage, [Next]_vars
    PROVE  Storage'
<1>t. DiskTypes /\ LogTypes /\ FlagTypes /\ CountTypes /\ CallTypes /\ HistTypes
      BY TypeParts
<1>1. CASE Start
  <2>1. /\ path' = path /\ tmp' = tmp
        /\ \A i \in Instance : owner' = i => phase'[i] = "claimed"
        BY <1>1, <1>t DEF Start, diskVars, LogTypes
  <2>2. path.by = {} /\ tmp.by = {}
    <3>1. CASE owner = 0
          BY <3>1 DEF Storage
    <3>2. ASSUME NEW i \in Instance, owner = i PROVE path.by = {} /\ tmp.by = {}
      <4>1. phase[i] = "stopping" /\ step[i] = "idle"
            BY <1>1, <1>t, <3>2 DEF Start, Turns, TornDown, InTurn, Closed, ClosedAt,
                                    Chain, ChainAt, CountTypes
      <4>   QED
            BY <3>2, <4>1 DEF Storage, StorageAt, InWrite, Loading
    <3>   QED
          BY <1>t, <3>1, <3>2 DEF Turns, HistTypes, Instance
  <2>   QED
        BY <2>1, <2>2 DEF Storage, StorageAt, InLoad, Loading
<1>2. CASE Crash
      BY <1>2, <1>t DEF Crash, Storage, DiskTypes, File, Instance
<1>3. CASE UNCHANGED vars
      BY <1>3 DEF Storage, StorageAt, InLoad, InWrite, Recovered, vars, diskVars, lifeVars,
                  logVars
<1>4. ASSUME NEW i \in Instance, Acts(i) PROVE Storage'
  <2>1. owner' = owner /\ i = owner /\ owner # 0
        BY <1>4, <1>t, Before, OwnerActs DEF Turns, Fresh, Closed, Others, Instance
  <2>2. StorageAt(i)'
        BY <1>4, <1>t, <2>1, LoadStorage, WriteStorage DEF Storage, StorageAt, Fresh, Chain
  <2>   QED
        BY <2>1, <2>2 DEF Storage
<1>   QED
      BY <1>1, <1>2, <1>3, <1>4, StepCases

\* The load finds what was acknowledged.
LEMMA LoadKept ==
    ASSUME DiskTypes, LogTypes, CountTypes, HistTypes, NEW i \in Instance, FreshAt(i),
           phase[i] \in Loading,
           InLoad(i), KeptOnDisk, Acts(i)
    PROVE  IF phase'[i] \in Loading THEN KeptOnDisk' ELSE KeptAt(i)'
<1>1. CASE LookForPath(i)
      BY <1>1 DEF LookForPath, KeptOnDisk, Recovered, Loading, LogTypes, diskVars, histVars
<1>2. CASE LookForTmp(i)
      BY <1>2 DEF LookForTmp, KeptOnDisk, KeptAt, Unhurt, InLoad, Recovered, Text, Loading,
                  LogTypes, diskVars, logVars, histVars, FreshAt
<1>3. CASE Load(i)
      BY <1>3 DEF Load, KeptOnDisk, KeptAt, Unhurt, InLoad, Loading, LogTypes, diskVars,
                  histVars, FreshAt, Recovered
<1>   QED
      BY <1>1, <1>2, <1>3, OnlyLoads

\* One fault, at whatever step of a write, costs nothing that was acknowledged.
LEMMA WriteKept ==
    ASSUME DiskTypes, LogTypes, FlagTypes, CountTypes, CallTypes, HistTypes,
           NEW i \in Instance, owner = i, FreshAt(i), phase[i] \notin Loading, ChainAt(i),
           InWrite(i), KeptAt(i), (crashes + fails <= 1)', Acts(i)
    PROVE  KeptAt(i)'
<1>1. CASE LookForPath(i) \/ LookForTmp(i) \/ Load(i) \/ Unload(i)
      BY <1>1 DEF DiskTypes, LogTypes, FlagTypes, CountTypes, HistTypes, CallTypes, File,
                  InWrite, ChainAt, KeptAt, Unhurt, Recovered, Text, Absent, Loading,
                  diskVars, lifeVars, logVars, histVars, LookForPath, LookForTmp, Load,
                  Unload
<1>2. CASE Close(i)
      BY <1>2 DEF DiskTypes, LogTypes, FlagTypes, CountTypes, HistTypes, CallTypes, File,
                  InWrite, ChainAt, KeptAt, Unhurt, Recovered, Text, Absent, Loading,
                  diskVars, lifeVars, logVars, histVars, Close, Flush
<1>3. CASE Touch(i)
      BY <1>3 DEF DiskTypes, LogTypes, FlagTypes, CountTypes, HistTypes, CallTypes, File,
                  InWrite, ChainAt, KeptAt, Unhurt, Recovered, Text, Absent, Loading,
                  diskVars, lifeVars, logVars, histVars, Touch, Flush
<1>4. CASE TimerFires(i)
      BY <1>4 DEF DiskTypes, LogTypes, FlagTypes, CountTypes, HistTypes, CallTypes, File,
                  InWrite, ChainAt, KeptAt, Unhurt, Recovered, Text, Absent, Loading,
                  diskVars, lifeVars, logVars, histVars, TimerFires, Flush
<1>5. CASE PersistNow(i)
      BY <1>5 DEF DiskTypes, LogTypes, FlagTypes, CountTypes, HistTypes, CallTypes, File,
                  InWrite, ChainAt, KeptAt, Unhurt, Recovered, Text, Absent, Loading,
                  diskVars, lifeVars, logVars, histVars, PersistNow, Flush
<1>6. CASE SkipWrite(i)
      BY <1>6 DEF DiskTypes, LogTypes, FlagTypes, CountTypes, HistTypes, CallTypes, File,
                  InWrite, ChainAt, KeptAt, Unhurt, Recovered, Text, Absent, Loading,
                  diskVars, lifeVars, logVars, histVars, SkipWrite, JobDone, Rest
<1>7. CASE BeginWrite(i)
      BY <1>7 DEF DiskTypes, LogTypes, FlagTypes, CountTypes, HistTypes, CallTypes, File,
                  InWrite, ChainAt, KeptAt, Unhurt, Recovered, Text, Absent, Loading,
                  diskVars, lifeVars, logVars, histVars, BeginWrite, Rest
<1>8. CASE EmptyTmp(i)
      BY <1>8 DEF DiskTypes, LogTypes, FlagTypes, CountTypes, HistTypes, CallTypes, File,
                  InWrite, ChainAt, KeptAt, Unhurt, Recovered, Text, Absent, Loading,
                  diskVars, lifeVars, logVars, histVars, EmptyTmp, GoTo, Rest, Emptied
<1>9. CASE FillTmp(i)
      BY <1>9 DEF DiskTypes, LogTypes, FlagTypes, CountTypes, HistTypes, CallTypes, File,
                  InWrite, ChainAt, KeptAt, Unhurt, Recovered, Text, Absent, Loading,
                  diskVars, lifeVars, logVars, histVars, FillTmp, Fill, Filled, GoTo, Rest
<1>10. CASE ExistsPath(i)
      BY <1>10 DEF DiskTypes, LogTypes, FlagTypes, CountTypes, HistTypes, CallTypes, File,
                   InWrite, ChainAt, KeptAt, Unhurt, Recovered, Text, Absent, Loading,
                   diskVars, lifeVars, logVars, histVars, ExistsPath, GoTo, Rest
<1>11. CASE RemovePath(i)
      BY <1>11 DEF DiskTypes, LogTypes, FlagTypes, CountTypes, HistTypes, CallTypes, File,
                   InWrite, ChainAt, KeptAt, Unhurt, Recovered, Text, Absent, Loading,
                   diskVars, lifeVars, logVars, histVars, RemovePath, GoTo, Rest
<1>12. CASE RenameTmp(i)
      BY <1>12 DEF DiskTypes, LogTypes, FlagTypes, CountTypes, HistTypes, CallTypes, File,
                   InWrite, ChainAt, KeptAt, Unhurt, Recovered, Text, Absent, Loading,
                   diskVars, lifeVars, logVars, histVars, RenameTmp, Wrote, JobDone, Rest
<1>13. CASE RenameRefused(i)
      BY <1>13 DEF DiskTypes, LogTypes, FlagTypes, CountTypes, HistTypes, CallTypes, File,
                   InWrite, ChainAt, KeptAt, Unhurt, Recovered, Text, Absent, Loading,
                   diskVars, lifeVars, logVars, histVars, RenameRefused, GoTo, Rest
<1>14. CASE EmptyPath(i)
      BY <1>14 DEF DiskTypes, LogTypes, FlagTypes, CountTypes, HistTypes, CallTypes, File,
                   InWrite, ChainAt, KeptAt, Unhurt, Recovered, Text, Absent, Loading,
                   diskVars, lifeVars, logVars, histVars, EmptyPath, GoTo, Rest, Emptied
<1>15. CASE FillPath(i)
      BY <1>15 DEF DiskTypes, LogTypes, FlagTypes, CountTypes, HistTypes, CallTypes, File,
                   InWrite, ChainAt, KeptAt, Unhurt, Recovered, Text, Absent, Loading,
                   diskVars, lifeVars, logVars, histVars, FillPath, Fill, Filled, GoTo,
                   Rest
<1>16. CASE RemoveTmp(i)
      BY <1>16 DEF DiskTypes, LogTypes, FlagTypes, CountTypes, HistTypes, CallTypes, File,
                   InWrite, ChainAt, KeptAt, Unhurt, Recovered, Text, Absent, Loading,
                   diskVars, lifeVars, logVars, histVars, RemoveTmp, Wrote, JobDone, Rest
<1>17. CASE StorageFails(i)
      BY <1>17 DEF DiskTypes, LogTypes, FlagTypes, CountTypes, HistTypes, CallTypes, File,
                   InWrite, ChainAt, KeptAt, Unhurt, Recovered, Text, Absent, Loading,
                   diskVars, lifeVars, logVars, histVars, StorageFails, TmpFails,
                   InPlaceFails, CleanUpFails, GoTo, Wrote, JobDone, Rest
<1>   QED
      BY <1>1, <1>2, <1>3, <1>4, <1>5, <1>6, <1>7, <1>8, <1>9, <1>10, <1>11, <1>12,
         <1>13, <1>14, <1>15, <1>16, <1>17 DEF Acts, Loads, Asks, Write

\* Kept is preserved: the next instance finds what the one before, or the one
\* that crashed, had acknowledged.
LEMMA KeptHolds ==
    ASSUME TypeOK, Turns, Fresh, Chain, Closed, InTurn, Others, Storage,
           crashes + fails <= 1 => Kept, [Next]_vars, (crashes + fails <= 1)'
    PROVE  Kept'
<1>t. DiskTypes /\ LogTypes /\ FlagTypes /\ CountTypes /\ CallTypes /\ HistTypes
      BY TypeParts
<1>1. CASE Start
  <2>1. /\ UNCHANGED <<path, tmp, acked, crashes, fails>>
        /\ \A i \in Instance : owner' = i => phase'[i] = "claimed"
        /\ owner' # 0
        BY <1>1, <1>t DEF Start, diskVars, histVars, LogTypes, HistTypes
  <2>2. KeptOnDisk
    <3>1. CASE owner = 0
          BY <2>1, <3>1 DEF Kept
    <3>2. ASSUME NEW i \in Instance, owner = i PROVE KeptOnDisk
      <4>1. phase[i] = "stopping" /\ step[i] = "idle"
            BY <1>1, <1>t, <3>2 DEF Start, Turns, TornDown, InTurn, Closed, ClosedAt,
                                    Chain, ChainAt, CountTypes
      <4>2. KeptAt(i)
            BY <2>1, <3>2, <4>1 DEF Kept, Loading
      <4>   QED
            BY <4>1, <4>2 DEF KeptAt, Unhurt, KeptOnDisk
    <3>   QED
          BY <1>t, <3>1, <3>2 DEF Turns, HistTypes, Instance
  <2>   QED
        BY <2>1, <2>2 DEF Kept, KeptOnDisk, Recovered, Loading
<1>2. CASE Crash
  <2>1. crashes + fails = 0 /\ acked' = acked /\ (crashes + fails # 0)' /\ owner' = 0
        BY <1>2, <1>t DEF Crash, HistTypes, DiskTypes
  <2>2. /\ path'.kind = path.kind /\ path'.doc = path.doc
        /\ tmp'.kind = tmp.kind /\ tmp'.doc = tmp.doc
        BY <1>2, <1>t DEF Crash, DiskTypes, File
  <2>3. acked \subseteq Recovered
    <3>1. ASSUME NEW i \in Instance, owner = i, phase[i] \notin Loading
          PROVE  acked \subseteq Recovered
      <4>1. KeptAt(i) /\ InWrite(i) /\ ChainAt(i) /\ step[i] \in Step
            BY <1>t, <2>1, <3>1 DEF Kept, Storage, StorageAt, Chain, LogTypes
      <4>2. /\ acked \subseteq wrote[i] /\ Unhurt(i)
            /\ step[i] \in {"idle", "write", "fill", "exists", "remove", "rename"}
            BY <1>t, <2>1, <4>1 DEF KeptAt, Step, DiskTypes, HistTypes
      <4>3. CASE step[i] \in {"idle", "write"}
            BY <4>2, <4>3 DEF Unhurt
      <4>4. CASE step[i] \in {"fill", "exists", "remove"}
            BY <4>2, <4>4 DEF Unhurt, Recovered, Text
      <4>5. CASE step[i] = "rename"
            BY <4>1, <4>2, <4>5 DEF InWrite, ChainAt, Recovered, Text
      <4>   QED
            BY <4>2, <4>3, <4>4, <4>5
    <3>   QED
          BY <1>t, <2>1, <3>1 DEF Kept, KeptOnDisk, Turns, HistTypes, Instance
  <2>   QED
        BY <2>1, <2>2, <2>3 DEF Kept, KeptOnDisk, Recovered, Text, Instance
<1>3. CASE UNCHANGED vars
      BY <1>3 DEF Kept, KeptOnDisk, KeptAt, Unhurt, Recovered, vars, diskVars, lifeVars,
                  logVars, histVars
<1>4. ASSUME NEW i \in Instance, Acts(i) PROVE Kept'
  <2>1. owner' = owner /\ i = owner /\ owner # 0
        BY <1>4, <1>t, Before, OwnerActs DEF Turns, Fresh, Closed, Others, Instance
  <2>2. crashes + fails <= 1
        BY <1>4, <1>t DEF Acts, Loads, LookForPath, LookForTmp, Load, Unload, Asks, Close,
                          Touch, TimerFires, PersistNow, Write, SkipWrite, BeginWrite,
                          EmptyTmp, FillTmp, ExistsPath, RemovePath, RenameTmp,
                          RenameRefused, EmptyPath, FillPath, RemoveTmp, StorageFails,
                          Rest, histVars, DiskTypes, HistTypes
  <2>3. FreshAt(i) /\ ChainAt(i) /\ StorageAt(i)
        BY <2>1 DEF Fresh, Chain, Storage
  <2>4. IF phase[i] \in Loading THEN KeptOnDisk ELSE KeptAt(i)
        BY <2>1, <2>2 DEF Kept
  <2>5. IF phase'[i] \in Loading THEN KeptOnDisk' ELSE KeptAt(i)'
        BY <1>4, <1>t, <2>1, <2>3, <2>4, LoadKept, WriteKept, WriteStorage DEF StorageAt
  <2>   QED
        BY <2>1, <2>5 DEF Kept
<1>   QED
      BY <1>1, <1>2, <1>3, <1>4, StepCases

-----------------------------------------------------------------------------
(***************************************************************************)
(* The invariant and what follows from it.                                 *)
(***************************************************************************)

\* The first state.
LEMMA InitHolds == BoundsAssumption /\ Init => IInv
<1>  SUFFICES ASSUME BoundsAssumption, Init PROVE IInv
     OBVIOUS
<1>1. DiskTypes /\ LogTypes /\ FlagTypes /\ CountTypes /\ CallTypes /\ HistTypes
      BY DEF Init, BoundsAssumption, DiskTypes, LogTypes, FlagTypes, CountTypes, CallTypes,
             HistTypes, File, Absent, Phase, Step
<1>2. TypeOK
      BY <1>1, TypeParts
<1>3. Turns /\ Fresh /\ Chain /\ Closed /\ Others /\ Strays
      BY DEF Init, Turns, Fresh, FreshAt, Chain, ChainAt, Closed, ClosedAt, Strays,
             StraysAt, StraysOnDisk, OutOfFile, Others, Quiet, Absent, Instance
<1>4. Storage /\ Kept
      BY DEF Init, Storage, Kept, KeptOnDisk, Absent, Instance, Recovered
<1>   QED
      BY <1>2, <1>3, <1>4 DEF IInv

\* Every step keeps the invariant.
LEMMA StepHolds == BoundsAssumption /\ IInv /\ [Next]_vars => IInv'
<1>  SUFFICES ASSUME BoundsAssumption, IInv, [Next]_vars PROVE IInv'
     OBVIOUS
<1>t. DiskTypes /\ LogTypes /\ FlagTypes /\ CountTypes /\ CallTypes /\ HistTypes
      BY TypeParts DEF IInv
<1>p. DiskTypes' /\ LogTypes' /\ FlagTypes' /\ CountTypes' /\ CallTypes' /\ HistTypes'
      BY <1>t, DiskTyped, LogTyped, FlagTyped, CountTyped, CallTyped, HistTyped
<1>1. TypeOK'
      BY <1>p DEF TypeOK, DiskTypes, LogTypes, FlagTypes, CountTypes, CallTypes, HistTypes
<1>2. Turns' /\ Fresh' /\ Chain' /\ Closed' /\ Strays'
      BY <1>t, TurnsHold, FreshHolds, ChainHolds, ClosedHolds, StraysHold DEF IInv
<1>3. InTurn' => InTurn
      BY StepCases, Before DEF InTurn, Start, Crash, vars, histVars
<1>4. InTurn' => Others' /\ Storage'
      BY <1>3, OthersHold, StorageHolds DEF IInv
<1>5. InTurn' /\ (crashes + fails <= 1)' => Kept'
      BY <1>3, KeptHolds DEF IInv
<1>   QED
      BY <1>1, <1>2, <1>4, <1>5 DEF IInv

\* The invariant, for every number of changes, instances, writes and faults.
THEOREM InvariantHolds == Spec => []IInv
<1>1. IInv /\ [Next]_vars => IInv'
      BY StepHolds, BoundsAssumption
<1>2. Init => IInv
      BY InitHolds, BoundsAssumption
<1>   QED
      BY <1>1, <1>2, PTL DEF Spec

\* The variables have their types, and a call of persistNow waits for a write
\* that is still to be made.
THEOREM TypesHold == Spec => []TypeOK
<1>1. IInv => TypeOK
      BY DEF IInv
<1>   QED
      BY <1>1, InvariantHolds, PTL

\* claimStateFile, in every world: nothing an older instance does once a newer
\* one has the file gets into the file, or is reported as written.
THEOREM StraysStayOutHolds == Spec => []StraysStayOut
<1>1. IInv => StraysStayOut
      BY DEF IInv, Strays, StraysOnDisk, OutOfFile, StraysStayOut
<1>   QED
      BY <1>1, InvariantHolds, PTL

\* hasUnwrittenChanges: a log without unwritten changes is on the disk, however
\* many storage calls failed and processes ended before.
THEOREM CleanIsWrittenHolds == Spec => []CleanIsWritten
<1>1. IInv => CleanIsWritten
      BY DEF IInv, Storage, StorageAt, InWrite, CleanIsWritten
<1>   QED
      BY <1>1, InvariantHolds, PTL

\* writeDocument and load: one crash or one failed call, at any moment, costs
\* no change that persistNow reported as written.
THEOREM OneFaultSafeHolds == Spec => []OneFaultSafe
<1>1. IInv => OneFaultSafe
      BY DEF IInv, Kept, KeptAt, Chain, ChainAt, OneFaultSafe, Remembered
<1>   QED
      BY <1>1, InvariantHolds, PTL

\* Without a fault the owner's state is on the storage at every step.
LEMMA UnhurtOnDisk ==
    ASSUME TypeOK, InTurn, crashes + fails = 0, NEW i \in Instance, owner = i,
           phase[i] \notin Loading,
           ChainAt(i), StorageAt(i), KeptAt(i)
    PROVE  wrote[i] \subseteq Recovered
<1>1. /\ Unhurt(i) /\ InWrite(i)
      /\ step[i] \in {"idle", "write", "fill", "exists", "remove", "rename"}
      BY DEF KeptAt, StorageAt, TypeOK, Step
<1>2. CASE step[i] \in {"idle", "write"}
      BY <1>1, <1>2 DEF Unhurt
<1>3. CASE step[i] \in {"fill", "exists", "remove"}
      BY <1>1, <1>3 DEF Unhurt, Recovered, Text
<1>4. CASE step[i] = "rename"
      BY <1>1, <1>4 DEF InWrite, ChainAt, Recovered, Text
<1>   QED
      BY <1>1, <1>2, <1>3, <1>4

\* Without a fault, what was reported as written, and what inFlightWritten takes
\* for written, is found by a load at every moment.
THEOREM RecoverableUnhurtHolds == Spec => []RecoverableUnhurt
<1>1. IInv => RecoverableUnhurt
  <2>  SUFFICES ASSUME IInv, crashes + fails = 0, InTurn PROVE Recoverable /\ WrittenIsThere
       BY DEF RecoverableUnhurt
  <2>1. ASSUME NEW i \in Instance, owner = i, phase[i] \notin Loading
        PROVE  acked \subseteq wrote[i] /\ wrote[i] \subseteq Recovered
        BY <2>1, UnhurtOnDisk DEF IInv, Chain, Storage, Kept, KeptAt
  <2>2. Recoverable
        BY <2>1 DEF IInv, Kept, KeptOnDisk, Recoverable, Turns, TypeOK, Instance
  <2>   QED
        BY <2>1, <2>2 DEF WrittenIsThere
<1>   QED
      BY <1>1, InvariantHolds, PTL
=============================================================================
