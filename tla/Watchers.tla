------------------------------ MODULE Watchers ------------------------------
(***************************************************************************)
(* What the two watchers tell an engine of the changes on the disk:        *)
(* Obsidian's events (obsidian-events.ts), which come with the change, and *)
(* chokidar's (fs-watcher.ts), which come a while after it and may sum up  *)
(* several changes.  The echoes of what the engine itself does on the disk *)
(* are kept from it by markers that live a while (recently-applied.ts), a  *)
(* change Obsidian has told of is not told twice, and saves are debounced. *)
(*                                                                         *)
(* Time passes in ticks.  A version is a number, 0 for no file; what the   *)
(* engine does with an event is left to other modules, but for the look it *)
(* takes at the disk.  One binding; what is outside it, ignored or under a *)
(* name Windows cannot keep is the name Outside.                           *)
(***************************************************************************)
EXTENDS Naturals

CONSTANTS
    Path, Outside,   \* the names in the binding, and any other
    Ttl,             \* how long a marker lives
    RenameTtl,       \* how long an expected rename does
    NoteFor,         \* how long after an event of Obsidian's chokidar's of the same is dropped
    Pause, FsPause,  \* how long the two watchers wait for a save to be the last
    OwnLate,         \* how long an operation of the engine's on the disk may take
    FsLate,          \* how long after a change chokidar's event comes at the latest
    MaxOps           \* bound: operations on the disk, the engine's and others'

ASSUME WatchersAssumption ==
    /\ {Ttl, RenameTtl, NoteFor, Pause, FsPause, OwnLate, FsLate, MaxOps} \subseteq Nat
    /\ OwnLate + FsLate < Ttl /\ OwnLate < RenameTtl /\ Outside \notin Path

VARIABLES
    file,     \* name -> the version on the disk
    known,    \* name -> the version the engine last had to do with
    marks,    \* name -> markers left, and the ticks they still live
    pairs,    \* <<from, to>> -> renames expected, and the ticks they are expected for
    own,      \* the operation on the disk the engine has begun
    calls, fsCalls,  \* name -> ticks until the debounced save is told, Never for none
    noted,    \* <<type, name>> -> ticks for which chokidar's event of it is dropped
    seen,     \* name -> the version chokidar last told of
    due,      \* name -> ticks until chokidar must look
    ops,      \* operations so far
    mine,     \* the names nobody but the engine has changed since it marked them
    silenced, \* the names with a change made while their events may have been dropped
    echoed    \* the engine has been told of what it did itself

wvars == <<file, known, marks, pairs, own, calls, fsCalls, noted, seen, due, ops,
           mine, silenced, echoed>>

Type   == {"create", "modify", "delete"}
Never  == Ttl + RenameTtl + NoteFor + Pause + FsPause
NoMark == [count |-> 0, left |-> 0]
NoOp   == [op |-> "", p |-> Outside, q |-> Outside, left |-> 0]

\* Mutant: a write counted without chokidar's splitting it.
EchoCountUnsplit(op) == 2

\* ECHO_COUNT_*: how many events an operation may come back as.
EchoCount(op) == IF op = "modify" THEN 3 ELSE 2

-----------------------------------------------------------------------------
(* RecentlyApplied                                                         *)

\* Mutant: a marker never expires.
LiveForEver(m) == m.count > 0

Live(m) == m.left > 0

Mark(m, ps, n) ==
    [p \in Path |-> IF p \notin ps THEN m[p]
                    ELSE [count |-> (IF Live(m[p]) THEN m[p].count ELSE 0) + n, left |-> Ttl]]

Take(m, ps) ==
    [p \in Path |-> IF p \notin ps THEN m[p]
                    ELSE IF Live(m[p]) /\ m[p].count > 1 THEN [m[p] EXCEPT !.count = @ - 1]
                    ELSE NoMark]

Expect(pq) ==
    [pairs EXCEPT ![pq] = [count |-> (IF Live(@) THEN @.count ELSE 0) + 1, left |-> RenameTtl]]
Less(pq, pr) == [pr EXCEPT ![pq] = IF @.count > 1 THEN [count |-> @.count - 1, left |-> @.left] ELSE NoMark]

-----------------------------------------------------------------------------
(* What the engine is told, and does: a create or a save is read, a delete *)
(* checked, a rename recorded, with markers for chokidar's two events.     *)

Reads(k, disk, type, p) ==
    CASE type = "delete" -> IF disk[p] = 0 THEN [k EXCEPT ![p] = 0] ELSE k
      [] OTHER           -> IF disk[p] # 0 THEN [k EXCEPT ![p] = disk[p]] ELSE k

ToldRename(k, disk, p, q) ==
    IF k[p] = 0 THEN Reads(k, disk, "create", q) ELSE [k EXCEPT ![q] = k[p], ![p] = 0]

\* An event is an echo if it is of names only the engine has changed.
Echo(ps) == echoed' = (echoed \/ ps \subseteq mine')

Note(type, p) == [noted EXCEPT ![<<type, p>>] = NoteFor + 1]

-----------------------------------------------------------------------------
(* ObsidianWatcher: the events that come with a change.                    *)

\* onCreate, onDelete and onModify, `disk` being the files after the change.
DiskEvent(type, p, disk, k) ==
    LET told == ~Live(marks[p]) IN
    /\ marks' = Take(marks, {p})
    /\ calls' = IF told /\ type = "modify" THEN [calls EXCEPT ![p] = Pause] ELSE calls
    /\ IF told /\ type # "modify"
       THEN /\ known' = Reads(k, disk, type, p) /\ noted' = Note(type, p)
            /\ Echo({p})
       ELSE known' = k /\ UNCHANGED <<noted, echoed>>

\* onRename: a rename the engine expects is its own; one out of the binding
\* is a delete, one into it a create.
RenameEvent(p, q, disk, k) ==
    LET names == {p, q} \cap Path
        taken == Take(marks, names)
        expected == names = {p, q} /\ Live(pairs[<<p, q>>])
    IN
    /\ UNCHANGED calls
    /\ pairs' = IF names = {p, q} THEN Less(<<p, q>>, pairs) ELSE pairs
    /\ IF expected THEN marks' = taken /\ known' = k /\ UNCHANGED <<noted, echoed>>
       ELSE IF names = {p, q}
       THEN /\ marks' = Mark(taken, {p, q}, EchoCount("rename"))
            /\ known' = ToldRename(k, disk, p, q) /\ UNCHANGED noted
            /\ Echo({p, q})
       ELSE LET type == IF q = Outside THEN "delete" ELSE "create"
                n == IF q = Outside THEN p ELSE q
            IN  /\ marks' = taken /\ known' = Reads(k, disk, type, n) /\ noted' = Note(type, n)
                /\ Echo({n})

\* The debounced save is told.
SaveTold(p) ==
    /\ UNCHANGED mine
    /\ calls[p] = 0
    /\ calls' = [calls EXCEPT ![p] = Never]
    /\ known' = Reads(known, file, "modify", p)
    /\ noted' = Note("modify", p)
    /\ Echo({p})
    /\ UNCHANGED <<file, marks, pairs, own, fsCalls, seen, due, ops, silenced>>

-----------------------------------------------------------------------------
(* FsWatcher: chokidar looks at a file changed since it last told of it.   *)

\* takeObsidianDedupe
FsTaken(type, p) == noted[<<type, p>>] # 0

\* handle: one event, taken by a marker, or by what Obsidian has told of, or
\* passed on; a save once it has been the last for a while.
FsEvent(type, p) ==
    LET marked == Live(marks[p])  told == ~marked /\ ~FsTaken(type, p) IN
    /\ marks' = Take(marks, {p})
    /\ noted' = IF marked THEN noted ELSE [noted EXCEPT ![<<type, p>>] = 0]
    /\ fsCalls' = IF told /\ type = "modify" THEN [fsCalls EXCEPT ![p] = FsPause] ELSE fsCalls
    /\ IF told /\ type # "modify"
       THEN known' = Reads(known, file, type, p) /\ Echo({p})
       ELSE UNCHANGED <<known, echoed>>

FsLooks(p) ==
    /\ UNCHANGED mine
    /\ seen[p] # file[p]
    /\ FsEvent(IF file[p] = 0 THEN "delete" ELSE IF seen[p] = 0 THEN "create" ELSE "modify", p)
    /\ seen' = [seen EXCEPT ![p] = file[p]]
    /\ due' = [due EXCEPT ![p] = Never]
    /\ UNCHANGED <<file, pairs, own, calls, ops, silenced>>

\* A file put in the place of another is told of as a delete and, before
\* anything else changes, a create.
FsSplits(p) ==
    /\ UNCHANGED mine
    /\ seen[p] # file[p] /\ seen[p] # 0 /\ file[p] # 0
    /\ FsEvent("delete", p)
    /\ seen' = [seen EXCEPT ![p] = 0]
    /\ due' = [due EXCEPT ![p] = 0]
    /\ UNCHANGED <<file, pairs, own, calls, ops, silenced>>

FsSaveTold(p) ==
    /\ UNCHANGED mine
    /\ fsCalls[p] = 0
    /\ fsCalls' = [fsCalls EXCEPT ![p] = Never]
    /\ known' = Reads(known, file, "modify", p)
    /\ Echo({p})
    /\ UNCHANGED <<file, marks, pairs, own, calls, noted, seen, due, ops, silenced>>

-----------------------------------------------------------------------------
(* The engine's operations on the disk, each marked before it begins.      *)

Changed(disk) ==
    /\ \A p \in Path : due[p] # 0
    /\ file' = disk
    /\ due' = [p \in Path |-> IF disk[p] = file[p] THEN due[p]
                              ELSE IF disk[p] = seen[p] THEN Never ELSE FsLate]

Untold(p) == known[p] # file[p]
Restful(p) == ~Live(marks[p]) /\ seen[p] = file[p] /\ calls[p] = Never /\ fsCalls[p] = Never

Begin(op, p, q) ==
    LET names == {p, q} IN
    /\ own = NoOp /\ ops < MaxOps /\ ops' = ops + 1
    /\ (op = "create") = (file[p] = 0)
    /\ IF op = "rename" THEN p # q /\ file[q] = 0 ELSE p = q
    /\ marks' = Mark(marks, names, EchoCount(op))
    /\ pairs' = IF op = "rename" THEN Expect(<<p, q>>) ELSE pairs
    /\ own' = [op |-> op, p |-> p, q |-> q, left |-> OwnLate]
    /\ mine' = mine \cup {n \in names : Restful(n)}
    /\ silenced' = silenced \cup {n \in names : Untold(n)}
    /\ UNCHANGED <<file, known, calls, fsCalls, noted, seen, due, echoed>>

\* It comes through, Obsidian's event with it, or finds the files otherwise
\* and fails.
Through ==
    LET op == own.op  p == own.p  disk == [file EXCEPT ![p] = IF op = "delete" THEN 0 ELSE ops + 1] IN
    /\ UNCHANGED mine
    /\ op \in Type /\ (op = "create") = (file[p] = 0)
    /\ Changed(disk)
    /\ DiskEvent(op, p, disk, [known EXCEPT ![p] = disk[p]])
    /\ silenced' = silenced \ {p}
    /\ own' = NoOp
    /\ UNCHANGED <<pairs, fsCalls, seen, ops>>

\* renameOnDisk: the rename is not expected any more once the call returns.
RenamedThrough ==
    LET p == own.p  q == own.q  disk == [file EXCEPT ![p] = 0, ![q] = file[p]] IN
    /\ UNCHANGED mine
    /\ own.op = "rename" /\ file[p] # 0 /\ file[q] = 0
    /\ Changed(disk)
    /\ RenameEvent(p, q, disk, [known EXCEPT ![p] = 0, ![q] = known[p]])
    /\ silenced' = (silenced \ {p, q}) \cup (IF p \in silenced \/ Untold(p) THEN {q} ELSE {})
    /\ own' = NoOp
    /\ UNCHANGED <<fsCalls, seen, ops>>

OwnFails ==
    /\ own # NoOp
    /\ IF own.op = "rename" THEN file[own.p] = 0 \/ file[own.q] # 0
       ELSE (own.op = "create") # (file[own.p] = 0)
    /\ pairs' = IF own.op = "rename" THEN Less(<<own.p, own.q>>, pairs) ELSE pairs
    /\ own' = NoOp
    /\ UNCHANGED <<file, known, marks, calls, fsCalls, noted, seen, due, ops, mine, silenced, echoed>>

-----------------------------------------------------------------------------
(* The changes of others: in Obsidian, or outside it, where only chokidar  *)
(* sees them; and time.                                                    *)

MayBeDropped(p) == marks[p].left > 0 \/ p \in {own.p, own.q} \/ \E t \in Type : noted[<<t, p>>] > 0

Theirs(names) ==
    /\ ops < MaxOps /\ ops' = ops + 1
    /\ mine' = mine \ names
    /\ UNCHANGED <<own, fsCalls, seen>>

Edit(type, p, inObsidian) ==
    LET disk == [file EXCEPT ![p] = IF type = "delete" THEN 0 ELSE ops + 1] IN
    /\ (type = "create") = (file[p] = 0)
    /\ Theirs({p})
    /\ Changed(disk)
    /\ IF inObsidian THEN DiskEvent(type, p, disk, known)
       ELSE UNCHANGED <<known, marks, calls, noted, echoed>>
    /\ silenced' = IF MayBeDropped(p) \/ (~inObsidian /\ disk[p] = seen[p])
                   THEN silenced \cup {p} ELSE silenced \ {p}
    /\ UNCHANGED pairs

\* A rename takes a save not told of yet along with it.
UserMoves(p, q) ==
    LET names == {p, q} \cap Path
        disk == [n \in Path |-> IF n = p THEN 0
                                ELSE IF n # q THEN file[n] ELSE IF p = Outside THEN ops + 1 ELSE file[p]]
    IN
    /\ p # q /\ (p # Outside => file[p] # 0) /\ (q # Outside => file[q] = 0)
    /\ Theirs(names)
    /\ Changed(disk)
    /\ RenameEvent(p, q, disk, known)
    /\ silenced' = (silenced \ names) \cup {n \in names : MayBeDropped(n)}
                   \cup (IF names = {p, q} /\ (p \in silenced \/ Untold(p)) THEN {q} ELSE {})

Down(n) == IF n = 0 THEN 0 ELSE n - 1
Sooner(n) == IF n = Never THEN Never ELSE n - 1
Tick ==
    /\ \A p \in Path : calls[p] # 0 /\ fsCalls[p] # 0 /\ due[p] # 0
    /\ own # NoOp => own.left > 0
    /\ marks' = [p \in Path |-> [marks[p] EXCEPT !.left = Down(@)]]
    /\ pairs' = [pq \in Path \X Path |-> [pairs[pq] EXCEPT !.left = Down(@)]]
    /\ noted' = [k \in Type \X Path |-> Down(noted[k])]
    /\ calls' = [p \in Path |-> Sooner(calls[p])]
    /\ fsCalls' = [p \in Path |-> Sooner(fsCalls[p])]
    /\ due' = [p \in Path |-> Sooner(due[p])]
    /\ own' = [own EXCEPT !.left = Down(@)]
    /\ UNCHANGED <<file, known, seen, ops, mine, silenced, echoed>>

-----------------------------------------------------------------------------

WatchersInit ==
    /\ file \in [Path -> {0} \cup {MaxOps + 1}]
    /\ known = file /\ seen = file
    /\ marks = [p \in Path |-> NoMark]
    /\ pairs = [pq \in Path \X Path |-> NoMark]
    /\ own = NoOp /\ ops = 0
    /\ calls = [p \in Path |-> Never] /\ fsCalls = calls /\ due = calls
    /\ noted = [k \in Type \X Path |-> 0]
    /\ mine = {} /\ silenced = {} /\ echoed = FALSE

WatchersNext ==
    \/ \E p \in Path : SaveTold(p) \/ FsLooks(p) \/ FsSplits(p) \/ FsSaveTold(p)
    \/ \E op \in Type \cup {"rename"}, p, q \in Path : Begin(op, p, q)
    \/ Through \/ RenamedThrough \/ OwnFails
    \/ \E type \in Type, p \in Path, inObsidian \in BOOLEAN : Edit(type, p, inObsidian)
    \/ \E p, q \in Path \cup {Outside} : UserMoves(p, q)
    \/ Tick

WatchersSpec == WatchersInit /\ [][WatchersNext]_wvars

-----------------------------------------------------------------------------
(* Properties.                                                             *)

\* What the engine does on the disk never comes back to it as a change of the
\* user's, whatever chokidar makes of it and however it mixes with changes of
\* other names.
EchoesStay == ~echoed

\* A change made when no marker was alive for the name and Obsidian had just
\* told of nothing there is told to the engine, by one watcher or the other:
\* a stale marker or a stale note silences nothing.
InStep ==
    own = NoOp /\ seen = file /\ (\A p \in Path : calls[p] = Never /\ fsCalls[p] = Never)
    => \A p \in Path \ silenced : known[p] = file[p]
=============================================================================
