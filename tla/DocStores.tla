----------------------------- MODULE DocStores -----------------------------
(***************************************************************************)
(* Whose history is under which name: the documents and their y-indexeddb  *)
(* stores are kept by name (doc-manager.ts), and a name changes hands when *)
(* a note is renamed, deleted or created again (engine.ts: startDoc,       *)
(* moveRenamedDoc, relocate, dropDoc, checkLineage, applyCatchupDoc).      *)
(*                                                                         *)
(* A history is a set of operations, each of a note, of one of its lives   *)
(* (a note created again under its id is a new life of it) and of a        *)
(* client: the server, which seeds it, a teammate or this device. A store  *)
(* holds what its document was given as soon as it has loaded.             *)
(*                                                                         *)
(* What works on a note does so under the locks of its names               *)
(* (withPathLocks), in the order it asked for them: `queue`.               *)
(*                                                                         *)
(* Left out: a store that does not load in time or refuses a delete, a     *)
(* fetch the server does not answer, peek, several bindings, notes without *)
(* text, and the texts themselves (NoteFold).                              *)
(***************************************************************************)
EXTENDS Integers, Sequences, FiniteSets
LOCAL INSTANCE SequencesExt

CONSTANTS
    Note,           \* notes of the project
    Old,            \* the note this device has at the start
    Name,           \* names
    Home,           \* the name Old has
    None,           \* no note, no name
    Lives,          \* bound: lives of a note
    Budgets,        \* left: how many of each event of Events there may be
    MaxTasks        \* bound: tasks at work at once

Op == [note : Note, life : 1..Lives, by : {"server", "mate", "here"}]
Seed(f, life) == [note |-> f, life |-> life, by |-> "server"]

\* `make` a note, new or again under its id.
Events == {"rename", "join", "crash", "edit", "mate", "make", "delete"}

ASSUME StoresAssumption ==
    /\ Old \in Note /\ Home \in Name /\ None \notin Note \cup Name
    /\ Lives \in Nat \ {0} /\ MaxTasks \in Nat /\ Budgets \subseteq [Events -> Nat]

VARIABLES
    path,       \* the index: each note's name, None for a note not here
    docMoves,   \* docMoves: the names a renamed note's history is still to go through
    cache,      \* DocManager.cache: the document open under a name
    subs,       \* the note under whose id edits of a name's document go out
    store,      \* the y-indexeddb store of each name
    clearing,   \* deletes of the store under way
    queue,      \* what runs or waits, in the order it asked for its names
    link,       \* connected
    checked,    \* lineageChecked
    since,      \* startedSinceJoin
    skippedNotes, \* skippedDocs
    recreated,  \* recreated
    reborn,     \* notes recreated that the next catch-up shows
    catchups,   \* the server's document of a note, in a batch not handled yet
    live,       \* live edits of a note on their way here
    srv,        \* the server's document of each note, and its life
    folded,     \* the record says that the document has the edits on disk
    foldedOnDisk, \* the same in state.json
    lifeHere,   \* the life of the note whose text is on disk
    \* History.
    typedOps,   \* edits folded here and not set aside
    revived,    \* operations of the note's earlier lives the server may have, with what builds on
                \* them: those its present life began with, and edits sent before its catch-up, or
                \* folded across its deletion
    overlooked, \* notes recreated, not checked before the clock had passed it
    strayed,    \* notes whose history a catch-up had to do with under a name not its note's
    early,      \* notes renamed while an edit was being folded, or whose history had not left its
                \* name yet when the note created there was deleted
    left        \* of the budget

index == <<path, docMoves>>
stores == <<cache, subs, store, clearing>>
session == <<link, checked, since, skippedNotes, recreated, catchups, live>>
server == <<srv, revived, reborn>>
marker == <<folded, foldedOnDisk, lifeHere>>
seen == <<typedOps, overlooked, strayed, early>>
storeVars == <<index, stores, queue, session, server, marker, seen, left>>

Spend(event) == left[event] > 0 /\ left' = [left EXCEPT ![event] = @ - 1]

NoDoc == [open |-> FALSE, ops |-> {}, owner |-> None, loaded |-> FALSE, waits |-> FALSE,
          stored |-> FALSE, users |-> {}]
NoStore == [ops |-> {}, owner |-> None]
Off == [f \in Note |-> {}]

\* Under the second name may be what another note, deleted long ago, left there;
\* stores of before 0.3.8 have no stamp.
StoresInit ==
    /\ path = [f \in Note |-> IF f = Old THEN Home ELSE None]
    /\ docMoves = [f \in Note |-> <<>>]
    /\ cache = [n \in Name |-> NoDoc] /\ subs = [n \in Name |-> None]
    /\ \E stamped \in BOOLEAN, used \in BOOLEAN :
          store = [n \in Name |->
             IF n = Home THEN [ops |-> {Seed(Old, 1)}, owner |-> IF stamped THEN Old ELSE None]
             ELSE IF used THEN LET f == CHOOSE g \in Note \ {Old} : TRUE IN
                  [ops |-> {Seed(f, 1)}, owner |-> IF stamped THEN f ELSE None]
             ELSE NoStore]
    /\ clearing = [n \in Name |-> 0] /\ queue = <<>>
    /\ link = FALSE /\ checked = {} /\ since = {} /\ skippedNotes = {} /\ recreated = {}
    /\ reborn = {} /\ overlooked = {} /\ strayed = {} /\ early = {} /\ lifeHere = [f \in Note |-> 1]
    /\ catchups = Off /\ live = Off
    /\ srv = [f \in Note |-> [life |-> 1, ops |-> IF f = Old THEN {Seed(f, 1)} ELSE {}]]
    /\ folded = [f \in Note |-> TRUE] /\ foldedOnDisk = folded
    /\ typedOps = Off /\ revived = Off
    /\ left \in Budgets

-----------------------------------------------------------------------------
(***************************************************************************)
(* DocManager.                                                             *)
(***************************************************************************)

Settled(n) == cache[n].open /\ cache[n].loaded
Here(f) == path[f] # None
HolderOf(n) == IF \E f \in Note : path[f] = n THEN CHOOSE f \in Note : path[f] = n ELSE None
\* docPathOf.
DocPath(f) == IF docMoves[f] = <<>> THEN path[f] ELSE Head(docMoves[f]).from
\* Task i has its names: whatever asked before it for one of them is done.
Runs(i) == \A k \in 1..i - 1 : queue[k].names \cap queue[i].names = {}
\* A move is at work on the documents of its names (DocManager.serially).
Moving(n) == \E k \in DOMAIN queue : n \in queue[k].names /\ queue[k].at \in
                {"source", "target", "room", "carry", "old"}
\* DocManager.open of a name is one after the other, too.
Opening(n) == \E k \in DOMAIN queue : queue[k].at = "opened" /\ queue[k].from = n
\* historyLeaving.
Leaving(n, f) == \E g \in Note \ {f} : \E i \in DOMAIN docMoves[g] : docMoves[g][i].from = n

\* Mutant: it waits for a delete that is over, too.
AcquiredAsleep(n) == IF cache[n].open THEN cache[n] ELSE [NoDoc EXCEPT !.open = TRUE, !.waits = TRUE]

\* acquire: a document opened while the store is being deleted waits.
Acquired(n) == IF cache[n].open THEN cache[n]
               ELSE [NoDoc EXCEPT !.open = TRUE, !.waits = clearing[n] > 0]
\* What the store has of it.
Stored(n, d) == IF d.loaded THEN [ops |-> d.ops, owner |-> d.owner] ELSE store[n]
Put(n, d) == cache' = [cache EXCEPT ![n] = d] /\ store' = [store EXCEPT ![n] = Stored(n, d)]
\* A document opened by the engine is wired to its note (onDocAcquired).
WiredTo(n) == IF ~cache[n].open /\ HolderOf(n) # None THEN [subs EXCEPT ![n] = HolderOf(n)] ELSE subs
\* A task holds on to the document it opened, which may be closed meanwhile.
User(t) == <<t.kind, t.note>>
Used(n, t) == [Acquired(n) EXCEPT !.users = @ \cup {User(t)}]
Has(n, t) == User(t) \in cache[n].users
\* claim.
Claimed(d, f) == [d EXCEPT !.owner = f]
\* A document started anew for a note, its store deleted.
Fresh(f) == [NoDoc EXCEPT !.open = TRUE, !.owner = f, !.loaded = TRUE]

\* clear, up to the delete of the database.
Clears(n) ==
    /\ cache' = [cache EXCEPT ![n] = IF clearing[n] = 0 THEN NoDoc ELSE @]
    /\ clearing' = [clearing EXCEPT ![n] = @ + 1]

Load ==
    \E n \in Name :
       /\ cache[n].open /\ ~cache[n].waits /\ ~cache[n].loaded
       /\ Put(n, [cache[n] EXCEPT !.ops = @ \cup store[n].ops, !.loaded = TRUE,
                                  !.owner = IF @ = None THEN store[n].owner ELSE @,
                                  !.stored = store[n].ops # {}])
       /\ UNCHANGED <<index, subs, clearing, queue, session, server, marker, seen, left>>

\* Mutant: a document opened meanwhile has the old history.
ClearEndsLate ==
    \E n \in Name :
       /\ clearing[n] > 0
       /\ clearing' = [clearing EXCEPT ![n] = @ - 1]
       /\ store' = [store EXCEPT ![n] = IF cache[n].open THEN @ ELSE NoStore]
       /\ cache' = [cache EXCEPT ![n] = IF clearing[n] > 1 THEN NoDoc ELSE [@ EXCEPT !.waits = FALSE]]
       /\ UNCHANGED <<index, subs, queue, session, server, marker, seen, left>>

\* The database is gone; the delete after it closes what was opened since.
ClearEnds ==
    \E n \in Name :
       /\ clearing[n] > 0
       /\ clearing' = [clearing EXCEPT ![n] = @ - 1]
       /\ store' = [store EXCEPT ![n] = NoStore]
       /\ cache' = [cache EXCEPT ![n] = IF clearing[n] > 1 THEN NoDoc ELSE [@ EXCEPT !.waits = FALSE]]
       /\ UNCHANGED <<index, subs, queue, session, server, marker, seen, left>>

-----------------------------------------------------------------------------
(***************************************************************************)
(* Tasks: a task asks for its names and waits for those who asked before.  *)
(***************************************************************************)

\* withPathLocks. `names` is what it asked for, `from` the name it works under.
Task(kind, f, names, at, from) ==
    [kind |-> kind, note |-> f, names |-> names, at |-> at, from |-> from, to |-> None,
     carry |-> FALSE, transient |-> FALSE, batch |-> {}, life |-> 1, gone |-> FALSE]
Asks(t) == Len(queue) < MaxTasks /\ queue' = Append(queue, t)
Ends(i) == queue' = RemoveAt(queue, i)
GoesOn(i, at) == queue' = [queue EXCEPT ![i].at = at]
\* It gives its names back and asks for others.
AsksAgain(i, t) == queue' = Append(RemoveAt(queue, i), t)
Waits(i, kind, at) == queue[i].kind = kind /\ queue[i].at = at /\ Runs(i)
\* Its entry of the index is another now: the note was deleted, or the index made anew.
Outdated(S) == [i \in DOMAIN queue |-> [queue[i] EXCEPT !.gone = @ \/ queue[i].note \in S]]
Busy(f, kind) == \E i \in DOMAIN queue : queue[i].kind = kind /\ queue[i].note = f

\* No note is under the name, nor on its way there.
NameFree(n) ==
    HolderOf(n) = None /\ ~\E i \in DOMAIN queue : queue[i].kind = "relocate" /\ queue[i].to = n

-----------------------------------------------------------------------------
(***************************************************************************)
(* A renamed note's history carried to its new name.                       *)
(***************************************************************************)

MoveTask(kind, f, from, to) ==
    [Task(kind, f, {from, to}, "queued", from) EXCEPT !.to = to]

\* Mutant: state.json keeps the marker.
RenameKeepsMarker ==
    \E f \in Note, to \in Name :
       /\ Spend("rename")
       /\ Here(f) /\ NameFree(to) /\ ~Busy(f, "relocate")
       /\ docMoves' = [docMoves EXCEPT ![f] = Append(@, [from |-> path[f], to |-> to])]
       /\ path' = [path EXCEPT ![f] = to]
       /\ Asks(MoveTask("move", f, path[f], to))
       /\ UNCHANGED <<stores, session, server, marker, seen>>

\* The user renames: switchRecords, and the history is to follow. Until it has,
\* state.json has no marker.
Rename ==
    \E f \in Note, to \in Name :
       /\ Spend("rename")
       /\ Here(f) /\ NameFree(to) /\ ~Busy(f, "relocate")
       /\ docMoves' = [docMoves EXCEPT ![f] = Append(@, [from |-> path[f], to |-> to])]
       /\ path' = [path EXCEPT ![f] = to]
       /\ foldedOnDisk' = [foldedOnDisk EXCEPT ![f] = FALSE]
       /\ Asks(MoveTask("move", f, path[f], to))
       /\ UNCHANGED <<stores, session, server, folded, lifeHere, seen>>

\* A teammate's rename: relocate, the records switched with the history.
RelocateAsked ==
    \E f \in Note, to \in Name :
       /\ Spend("rename")
       /\ link /\ Here(f) /\ NameFree(to) /\ docMoves[f] = <<>>
       /\ Asks(MoveTask("relocate", f, path[f], to))
       /\ UNCHANGED <<index, stores, session, server, marker, seen>>

\* moveRenamedDoc with both names its own: DocManager.move opens what is under the
\* old name. A note deleted meanwhile loses it; a rename overtaken is dropped.
MoveBegins(i) ==
    LET t == queue[i]  f == t.note IN
    /\ t.kind \in {"move", "relocate"} /\ t.at = "queued" /\ Runs(i)
    /\ ~Opening(t.from) /\ ~Opening(t.to)
    /\ \/ /\ t.kind = "move" /\ ~Here(f)
          /\ docMoves' = [docMoves EXCEPT ![f] = Tail(@)]
          /\ Ends(i)
          /\ IF HolderOf(t.from) = None
             THEN Clears(t.from) /\ subs' = [subs EXCEPT ![t.from] = None]
             ELSE UNCHANGED <<cache, subs, clearing>>
       \/ /\ t.kind = "relocate" /\ (path[f] # t.from \/ HolderOf(t.to) # None)
          /\ Ends(i) /\ UNCHANGED <<docMoves, cache, subs, clearing>>
       \/ /\ IF t.kind = "move" THEN Here(f) ELSE path[f] = t.from /\ HolderOf(t.to) = None
          /\ queue' = [queue EXCEPT ![i].at = "source",
                                    ![i].transient = ~cache[t.from].open /\ ~cache[t.to].open]
          /\ cache' = IF cache[t.from].open \/ store[t.from] # NoStore
                      THEN [cache EXCEPT ![t.from] = Used(t.from, t)] ELSE cache
          /\ UNCHANGED <<docMoves, subs, clearing>>
    /\ UNCHANGED <<path, store, session, server, marker, seen, left>>

\* The old name's history is the note's, and what is under the new name is opened.
MoveLooks(i) ==
    LET t == queue[i] IN
    /\ t.at = "source" /\ (Has(t.from, t) => Settled(t.from))
    /\ queue' = [queue EXCEPT ![i].at = "target",
                   ![i].carry = Has(t.from, t) /\ cache[t.from].owner \in {None, t.note}]
    /\ cache' = IF cache[t.to].open \/ store[t.to] # NoStore
                THEN [cache EXCEPT ![t.to] = Used(t.to, t)] ELSE cache
    /\ UNCHANGED <<index, subs, store, clearing, session, server, marker, seen, left>>

\* A history under the new name that is not stamped for the note is deleted.
MoveMakesRoom(i) ==
    LET t == queue[i] IN
    /\ t.at = "target" /\ (Has(t.to, t) => Settled(t.to))
    /\ IF Has(t.to, t) /\ cache[t.to].owner = t.note
       THEN GoesOn(i, "carry") /\ UNCHANGED <<cache, subs, clearing>>
       ELSE GoesOn(i, "room") /\ Clears(t.to) /\ subs' = [subs EXCEPT ![t.to] = None]
    /\ UNCHANGED <<index, store, session, server, marker, seen, left>>

MoveOpens(i) ==
    LET t == queue[i] IN
    /\ t.at = "room" /\ clearing[t.to] = 0
    /\ cache' = IF t.carry THEN [cache EXCEPT ![t.to] = Used(t.to, t)] ELSE cache
    /\ GoesOn(i, "carry")
    /\ UNCHANGED <<index, subs, store, clearing, session, server, marker, seen, left>>

\* The history lands, stamped, the records switch (carryPathState) and the old
\* store goes; a history that could not come takes the marker along (afterDocMove).
MoveCarries(i) ==
    LET t == queue[i]
        old == cache[t.from]  new == cache[t.to]
        kept == Has(t.to, t) /\ new.owner = t.note
        landed == t.carry /\ Has(t.from, t) /\ Has(t.to, t)
        to == [IF landed \/ kept
               THEN Claimed([new EXCEPT !.ops = IF landed THEN @ \cup old.ops ELSE @], t.note)
               ELSE new EXCEPT !.users = @ \ {User(t)}]
        wired == IF subs[t.from] # None THEN subs[t.from] ELSE IF kept THEN subs[t.to] ELSE None
        closes == t.transient /\ subs[t.from] = None
        lost == old.open /\ old.ops # {} /\ ~(landed \/ kept)
        switches == t.kind = "relocate" /\ Here(t.note)
    IN
    /\ t.at = "carry" /\ (Has(t.to, t) => Settled(t.to))
    /\ store' = [store EXCEPT ![t.to] = IF to.open THEN Stored(t.to, to) ELSE @]
    /\ cache' = [cache EXCEPT ![t.to] = IF closes THEN NoDoc ELSE to,
                              ![t.from] = IF clearing[t.from] = 0 THEN NoDoc ELSE @]
    /\ clearing' = [clearing EXCEPT ![t.from] = IF old.open THEN @ + 1 ELSE @]
    /\ subs' = [subs EXCEPT ![t.from] = None,
                            ![t.to] = IF closes \/ ~to.open THEN None
                                      ELSE IF wired = None /\ Here(t.note) THEN t.note ELSE wired]
    /\ docMoves' = IF t.kind = "move" THEN [docMoves EXCEPT ![t.note] = Tail(@)] ELSE docMoves
    /\ path' = IF switches THEN [path EXCEPT ![t.note] = t.to] ELSE path
    /\ folded' = [folded EXCEPT ![t.note] = @ /\ ~lost]
    /\ foldedOnDisk' = [foldedOnDisk EXCEPT ![t.note] = IF switches THEN folded[t.note] /\ ~lost
                                                        ELSE @ /\ ~lost]
    /\ GoesOn(i, "old")
    /\ UNCHANGED <<session, server, lifeHere, seen, left>>

\* The old store is gone; its history under its name, the marker is saved again.
MoveEnds(i) ==
    LET f == queue[i].note IN
    /\ queue[i].at = "old" /\ clearing[queue[i].from] = 0
    /\ Ends(i)
    /\ foldedOnDisk' = IF docMoves[f] = <<>> /\ Here(f) THEN [foldedOnDisk EXCEPT ![f] = folded[f]]
                       ELSE foldedOnDisk
    /\ UNCHANGED <<index, stores, session, server, folded, lifeHere, seen, left>>

-----------------------------------------------------------------------------
(***************************************************************************)
(* Notes created and deleted.                                              *)
(***************************************************************************)

NewLife(f, ops) ==
    /\ srv[f].life < Lives
    /\ srv' = [srv EXCEPT ![f] = [life |-> @.life + 1, ops |-> ops]]
    /\ revived' = [revived EXCEPT ![f] = ops]

\* Mutant: a history on its way out of the name is not waited for.
StartDocAtOnce(f, n) ==
    /\ Asks(Task("start", f, {}, "clearing", n))
    /\ Clears(n) /\ subs' = [subs EXCEPT ![n] = None]

\* startDoc: a history on its way out of the name goes first; what is left goes.
StartDoc(f, n) ==
    IF Leaving(n, f)
    THEN Asks(Task("start", f, {n}, "queued", n)) /\ UNCHANGED <<cache, subs, clearing>>
    ELSE /\ Asks(Task("start", f, {}, "clearing", n))
         /\ Clears(n) /\ subs' = [subs EXCEPT ![n] = None]

\* A note new here, its own or a teammate's (applyServerCreate): its seed follows.
Create ==
    \E f \in Note, n \in Name :
       /\ Spend("make")
       /\ link /\ ~Here(f) /\ docMoves[f] = <<>> /\ ~Busy(f, "start") /\ NameFree(n)
       /\ NewLife(f, {Seed(f, srv[f].life + 1)})
       /\ path' = [path EXCEPT ![f] = n]
       /\ StartDoc(f, n)
       /\ live' = [live EXCEPT ![f] = {Seed(f, srv[f].life + 1)}]
       /\ checked' = checked \cup {f} /\ since' = since \cup {f}
       /\ skippedNotes' = skippedNotes \ {f}
       /\ folded' = [folded EXCEPT ![f] = TRUE] /\ foldedOnDisk' = [foldedOnDisk EXCEPT ![f] = TRUE]
       /\ lifeHere' = [lifeHere EXCEPT ![f] = srv[f].life + 1]
       /\ overlooked' = overlooked \ {f} /\ strayed' = strayed \ {f}
       /\ early' = early \ {f}
       /\ UNCHANGED <<docMoves, store, link, catchups, recreated, reborn, typedOps>>

StartClears(i) ==
    LET t == queue[i] IN
    /\ Waits(i, "start", "queued")
    /\ AsksAgain(i, Task("start", t.note, {}, "clearing", t.from))
    /\ Clears(t.from) /\ subs' = [subs EXCEPT ![t.from] = None]
    /\ UNCHANGED <<index, store, session, server, marker, seen, left>>

\* The note is wired, unless it went meanwhile.
StartWires(i) ==
    LET t == queue[i] IN
    /\ Waits(i, "start", "clearing") /\ clearing[t.from] = 0
    /\ IF path[t.note] = t.from
       THEN /\ cache' = [cache EXCEPT ![t.from] = Acquired(t.from)]
            /\ subs' = [subs EXCEPT ![t.from] = t.note]
            /\ GoesOn(i, "claim")
       ELSE Ends(i) /\ UNCHANGED <<cache, subs>>
    /\ UNCHANGED <<index, store, clearing, session, server, marker, seen, left>>

\* claimNew: stamped if its store brought no history.
StartClaims(i) ==
    LET n == queue[i].from  d == cache[n] IN
    /\ Waits(i, "start", "claim") /\ ~Moving(n) /\ ~Opening(n) /\ (d.open => d.loaded)
    /\ IF d.open /\ d.owner = None /\ ~d.stored THEN Put(n, Claimed(d, queue[i].note))
                                                ELSE UNCHANGED <<cache, store>>
    /\ Ends(i)
    /\ UNCHANGED <<index, subs, clearing, session, server, marker, seen, left>>

\* A note deleted, here or by a teammate: dropDoc.
Delete ==
    \E f \in Note :
       /\ Spend("delete") /\ link /\ Here(f)
       /\ path' = [path EXCEPT ![f] = None]
       /\ Clears(path[f]) /\ subs' = [subs EXCEPT ![path[f]] = None]
       /\ srv' = [srv EXCEPT ![f].ops = {}]
       /\ live' = [live EXCEPT ![f] = {}] /\ catchups' = [catchups EXCEPT ![f] = {}]
       /\ skippedNotes' = skippedNotes \ {f}
       /\ typedOps' = [typedOps EXCEPT ![f] = {}]
       /\ queue' = Outdated({f})
       /\ early' = early \cup {g \in Note \ {f} : \E i \in DOMAIN docMoves[g] : docMoves[g][i].from = path[f]}
       /\ UNCHANGED <<docMoves, store, link, checked, since, recreated, reborn, revived, marker,
                      overlooked, strayed>>

-----------------------------------------------------------------------------
(***************************************************************************)
(* The connection, teammates' edits, and the notes they recreate.          *)
(***************************************************************************)

\* The join: the catch-up shows what was recreated since the clock sent with it,
\* and brings every note's document.
Connect ==
    /\ ~link /\ Spend("join")
    /\ link' = TRUE /\ checked' = {} /\ since' = {} /\ live' = Off
    /\ recreated' = reborn
    /\ overlooked' = overlooked \cup (recreated \ (reborn \cup checked))
    /\ catchups' = [f \in Note |-> IF Here(f) THEN srv[f].ops ELSE {}]
    /\ queue' = Outdated(Note)
    /\ UNCHANGED <<index, stores, skippedNotes, server, marker, typedOps, strayed, early>>

\* The clock has taken the catch-up's operations in (mergeClock).
ClockPasses ==
    /\ link /\ reborn # {} /\ reborn' = {}
    /\ UNCHANGED <<index, stores, queue, session, srv, revived, marker, seen, left>>

Disconnect ==
    /\ link /\ link' = FALSE /\ catchups' = Off /\ live' = Off
    /\ UNCHANGED <<index, stores, queue, checked, since, skippedNotes, recreated, server, marker, seen,
                   left>>

MateEdits ==
    \E f \in Note :
       LET op == [note |-> f, life |-> srv[f].life, by |-> "mate"] IN
       /\ Spend("mate") /\ Here(f) /\ srv[f].ops # {} /\ op \notin srv[f].ops
       /\ srv' = [srv EXCEPT ![f].ops = @ \cup {op}]
       /\ live' = IF link THEN [live EXCEPT ![f] = @ \cup {op}] ELSE live
       /\ UNCHANGED <<index, stores, queue, link, checked, since, skippedNotes, recreated, catchups,
                      reborn, revived, marker, seen>>

\* A note deleted and created again while this device is away: the server starts
\* its history anew, or continues it; a catch-up cut short may not show it.
Recreated ==
    \E f \in Note : \E old \in {{}, srv[f].ops} :
       /\ Spend("make") /\ ~link /\ Here(f)
       /\ NewLife(f, {Seed(f, srv[f].life + 1)} \cup old)
       /\ reborn' \in {reborn \cup {f}} \cup (IF old = {} THEN {reborn} ELSE {})
       /\ UNCHANGED <<index, stores, queue, session, marker, typedOps, overlooked, strayed, early>>

-----------------------------------------------------------------------------
(***************************************************************************)
(* Catch-up documents, live edits and saves: each opens the note's         *)
(* document, checks whose history it has, and adds to it.                  *)
(***************************************************************************)

StartedAnew(f) == ~Here(f) \/ f \in since
Overtaken(t) == t.gone \/ StartedAnew(t.note)

\* applyCatchupDoc, up to the document's opening: one after the other; not for a
\* note started anew since the join, nor one whose disk has the server's text.
CatchupBegins ==
    \E f \in Note :
       /\ catchups[f] # {} /\ ~\E i \in DOMAIN queue : queue[i].kind = "catchup"
       /\ catchups' = [catchups EXCEPT ![f] = {}]
       /\ \/ /\ StartedAnew(f)
             /\ UNCHANGED <<queue, skippedNotes, marker>>
          \/ /\ ~StartedAnew(f) /\ ~cache[path[f]].open /\ typedOps[f] \subseteq catchups[f]
             /\ skippedNotes' = skippedNotes \cup {f}
             /\ folded' = [folded EXCEPT ![f] = TRUE]
             /\ foldedOnDisk' = [foldedOnDisk EXCEPT ![f] = TRUE]
             /\ lifeHere' = [lifeHere EXCEPT ![f] = srv[f].life]
             /\ UNCHANGED queue
          \/ /\ ~StartedAnew(f)
             /\ Asks([Task("catchup", f, {}, "open", path[f]) EXCEPT !.batch = catchups[f]])
             /\ UNCHANGED <<skippedNotes, marker>>
       /\ UNCHANGED <<index, stores, link, checked, since, recreated, live, server, seen, left>>

\* handleServerYjsUpdate: into the note's document, or a check of its history first.
LiveComes ==
    \E f \in Note :
       LET n == DocPath(f) IN
       /\ live[f] # {} /\ Here(f) /\ ~Leaving(n, f) /\ ~Busy(f, "live")
       /\ IF f \in checked
          THEN /\ Put(n, [Acquired(n) EXCEPT !.ops = @ \cup live[f]])
               /\ subs' = WiredTo(n)
               /\ live' = [live EXCEPT ![f] = {}]
               /\ UNCHANGED queue
          ELSE /\ Asks([Task("live", f, {n}, "open", n) EXCEPT !.batch = srv[f].ops])
               /\ UNCHANGED <<cache, store, subs, live>>
       /\ UNCHANGED <<index, clearing, link, checked, since, skippedNotes, recreated, catchups, server,
                      marker, typedOps, overlooked, strayed, early, left>>

\* The user saves (handleLocalModify): what is on disk is to be folded in.
Edit ==
    \E f \in Note :
       /\ Spend("edit") /\ Here(f) /\ ~Busy(f, "edit")
       /\ folded' = [folded EXCEPT ![f] = FALSE]
       /\ foldedOnDisk' = [foldedOnDisk EXCEPT ![f] = FALSE]
       /\ Asks(Task("edit", f, {path[f]}, "open", path[f]))
       /\ UNCHANGED <<index, stores, session, server, lifeHere, seen>>

\* openDoc: DocManager.open acquires the document under the name.
Opens(i) ==
    LET t == queue[i]
        n == IF t.kind = "catchup" /\ Here(t.note) THEN path[t.note] ELSE t.from
    IN
    /\ t.at = "open" /\ Runs(i) /\ (t.names = {} => ~Moving(n)) /\ ~Opening(n)
    /\ cache' = [cache EXCEPT ![n] = Used(n, t)]
    /\ subs' = WiredTo(n)
    /\ queue' = [queue EXCEPT ![i].at = "opened", ![i].from = n]
    /\ UNCHANGED <<index, store, clearing, session, server, marker, seen, left>>

\* Another note's history goes with what was folded into it (afterDocOpen); a
\* document with none is stamped. Renamed meanwhile, the note is opened there.
Opened(i) ==
    LET t == queue[i]  f == t.note  n == t.from  d == cache[n]
        has == Has(n, t)
        other == has /\ d.owner \notin {None, f}
        moved == Here(f) /\ path[f] # n
    IN
    /\ t.at = "opened" /\ (has => d.loaded)
    /\ IF other THEN Put(n, Fresh(f))
       ELSE IF has
       THEN Put(n, [IF d.owner = None /\ d.ops = {} THEN Claimed(d, f) ELSE d EXCEPT !.users = @ \ {User(t)}])
       ELSE UNCHANGED <<cache, store>>
    /\ strayed' = IF has THEN strayed \cup {g \in Note \ {f} : Here(g) /\ DocPath(g) = n} ELSE strayed
    /\ folded' = [folded EXCEPT ![f] = @ /\ ~other]
    /\ foldedOnDisk' = [foldedOnDisk EXCEPT ![f] = @ /\ ~other]
    /\ CASE moved -> queue' = [queue EXCEPT ![i].at = "open", ![i].from = path[f]]
         [] ~moved /\ t.kind = "catchup" /\ Overtaken(t) -> Ends(i)
         [] ~moved /\ t.kind = "catchup" /\ ~Overtaken(t) ->
               AsksAgain(i, [t EXCEPT !.names = {n}, !.at = "check"])
         [] ~moved /\ t.kind = "live" -> IF Here(f) THEN GoesOn(i, "check") ELSE GoesOn(i, "end")
         [] ~moved /\ t.kind = "edit" ->
               IF ~t.gone /\ path[f] = n /\ n \in t.names THEN GoesOn(i, "hydrate") ELSE Ends(i)
    /\ UNCHANGED <<index, subs, clearing, session, server, lifeHere, typedOps, overlooked, early,
                   left>>

\* ensureHydrated: a document without content, or one the catch-up skipped, is
\* fetched. Offline, one without content waits.
Hydrates(i) ==
    LET t == queue[i]  f == t.note  d == cache[DocPath(f)]
        needs == f \in skippedNotes \/ ~d.open \/ d.ops = {}
    IN
    /\ t.at = "hydrate"
    /\ IF t.gone \/ path[f] \notin t.names THEN Ends(i)
       ELSE IF needs /\ link THEN queue' = [queue EXCEPT ![i].at = "check", ![i].batch = srv[f].ops]
       ELSE GoesOn(i, "ready")
    /\ UNCHANGED <<index, stores, session, server, marker, seen, left>>

\* checkLineage: the history here is the server's if they have a client in
\* common, unless the note was created again. Otherwise the copy on disk is
\* settled; then its history goes (startOver).
Checks(i) ==
    LET t == queue[i]  f == t.note  n == DocPath(f)  d == cache[n]
        related == /\ d.ops # {} => d.owner \in {None, f} /\ d.ops \cap t.batch # {}
                   /\ f \notin recreated \/ d.ops = {}
    IN
    /\ t.at = "check" /\ Runs(i)
    /\ CASE (t.kind = "catchup" /\ Overtaken(t)) \/ ~Here(f) ->
               /\ GoesOn(i, "end")
               /\ UNCHANGED <<cache, store, checked, marker, typedOps>>
         [] Here(f) /\ ~(t.kind = "catchup" /\ Overtaken(t)) /\ ~d.open ->
               /\ GoesOn(i, IF t.kind = "catchup" THEN "apply" ELSE "end")
               /\ UNCHANGED <<cache, store, checked, marker, typedOps>>
         [] Here(f) /\ ~(t.kind = "catchup" /\ Overtaken(t)) /\ d.open ->
               /\ d.loaded /\ (n \notin t.names => ~Moving(n)) /\ ~Opening(n)
               /\ checked' = checked \cup {f}
               /\ IF related
                  THEN /\ Put(n, IF d.owner = None THEN Claimed(d, f) ELSE d)
                       /\ queue' = [queue EXCEPT ![i].at = "apply", ![i].from = n]
                       /\ IF f \in recreated
                          THEN /\ typedOps' = [typedOps EXCEPT ![f] = {}]
                               /\ folded' = [folded EXCEPT ![f] = TRUE]
                               /\ foldedOnDisk' = [foldedOnDisk EXCEPT ![f] = TRUE]
                          ELSE UNCHANGED <<typedOps, folded, foldedOnDisk>>
                  ELSE /\ typedOps' = [typedOps EXCEPT ![f] = {}]
                       /\ folded' = [folded EXCEPT ![f] = TRUE]
                       /\ foldedOnDisk' = [foldedOnDisk EXCEPT ![f] = TRUE]
                       /\ queue' = [queue EXCEPT ![i].at = "over", ![i].from = n]
                       /\ UNCHANGED <<cache, store>>
               /\ lifeHere' = [lifeHere EXCEPT ![f] = srv[f].life]
    /\ strayed' = IF Here(f) /\ n \notin t.names THEN strayed \cup {f} ELSE strayed
    /\ UNCHANGED <<index, subs, clearing, link, since, skippedNotes, recreated, catchups, live, server,
                   overlooked, early, left>>

StartsOver(i) ==
    LET n == queue[i].from IN
    /\ queue[i].at = "over" /\ ~(n \notin queue[i].names /\ Moving(n)) /\ ~Opening(n)
    /\ Put(n, Fresh(queue[i].note))
    /\ GoesOn(i, "apply")
    /\ UNCHANGED <<index, subs, clearing, session, server, marker, seen, left>>

\* What the server takes in of an update: operations whose history it has.
Merged(f, ops) ==
    {o \in ops : o.by = "server" \/ Seed(o.note, o.life) \in srv[f].ops \cup ops}
Sends(f, ops) ==
    /\ srv' = IF link THEN [srv EXCEPT ![f].ops = @ \cup Merged(f, ops)] ELSE srv
    /\ revived' = IF link /\ f \notin checked THEN [revived EXCEPT ![f] = @ \cup ops] ELSE revived

\* A catch-up's document goes in under the note's name, and is then waited for to
\* be written out; a fetched one, unless the note was renamed or closed.
Applies(i) ==
    LET t == queue[i]  f == t.note
        n == IF t.kind = "catchup" THEN path[f] ELSE t.from
        still == IF t.kind = "catchup" THEN ~Overtaken(t)
                 ELSE Here(f) /\ DocPath(f) = n /\ cache[n].open
        d == [Acquired(n) EXCEPT !.ops = @ \cup t.batch]
    IN
    /\ t.at = "apply"
    /\ IF still
       THEN /\ Put(n, d) /\ subs' = WiredTo(n)
            /\ skippedNotes' = skippedNotes \ {f}
            /\ IF t.kind = "catchup"
               THEN /\ AsksAgain(i, [t EXCEPT !.names = {n}, !.at = "push"])
                    /\ strayed' = IF n # DocPath(f) THEN strayed \cup {f} ELSE strayed
                    /\ UNCHANGED <<srv, revived>>
               ELSE /\ Sends(f, d.ops \ t.batch)
                    /\ GoesOn(i, IF t.kind = "edit" THEN "ready" ELSE "end")
                    /\ UNCHANGED strayed
       ELSE /\ GoesOn(i, "end")
            /\ UNCHANGED <<cache, store, subs, skippedNotes, srv, revived, strayed>>
    /\ UNCHANGED <<index, clearing, link, checked, since, recreated, catchups, live, reborn, marker,
                   typedOps, overlooked, early, left>>

\* pushMissingOps: what the server did not have when it sent its document.
CatchupPushes(i) ==
    LET t == queue[i]  f == t.note  n == path[f] IN
    /\ Waits(i, "catchup", "push")
    /\ IF Here(f) /\ cache[n].open THEN Sends(f, cache[n].ops \ t.batch) ELSE UNCHANGED <<srv, revived>>
    /\ strayed' = IF Here(f) /\ n # t.from THEN strayed \cup {f} ELSE strayed
    /\ Ends(i)
    /\ UNCHANGED <<index, stores, session, reborn, marker, typedOps, overlooked, early, left>>

\* A check before a live edit lets the edits go in, whatever it found.
TaskEnds(i) ==
    /\ queue[i].at = "end"
    /\ Ends(i)
    /\ checked' = IF queue[i].kind = "live" THEN checked \cup {queue[i].note} ELSE checked
    /\ UNCHANGED <<index, stores, link, since, skippedNotes, recreated, catchups, live, server, marker,
                   seen, left>>

\* foldDiskEditsIntoDoc: a document without content is not folded into.
FoldBegins(i) ==
    LET t == queue[i]  n == CHOOSE m \in t.names : TRUE IN
    /\ t.at = "ready"
    /\ IF ~t.gone /\ path[t.note] = n /\ cache[n].open /\ cache[n].ops # {}
       THEN queue' = [queue EXCEPT ![i].at = "fold", ![i].from = n,
                        ![i].life = lifeHere[t.note]]
       ELSE Ends(i)
    /\ UNCHANGED <<index, stores, session, server, marker, seen, left>>

\* An edit builds on a history of the document it goes into, or on none.
EditsIn(d, f, life) ==
    LET seeds == {o \in d.ops : o.by = "server"} IN
    {[s EXCEPT !.by = "here"] : s \in IF seeds = {} THEN {Seed(f, life)} ELSE seeds}

\* The edit is in the document; it goes out under the note the name is wired to,
\* and the marker is kept.
Folds(i) ==
    LET t == queue[i]  f == t.note  n == t.from  d == Acquired(n)
        to == WiredTo(n)[n]
        sound == Here(f) /\ t.life = lifeHere[f]
    IN
    /\ t.at = "fold"
    /\ \E op \in EditsIn(d, f, t.life) :
       LET sent == link /\ to # None /\ Merged(to, {op}) # {} IN
       /\ Put(n, [d EXCEPT !.ops = @ \cup {op}]) /\ subs' = WiredTo(n)
       /\ srv' = IF sent THEN [srv EXCEPT ![to].ops = @ \cup {op}] ELSE srv
       /\ revived' = IF sent /\ (f \notin checked \/ t.life # lifeHere[f])
                     THEN [revived EXCEPT ![f] = @ \cup {op}] ELSE revived
       /\ typedOps' = IF sound THEN [typedOps EXCEPT ![f] = @ \cup {op}] ELSE typedOps
    /\ folded' = IF sound THEN [folded EXCEPT ![f] = TRUE] ELSE folded
    /\ foldedOnDisk' = IF sound THEN [foldedOnDisk EXCEPT ![f] = TRUE] ELSE foldedOnDisk
    /\ early' = IF docMoves[f] # <<>> THEN early \cup {f} ELSE early
    /\ Ends(i)
    /\ UNCHANGED <<index, clearing, session, reborn, lifeHere, overlooked, strayed,
                   left>>

\* A crash keeps the stores, the names and what state.json has. A delete of a store
\* under way may go through.
StoresCrash ==
    /\ Spend("crash")
    /\ \E gone \in SUBSET {n \in Name : clearing[n] > 0} :
          store' = [n \in Name |-> IF n \in gone THEN NoStore ELSE store[n]]
    /\ docMoves' = [f \in Note |-> <<>>] /\ cache' = [n \in Name |-> NoDoc]
    /\ subs' = [n \in Name |-> None] /\ clearing' = [n \in Name |-> 0] /\ queue' = <<>>
    /\ link' = FALSE /\ checked' = {} /\ since' = {} /\ skippedNotes' = {} /\ recreated' = {}
    /\ catchups' = Off /\ live' = Off
    /\ folded' = foldedOnDisk
    /\ UNCHANGED <<path, server, foldedOnDisk, lifeHere, seen>>

TaskStep(i) ==
    \/ MoveBegins(i) \/ MoveLooks(i) \/ MoveMakesRoom(i) \/ MoveOpens(i) \/ MoveCarries(i) \/ MoveEnds(i)
    \/ StartClears(i) \/ StartWires(i) \/ StartClaims(i)
    \/ Opens(i) \/ Opened(i) \/ Hydrates(i) \/ Checks(i) \/ StartsOver(i) \/ Applies(i)
    \/ CatchupPushes(i) \/ TaskEnds(i) \/ FoldBegins(i) \/ Folds(i)

StoresNext ==
    \/ \E i \in DOMAIN queue : TaskStep(i)
    \/ Load \/ ClearEnds \/ Rename \/ RelocateAsked \/ Create \/ Delete \/ Connect \/ ClockPasses
    \/ Disconnect \/ MateEdits \/ Recreated \/ CatchupBegins \/ LiveComes \/ Edit \/ StoresCrash

StoresSpec == StoresInit /\ [][StoresNext]_storeVars

-----------------------------------------------------------------------------
(***************************************************************************)
(* Properties.                                                             *)
(***************************************************************************)

\* Types; a document waits for a delete under way only (acquire), and a renamed note's
\* history is on its way to the name the note has (moveRenamedDoc).
StoresTypeOK ==
    /\ \A n \in Name : /\ cache[n].ops \cup store[n].ops \subseteq Op /\ clearing[n] \in Nat
                       /\ cache[n].waits => clearing[n] > 0
    /\ \A f \in Note : /\ path[f] \in Name \cup {None} /\ srv[f].ops \subseteq Op
                       /\ Here(f) /\ docMoves[f] # <<>> => Last(docMoves[f]).to = path[f]
    /\ \A i \in DOMAIN queue : queue[i].names \subseteq Name

Own(f, o) ==
    o.note = f /\ (o.life = srv[f].life \/ {o, Seed(f, o.life)} \cap revived[f] # {})
Foreign(f) == {o \in srv[f].ops : ~Own(f, o)}

\* Whatever is renamed, deleted and created under a name, the server's document of a
\* note is never sent operations of another note, nor of an earlier life of the note
\* which the server did not continue itself (open, checkLineage, claimNew, clear). Not
\* for the notes of `overlooked` and `strayed`.
OnlyItsOwn == \A f \in Note : f \notin overlooked \cup strayed => Foreign(f) = {}

HeldOf(f) == cache[DocPath(f)].ops \cup store[DocPath(f)].ops \cup srv[f].ops

\* An edit the fold marker says is in the note's history is there, under the name the
\* history has now, or at the server: no rename, delete or new note at the name loses it
\* behind the marker's back (moveRenamedDoc, switchRecords, startDoc, afterDocMove).
FoldedIsHeld ==
    \A f \in Note : Here(f) /\ folded[f] /\ f \notin early \cup strayed => typedOps[f] \subseteq HeldOf(f)
=============================================================================
