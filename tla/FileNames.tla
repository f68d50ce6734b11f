----------------------------- MODULE FileNames -----------------------------
(***************************************************************************)
(* The names of a binding's files: on this device's disk, in the engine's  *)
(* index, in the queue of the operations not sent yet, and on the server.  *)
(* The user creates, renames and deletes files, a teammate does the same   *)
(* on the server, and every handler of the engine (sync/engine.ts) runs in *)
(* between, one piece at a time: a piece ends where the code awaits the    *)
(* disk, the server, a lock or another handler.                            *)
(*                                                                         *)
(* A handler under way is a task: the calls it still has to make, the      *)
(* first one next.  A call that awaits nothing runs before anything else   *)
(* does (`Urgent`), as the microtasks of the code do.                      *)
(*                                                                         *)
(* A content is a number, a new one for every new file, so no two files    *)
(* are alike.  The device is offline to start with or online; it goes      *)
(* online once, and a teammate is busy only then: what a join makes up for *)
(* is the business of other parts of the engine.                           *)
(***************************************************************************)
EXTENDS Naturals, Integers, Sequences, FiniteSets, SequencesExt

CONSTANTS
    Name,       \* the names people give files
    Spare,      \* the conflict names the server makes up
    QuickLooks, \* a look at one file on this disk is over before anything else
                \* comes: the user's next change, the connect, a copy written
    Busy        \* bound: how often the user and a teammate act, as pairs of numbers

ASSUME FileNamesAssumption ==
    /\ Name \cap Spare = {} /\ "" \notin Name \cup Spare
    /\ QuickLooks \in BOOLEAN /\ Busy \subseteq Nat \X Nat

Names == Name \cup Spare
MaxActs == Max({b[1] + b[2] : b \in Busy})
Ids == 1 .. Cardinality(Name) + MaxActs
Tasks == 1 .. MaxActs + 1
None == ""

VARIABLES
    disk,     \* name -> the content of the file there, 0 for none
    parked,   \* contents put aside under a conflict name of this device's
    e,        \* the engine: see EngineInit
    up, down, \* what the socket still carries, each way in order
    srv,      \* file id -> its name on the server (None: not there) and content
    link,     \* connected, and the join through
    acts, theirs,   \* how often the user and the teammate still act
    made,     \* how many contents there have been
    meant     \* those nobody has deleted

vars == <<disk, parked, e, up, down, srv, link, acts, theirs, made, meant>>

-----------------------------------------------------------------------------
(* Tasks and calls.                                                        *)

\* A call: what it does, on which name, towards which name, for which file;
\* `rel`: let in by releaseName.
Call(does, a, b, id, rel) == [do |-> does, a |-> a, b |-> b, id |-> id, rel |-> rel]
On(does, a) == Call(does, a, None, 0, FALSE)
OnTo(does, a, b) == Call(does, a, b, 0, FALSE)
OnFile(does, a, b, id) == Call(does, a, b, id, FALSE)

\* `on`: the promise of another task this one has taken; `got`: what it came
\* to, `merged`: a file the server gave back for the same content.  `claim`: the
\* file this delete is of.  `holds`: saves wait for this delete.  `beaten`: the
\* file was renamed here since this began.
NoPromise == <<0, "">>
Idle == [todo |-> <<>>, on |-> NoPromise, got |-> 0, merged |-> FALSE, claim |-> 0,
         holds |-> FALSE, beaten |-> FALSE]

Now(x, t) == Head(x.tasks[t].todo)
Does(x, t) == IF x.tasks[t].todo = <<>> THEN "" ELSE Now(x, t).do

\* The call under way is through, and `calls` come in its place.  `order`:
\* those that wait for a promise or a lock, which go on in that order.
Then(x, t, calls) == [x EXCEPT !.tasks[t].todo = calls \o Tail(@),
                               !.order = SelectSeq(@, LAMBDA k : k # t)]
LineUp(x, t) == [x EXCEPT !.order = Append(@, t)]
Return(x, t) == Then(x, t, <<>>)

Start(x, call) ==
    LET t == CHOOSE k \in Tasks : x.tasks[k].todo = <<>> /\ \A j \in 1 .. k - 1 : x.tasks[j].todo # <<>>
    IN  [x EXCEPT !.tasks[t] = [Idle EXCEPT !.todo = <<call>>]]

Awaits(x, t, promise, calls) ==
    LineUp([Then(x, t, calls) EXCEPT !.tasks[t].on = promise, !.tasks[t].got = 0,
                                     !.tasks[t].merged = FALSE], t)

\* vanishedFolderOf: the looks at folders, and the sends after them, keep the
\* order in which deletes and renames asked for them.
Join(x, t) == [x EXCEPT !.checks = Append(@, t)]
\* Mutant: the folder check is not left.
Stay(x, t) == x
Leave(x, t) == [x EXCEPT !.checks = SelectSeq(@, LAMBDA k : k # t)]
Checked(x, t) == x.checks # <<>> /\ Head(x.checks) = t

Resolve(x, promise, result) ==
    [x EXCEPT !.tasks = [t \in Tasks |->
        IF x.tasks[t].on = promise
        THEN [x.tasks[t] EXCEPT !.on = NoPromise, !.got = result] ELSE x.tasks[t]]]

\* withPathLocks: a task has its names once no task before it has one of them.
Lock(x, t, names) == LineUp([x EXCEPT !.locks = Append(@, [task |-> t, names |-> names])], t)
Unlock(x, t) == [x EXCEPT !.locks = SelectSeq(@, LAMBDA l : l.task # t)]
Granted(x, t) ==
    \E i \in DOMAIN x.locks :
        x.locks[i].task = t /\ \A j \in 1 .. i - 1 : x.locks[j].names \cap x.locks[i].names = {}

-----------------------------------------------------------------------------
(* What the engine knows.                                                  *)

\* fileIndex.byPath and byId, `nod`: notOnDisk; outOfScope; waitingForName;
\* creating; renamedAfterCreate; the queue; the handlers; the path locks.
NotIndexed == [at |-> None, nod |-> FALSE, tok |-> 0]
NoMove == [kind |-> "", id |-> 0]

Known(x, id) == x.byId[id].at # None
CreateQueued(x, n) == \E i \in DOMAIN x.queue : x.queue[i].op = "CREATE" /\ x.queue[i].from = n
QueuedMoves(x, id) == {i \in DOMAIN x.queue : x.queue[i].op = "RENAME" /\ x.queue[i].id = id}
MovingHere(x) == {Now(x, t).id : t \in {t \in Tasks : Does(x, t) \in {"move", "relocate"}}}
RenamingHere(x, id) == \E t \in Tasks : Does(x, t) \in {"renaming", "renameSent"} /\ Now(x, t).id = id
RenamePendingHere(x, id) == RenamingHere(x, id) \/ QueuedMoves(x, id) # {}
ClaimOf(x, id) == IF id # 0 /\ \E t \in Tasks : x.tasks[t].claim = id
                       THEN CHOOSE t \in Tasks : x.tasks[t].claim = id ELSE 0
BeingDeleted(x, n) == {t \in Tasks : \E i \in DOMAIN x.tasks[t].todo :
                                         /\ x.tasks[t].todo[i].do = "deleteDone"
                                         /\ x.tasks[t].todo[i].a = n}
CreatingAt(x, n) == x.creating[n] # NoPromise
OwnCreateAt(x, n) == \E t \in Tasks : Does(x, t) = "createSent" /\ Now(x, t).a = n
BeingMade(x, n) == CreatingAt(x, n) \/ OwnCreateAt(x, n)

\* recordedAfterCreate: a rename that waits for the create of the file.
RecordedAfter(x, n) == {t \in Tasks : Does(x, t) = "afterCreate" /\ Now(x, t).b = n}
CreatedUnder(x, n) == IF RecordedAfter(x, n) # {}
                       THEN <<CHOOSE t \in RecordedAfter(x, n) : TRUE, "recorded">>
                       ELSE x.creating[n]

ForgetPath(x, id, n) == IF x.byPath[n] \in {0, id} THEN [x EXCEPT !.byPath[n] = 0] ELSE x
ForgetId(x, id) == [x EXCEPT !.byId[id] = NotIndexed]
ForgetWaiting(x, id) ==
    [x EXCEPT !.waiting = [n \in Names |-> IF @[n].id = id THEN NoMove ELSE @[n]]]
Wait(x, n, kind, id) == [x EXCEPT !.waiting[n] = [kind |-> kind, id |-> id]]
WaitOut(x, n, id) == [Wait(x, n, "create", id) EXCEPT !.oos[id] = n]

Index(x, id, n, nod, tok) ==
    [x EXCEPT !.byPath[n] = id, !.byId[id] = [at |-> n, nod |-> nod, tok |-> tok]]

Queue(x, op, id, from, to) ==
    [x EXCEPT !.queue = Append(@, [op |-> op, id |-> id, from |-> from, to |-> to,
                                   inPass |-> FALSE, sent |-> FALSE])]

\* What happened that the properties make an exception for.
Window(x, w) == [x EXCEPT !.windows = @ \cup {w}]
WindowIf(x, yes, w) == IF yes THEN Window(x, w) ELSE x

\* The drain's entry is answered, or dropped.
Settle(x, t) == IF t = x.drain THEN [x EXCEPT !.queue = SelectSeq(@, LAMBDA q : ~q.sent)] ELSE x

-----------------------------------------------------------------------------
(* Turns.  A call that awaits nothing is urgent; the others wait for the   *)
(* disk, for the store or for the server, and anything may come first.     *)

Asks == {"create", "createLocal", "modify", "createDone", "rename", "renameFrom",
          "afterCreate", "afterDone", "delete", "deleteCreated", "join", "deleteDone",
          "arrive", "apply", "release", "flush", "stored", "dropped"}
Locked == {"renameLook", "locked"}

Urgent(t) == \/ Does(e, t) \in Asks /\ e.tasks[t].on = NoPromise
             \/ Does(e, t) \in Locked /\ Granted(e, t)

InLine(t) == IF \E i \in DOMAIN e.order : e.order[i] = t
                   THEN CHOOSE i \in DOMAIN e.order : e.order[i] = t ELSE 0
Turn(t, does) == /\ Does(e, t) = does /\ Urgent(t)
                   /\ \A k \in Tasks : Urgent(k) => InLine(k) >= InLine(t)
\* An await of the disk or the store ends.
Ends(t, does) == Does(e, t) = does /\ ~\E k \in Tasks : Urgent(k)
EndsLocked(t, does) == Ends(t, does) /\ Granted(e, t)
\* Something comes from outside.
Quiet == ~\E k \in Tasks : Urgent(k)

\* A file is off this name on the disk, and in the records not yet.
Leaving(n) == \E k \in Tasks : Does(e, k) = "relocate" /\ Now(e, k).a = n
Entering(n) == \E k \in Tasks : Does(e, k) \in {"move", "relocate"} /\ Now(e, k).b = n

\* A look at the disk under way: one file is looked up, or read.
Looking == \E t \in Tasks : \/ Does(e, t) \in {"gone", "read", "yield", "move", "remove"}
                            \/ Does(e, t) = "place" /\ Granted(e, t)
DiskAtRest == QuickLooks => ~Looking

world == <<disk, parked, up, down, srv, link, acts, theirs, made, meant>>

-----------------------------------------------------------------------------
(* A file created here.                                                    *)

\* handleLocalCreate: after the create of the name under way, if any.
LocalCreate(t) ==
    /\ Turn(t, "create")
    /\ LET n == Now(e, t).a  x == WindowIf(e, Leaving(n), "leaving") IN
       e' = IF CreatingAt(e, n) THEN Awaits(x, t, e.creating[n], <<On("createLocal", n)>>)
            ELSE Then(x, t, <<On("createLocal", n)>>)
    /\ UNCHANGED world

\* createLocal: trackCreate, once the name is not another file's here.
Track(x, t, n) == [Then(x, t, <<On("read", n)>>) EXCEPT !.creating[n] = <<t, "create">>]

CreateLocal(t) ==
    /\ Turn(t, "createLocal")
    /\ LET n == Now(e, t).a  known == e.byPath[n] IN
       e' = IF known = 0 THEN Track(e, t, n)
            ELSE IF e.byId[known].nod
            THEN Lock(Then(e, t, <<OnFile("yield", n, None, known)>>), t, {n})
            ELSE Then(e, t, <<On("modify", n)>>)
    /\ UNCHANGED world

\* yieldNameNotWritten: a file recorded here and not on this disk yet gives
\* its name to the one the user saved under it, and waits for the name.
Yield(t) ==
    /\ EndsLocked(t, "yield")
    /\ LET n == Now(e, t).a  id == Now(e, t).id  x == Unlock(e, t)
           y == WindowIf(x, \E k \in Names : e.waiting[k].id = id, "stranded")
       IN
       e' = IF e.byPath[n] = id /\ e.byId[id].nod
            THEN IF disk[n] = 0 THEN Return(x, t)
                 ELSE Track(WaitOut(ForgetId(ForgetPath(y, id, n), id), n, id), t, n)
            ELSE IF e.byPath[n] # 0 THEN Then(x, t, <<On("modify", n)>>) ELSE Track(x, t, n)
    /\ UNCHANGED world

\* sendLocalCreate, and the CREATE of replayPending: read, then sent or queued.
ReadCreated(t) ==
    /\ Ends(t, "read")
    /\ LET n == Now(e, t).a IN
       IF disk[n] = 0
       THEN e' = Then(e, t, <<OnFile("createDone", n, None, 0)>>) /\ UNCHANGED up
       ELSE IF link
       THEN /\ up' = Append(up, [op |-> "CREATE", id |-> 0, at |-> n, tok |-> disk[n], task |-> t])
            /\ e' = Then(e, t, <<OnFile("createSent", n, None, disk[n])>>)
       ELSE /\ e' = Queue(Then(e, t, <<OnFile("createDone", n, None, 0)>>), "CREATE", 0, n, None)
            /\ UNCHANGED up
    /\ UNCHANGED <<disk, parked, down, srv, link, acts, theirs, made, meant>>

\* The create is through: the file, and whether the server had it already.
Created(n, id, merged) == [OnFile("createDone", n, None, id) EXCEPT !.rel = merged]

\* recordCreatedFile
Record(x, t, id, n, tok) ==
    Settle(WindowIf(Index([ForgetWaiting(x, id) EXCEPT !.oos[id] = None], id, n, FALSE, tok),
                    x.byPath[n] \notin {0, id}, "overwritten"), t)

\* recordCreateAck: under the name asked for, or under a conflict name.
CreateAcked(x, t, ack) ==
    LET n == Now(x, t).a  tok == Now(x, t).id IN
    IF ack.at = n
    THEN WindowIf(Then(Record(x, t, ack.id, n, tok), t, <<Created(n, ack.id, ack.merged)>>),
                  ack.merged /\ (disk[n] = 0 \/ x.byId[ack.id].at \notin {None, n}), "merged")
    ELSE IF n \in x.renamedAfter /\ x.byPath[ack.at] = 0 /\ disk[n] = 0
    THEN WindowIf(Then(Record(x, t, ack.id, ack.at, tok), t,
                       <<On("release", n), Created(n, ack.id, ack.merged)>>),
                  ~\E k \in Tasks : x.tasks[k].on = <<t, "create">> /\ Does(x, k) = "afterCreate",
                  "again")
    ELSE Lock(Then(x, t, <<[OnFile("place", n, ack.at, ack.id) EXCEPT !.rel = ack.merged]>>),
              t, {n, ack.at})

Place(t) ==
    /\ EndsLocked(t, "place")
    /\ LET n == Now(e, t).a  s == Now(e, t).b  id == Now(e, t).id  x == Unlock(e, t) IN
       IF e.byPath[n] # 0 \/ e.byPath[s] # 0 \/ disk[s] # 0
       THEN e' = Window(Then(x, t, <<OnFile("createDone", n, None, 0)>>), "kept") /\ UNCHANGED disk
       ELSE IF disk[n] = 0
       THEN e' = Then(x, t, <<Created(n, -id, Now(e, t).rel)>>) /\ UNCHANGED disk
       ELSE /\ disk' = [disk EXCEPT ![n] = 0, ![s] = disk[n]]
            /\ e' = WindowIf(Then(Record(x, t, id, s, disk[n]), t,
                                  <<On("release", n), Created(n, id, Now(e, t).rel)>>),
                             n \in e.renamedAfter, "taken")
    /\ UNCHANGED <<parked, up, down, srv, link, acts, theirs, made, meant>>

\* The end of trackCreate: whoever waits for the create gets its file, the
\* id of one stored and gone here as a negative number.
Untrack(x, n, promise) == IF x.creating[n] = promise THEN [x EXCEPT !.creating[n] = NoPromise] ELSE x

CreateDone(t) ==
    /\ Turn(t, "createDone")
    /\ LET c == Now(e, t)  x == Untrack(Settle(Return(e, t), t), c.a, <<t, "create">>) IN
       e' = Resolve([x EXCEPT !.tasks = [k \in Tasks |->
                       [@[k] EXCEPT !.merged = IF e.tasks[k].on = <<t, "create">> THEN c.rel ELSE @]]],
                    <<t, "create">>, c.id)
    /\ UNCHANGED world

\* handleLocalModify: a save under a name that is a file's here; content goes
\* to the server as it is folded.
Modify(t) ==
    /\ Turn(t, "modify")
    /\ LET n == Now(e, t).a  id == e.byPath[n]
           holding == {d \in BeingDeleted(e, n) : e.tasks[d].holds}
       IN
       e' = IF holding # {}
            THEN Awaits(e, t, <<CHOOSE d \in holding : TRUE, "through">>, <<On("modify", n)>>)
            ELSE IF id = 0 \/ e.byId[id].nod THEN Then(e, t, <<On("create", n)>>)
            ELSE IF ClaimOf(e, id) # 0
            THEN Awaits(e, t, <<ClaimOf(e, id), "claim">>, <<On("modify", n)>>)
            ELSE Lock(Then(e, t, <<OnFile("fold", n, None, id)>>), t, {n})
    /\ UNCHANGED world

Fold(t) ==
    /\ EndsLocked(t, "fold")
    /\ LET n == Now(e, t).a  id == Now(e, t).id  x == Unlock(e, t)  now == e.byId[id].at IN
       IF e.byPath[n] # id
       THEN /\ e' = IF now \notin {None, n} THEN Then(x, t, <<On("modify", now)>>) ELSE Return(x, t)
            /\ UNCHANGED srv
       ELSE IF disk[n] = 0 THEN e' = Return(x, t) /\ UNCHANGED srv
       ELSE /\ e' = [Return(x, t) EXCEPT !.byId[id].tok = disk[n]]
            /\ srv' = [srv EXCEPT ![id].tok = disk[n]]
    /\ UNCHANGED <<disk, parked, up, down, link, acts, theirs, made, meant>>

-----------------------------------------------------------------------------
(* A file renamed here.                                                    *)

\* handleLocalRename: one that meets a move of the server's under way looks
\* again once that is through.
LocalRename(t) ==
    /\ Turn(t, "rename")
    /\ LET o == Now(e, t).a  n == Now(e, t).b  id == e.byPath[o]
           x == WindowIf(e, Leaving(n), "leaving")
       IN
       e' = IF (IF id = 0 THEN MovingHere(e) # {} ELSE id \in MovingHere(e))
            THEN Lock(Then(x, t, <<OnFile("renameLook", o, n, id)>>), t, {o, n})
            ELSE Then(x, t, <<OnTo("renameFrom", o, n)>>)
    /\ UNCHANGED world

RenameLook(t) ==
    /\ Turn(t, "renameLook")
    /\ LET c == Now(e, t)  x == Unlock(e, t) IN
       e' = IF c.id # 0 /\ e.byId[c.id].at # c.a THEN Return(x, t)
            ELSE Then(x, t, <<OnTo("renameFrom", c.a, c.b)>>)
    /\ UNCHANGED world

\* The synchronous part of renameRecorded: the records follow at once
\* (switchRecords), a rename of the server's that waits is beaten.
\* Mutant: the old name keeps leading to the file.
SwitchRecordsKeepOld(x, id, o, n) ==
    [ForgetWaiting(x, id) EXCEPT !.byPath[n] = id, !.byId[id].at = n]
SwitchRecords(x, id, o, n) ==
    LET z == WindowIf(ForgetPath(ForgetWaiting(x, id), id, o), ClaimOf(x, id) # 0, "deleting")
        y == WindowIf(z, x.byPath[n] \notin {0, id}, "overwritten")
    IN
    [y EXCEPT !.byPath[n] = id, !.byId[id] = [x.byId[id] EXCEPT !.at = n],
              !.tasks = [k \in Tasks |->
                  IF Does(x, k) = "locked" /\ Now(x, k).id = id
                  THEN [y.tasks[k] EXCEPT !.beaten = TRUE] ELSE y.tasks[k]]]

\* renameRecorded up to its first await: the note's history will follow under
\* the locks of both names, asked for now (moveRenamedDoc), and the rename is
\* sent after its folder check.
Renaming(x, t, id, o, n) ==
    [Join(SwitchRecords(x, id, o, n), t) EXCEPT
        !.locks = Append(@, [task |-> t, names |-> {o, n}])]

\* followQueuedCreate
\* Mutant: the queued create keeps the name it was queued under.
FollowNothing(x, o, n) == x
FollowQueued(x, o, n) ==
    [x EXCEPT !.queue = [i \in DOMAIN @ |->
        IF @[i].op = "CREATE" /\ @[i].from = o THEN [@[i] EXCEPT !.from = n] ELSE @[i]]]

RenameFrom(t) ==
    /\ Turn(t, "renameFrom")
    /\ LET o == Now(e, t).a  n == Now(e, t).b  id == e.byPath[o]
           going == BeingDeleted(e, n) # {} \/ ClaimOf(e, e.byPath[n]) # 0
           held == e.byPath[n]
           x == WindowIf(WindowIf(e, held # 0 /\ going, "deleting"),
                         held # 0 /\ id = 0 /\ e.byId[held].nod, "overwritten")
       IN
       e' = IF id # 0
            THEN Renaming(Then(e, t, <<OnFile("renaming", o, n, id)>>), t, id, o, n)
            ELSE IF CreatingAt(e, o)
            THEN [Awaits(x, t, e.creating[o], <<OnTo("afterCreate", o, n)>>)
                    EXCEPT !.renamedAfter = @ \cup {o}, !.creating[n] = <<t, "after">>]
            ELSE IF held # 0 THEN Return(x, t)
            ELSE IF CreateQueued(e, o) THEN FollowQueued(Then(x, t, <<On("release", o)>>), o, n)
            ELSE Then(x, t, <<On("create", n)>>)
    /\ UNCHANGED world

\* renameAfterCreate: the file renamed while its create was unanswered; one the
\* server gave back for the same content keeps its name.
AfterCreate(t) ==
    /\ Turn(t, "afterCreate")
    /\ LET o == Now(e, t).a  n == Now(e, t).b  got == e.tasks[t].got
           at == IF got > 0 /\ ~e.tasks[t].merged THEN e.byId[got].at ELSE None
           told(x, result) == Resolve(x, <<t, "recorded">>, result)
           done(result) == OnFile("afterDone", o, n, result)
       IN
       e' = IF at = n THEN told(Then(e, t, <<done(got)>>), got)
            ELSE IF at # None
            THEN told(Renaming(Then(e, t, <<OnFile("renaming", at, n, got), done(got)>>),
                               t, got, at, n), got)
            ELSE IF got = 0 /\ CreateQueued(e, o)
            THEN told(FollowQueued(Then(e, t, <<done(0)>>), o, n), 0)
            ELSE told(Then(e, t, <<On("createLocal", n), done(0)>>), 0)
    /\ UNCHANGED world

AfterDone(t) ==
    /\ Turn(t, "afterDone")
    /\ LET c == Now(e, t)
           x == WindowIf([Return(e, t) EXCEPT !.renamedAfter = @ \ {c.a}],
                         e.waiting[c.b] # NoMove /\ e.byPath[c.b] = 0, "stranded")
       IN
       e' = Resolve(Untrack(x, c.b, <<t, "after">>), <<t, "after">>, c.id)
    /\ UNCHANGED world

\* supersedeQueuedMoves: the queued renames of the file a newer one makes
\* needless, unless another file's operation in the queue wants the name.
InTheWay(x, id, n) ==
    \E i \in DOMAIN x.queue : x.queue[i].id # id /\ n \in {x.queue[i].from, x.queue[i].to}
Supersede(x, id) ==
    [x EXCEPT !.queue = SelectSeq(@, LAMBDA q : q.op = "RENAME" /\ q.id = id => q.sent)]

\* followStoredRename: stored under a conflict name, the file moves there,
\* unless it is no longer under the name asked for.
FollowStored(x, id, n, stored) ==
    IF stored \notin {None, n} /\ x.byId[id].at = n
    THEN <<OnFile("apply", stored, None, id)>> ELSE <<>>

\* The end of renameRecorded: answered or queued, it waits for the history, and
\* then moves the file where the server has stored it.
FollowUp(x, t) ==
    LET c == Now(x, t)  follow == FollowStored(x, c.id, c.a, c.b)  y == Then(x, t, follow) IN
    WindowIf(WindowIf(y, follow # <<>> /\ RenamePendingHere(y, c.id), "back"),
             follow # <<>> /\ \E k \in Tasks : Does(x, k) = "locked" /\ Now(x, k).id = c.id, "behind")

AwaitHistory(x, t, stored) ==
    LET c == Now(x, t)
        y == Then(x, t, <<OnFile("history", c.b, stored, c.id), On("release", c.a)>>)
    IN  IF \E i \in DOMAIN x.locks : x.locks[i].task = t THEN y ELSE FollowUp(y, t)

\* The locks are let go again.
HistoryMoves(t) ==
    /\ Does(e, t) \in {"renaming", "renameSent", "history"} /\ Granted(e, t) /\ Quiet
    /\ e' = IF Does(e, t) = "history" THEN FollowUp(Unlock(e, t), t) ELSE Unlock(e, t)
    /\ UNCHANGED world

RenameAcked(x, t, ack) == AwaitHistory(x, t, ack.at)

\* The rest of renameRecorded, up to the send.
SendRename(t) ==
    /\ Ends(t, "renaming") /\ Checked(e, t)
    /\ LET o == Now(e, t).a  n == Now(e, t).b  id == Now(e, t).id  x == Leave(e, t) IN
       IF link /\ (QueuedMoves(e, id) # {} => ~InTheWay(e, id, n))
       THEN /\ up' = Append(up, [op |-> "RENAME", id |-> id, at |-> n, tok |-> 0, task |-> t])
            /\ e' = Supersede(Then(x, t, <<OnFile("renameSent", o, n, id)>>), id)
       ELSE /\ e' = Queue(AwaitHistory(x, t, None), "RENAME", id, o, n)
            /\ UNCHANGED up
    /\ UNCHANGED <<disk, parked, down, srv, link, acts, theirs, made, meant>>

-----------------------------------------------------------------------------
(* A file deleted here.                                                    *)

\* sendLocalDelete, up to its first await: the file recorded under the name
\* is claimed, or the delete of it under way joined; with none recorded, the
\* create of the name under way tells which file it is.
LocalDelete(t) ==
    /\ Turn(t, "delete")
    /\ LET n == Now(e, t).a  id == e.byPath[n]  other == ClaimOf(e, id)
           created == CreatedUnder(e, n)
           rest == <<OnFile("gone", n, None, id), OnFile("deleteDone", n, None, 0)>>
       IN
       e' = IF other \notin {0, t} THEN Awaits(e, t, <<other, "claim">>, <<On("join", n)>>)
            ELSE IF id # 0 THEN [Then(e, t, rest) EXCEPT !.tasks[t].claim = id]
            ELSE WindowIf([Awaits(e, t, created, rest) EXCEPT !.tasks[t].holds = (created # NoPromise)],
                          \E k \in Tasks : Does(e, k) \in {"relocate", "renameLook"} /\ Now(e, k).b = n, "moved")
    /\ UNCHANGED world

\* The file to delete is known: another delete of it is joined, and with
\* none the delete is sent, or queued with its records forgotten here.
ForgetDeleted(x, id, n) ==
    ForgetWaiting(ForgetPath(IF x.byId[id].at = n THEN ForgetId(x, id) ELSE x, id, n), id)
\* Mutant: a claim given up without telling who waits for it.
EndClaimSilent(x, t, outcome) == [x EXCEPT !.tasks[t].claim = 0]
EndClaim(x, t, outcome) ==
    Resolve([x EXCEPT !.tasks[t].claim = 0], <<t, "claim">>, outcome)
Gone(n) == OnFile("deleteDone", n, None, 1)

SendDelete(t, n, id) ==
    LET claimed == e.tasks[t].claim  got == e.tasks[t].got
        w == WindowIf([Leave(e, t) EXCEPT !.tasks[t].todo = <<Head(@)>>],
                      id = 0 /\ \E k \in {claimed, got} \cap Ids : Known(e, k), "moved")
        x == WindowIf(w, id # 0 /\ Does(e, t) = "listed", "listed")
        other == ClaimOf(e, id)
    IN
    IF id = 0 THEN e' = Then(x, t, <<On("release", n), Gone(n)>>) /\ UNCHANGED up
    ELSE IF other \notin {0, t}
    THEN /\ e' = Awaits(Leave(e, t), t, <<other, "claim">>, <<On("join", n)>>)
         /\ UNCHANGED up
    ELSE LET y == [x EXCEPT !.tasks[t].claim = id] IN
         IF link
         THEN /\ up' = Append(up, [op |-> "DELETE", id |-> id, at |-> n, tok |-> 0, task |-> t])
              /\ e' = Then(y, t, <<OnFile("deleteSent", n, None, id)>>)
         ELSE /\ e' = EndClaim(ForgetDeleted(
                         Queue(Then(y, t, <<On("release", n), Gone(n)>>), "DELETE", id, n, None),
                         id, n), t, 1)
              /\ UNCHANGED up

IfAt(id, n) == IF id # 0 /\ e.byId[id].at = n THEN id ELSE 0

\* Still on the disk: nothing is deleted.
LookForCopy(t) ==
    /\ Ends(t, "gone")
    /\ LET c == Now(e, t) IN
       e' = IF disk[c.a] # 0 THEN Return(e, t)
            ELSE Join(Then(e, t, <<OnFile("found gone", c.a, None, c.id)>>), t)
    /\ UNCHANGED world

FoundGone(t) ==
    /\ Ends(t, "found gone") /\ Checked(e, t)
    /\ LET n == Now(e, t).a  indexed == Now(e, t).id  task == e.tasks[t]
           id == IF indexed # 0 THEN IfAt(indexed, n)
                 ELSE IF task.got > 0 THEN IfAt(task.got, n) ELSE 0
       IN
       IF id = 0 /\ indexed = 0 /\ task.holds
       THEN e' = Then(Leave(e, t), t, <<On("deleteCreated", n)>>) /\ UNCHANGED up
       ELSE IF id = 0 /\ indexed = 0 /\ link /\ e.waiting[n] = NoMove
               /\ ~CreateQueued(e, n) /\ ~CreatingAt(e, n)
       THEN e' = Then(Leave(e, t), t, <<On("list", n)>>) /\ UNCHANGED up
       ELSE SendDelete(t, n, id)
    /\ UNCHANGED <<disk, parked, down, srv, link, acts, theirs, made, meant>>

\* The file the create of the name recorded, or the one the server stored
\* under a conflict name with no copy left here.
DeleteCreated(t) ==
    /\ Turn(t, "deleteCreated")
    /\ LET n == Now(e, t).a  got == e.tasks[t].got IN
       SendDelete(t, n, IF got < 0 THEN -got ELSE IfAt(got, n))
    /\ UNCHANGED <<disk, parked, down, srv, link, acts, theirs, made, meant>>

\* resolveServerFileId: what the server lists under the name.
ListedAt(n) == {id \in Ids : srv[id].at = n}
List(t) ==
    /\ Ends(t, "list")
    /\ LET n == Now(e, t).a IN
       e' = Then(e, t, <<OnFile("listed", n, None,
                                IF ListedAt(n) = {} THEN 0 ELSE CHOOSE id \in ListedAt(n) : TRUE)>>)
    /\ UNCHANGED world

Listed(t) ==
    /\ Ends(t, "listed")
    /\ LET n == Now(e, t).a  id == Now(e, t).id IN
       SendDelete(t, n, IF id = 0 \/ Known(e, id) \/ e.oos[id] # None
                           \/ CreateQueued(e, n) \/ CreatingAt(e, n) THEN 0 ELSE id)
    /\ UNCHANGED <<disk, parked, down, srv, link, acts, theirs, made, meant>>

\* Answered or refused (the server has no such file), the records go.
DeleteAcked(x, t) ==
    LET c == Now(x, t)
        y == ForgetDeleted(Then(x, t, <<On("release", c.a), Gone(c.a)>>), c.id, c.a)
    IN  EndClaim(WindowIf(y, Known(y, c.id) \/ c.id \in MovingHere(x), "moved"), t, 1)

\* joinDelete: the other delete is through; kept, and this one looks again.
JoinDelete(t) ==
    /\ Turn(t, "join")
    /\ e' = IF e.tasks[t].got = 1 THEN Return(e, t) ELSE Then(e, t, <<On("delete", Now(e, t).a)>>)
    /\ UNCHANGED world

DeleteDone(t) ==
    /\ Turn(t, "deleteDone")
    /\ e' = Resolve([EndClaim(Return(e, t), t, Now(e, t).id) EXCEPT !.tasks[t].holds = FALSE],
                    <<t, "through">>, 0)
    /\ UNCHANGED world

-----------------------------------------------------------------------------
(* What the server tells of a teammate's files.                            *)

\* applyServerCreate: the file waits for its name while a file created here,
\* or another recorded one, has it.
Arrive(t) ==
    /\ Turn(t, "arrive")
    /\ LET n == Now(e, t).a  id == Now(e, t).id
           being == BeingMade(e, n) \/ CreateQueued(e, n)
       IN
       e' = IF Known(e, id) THEN Return(e, t)
            ELSE IF (being /\ ~Now(e, t).rel) \/ e.byPath[n] # 0
            THEN WindowIf(WaitOut(Return(e, t), n, id), e.creating[n][1] = t, "stranded")
            ELSE WindowIf(Index(Return(e, t), id, n, TRUE, 0), Entering(n), "moved in")
    /\ UNCHANGED world

\* The copy of a file new here is written, the name being free on the disk.
WriteCopy(id) ==
    /\ Quiet /\ DiskAtRest
    /\ e.byId[id].nod /\ disk[e.byId[id].at] = 0
    /\ ~\E i \in DOMAIN e.locks : e.byId[id].at \in e.locks[i].names
    /\ srv[id].at # None
    /\ disk' = [disk EXCEPT ![e.byId[id].at] = srv[id].tok]
    /\ e' = [e EXCEPT !.byId[id].nod = FALSE, !.byId[id].tok = srv[id].tok]
    /\ UNCHANGED <<parked, up, down, srv, link, acts, theirs, made, meant>>

\* applyServerRename, before its locks.
Apply(t) ==
    /\ Turn(t, "apply")
    /\ LET n == Now(e, t).a  id == Now(e, t).id  x == ForgetWaiting(e, id)  at == e.byId[id].at IN
       e' = IF at # None
            THEN [Lock(Then(x, t, <<Call("locked", at, n, id, Now(e, t).rel)>>), t, {at, n})
                    EXCEPT !.tasks[t].beaten = FALSE]
            ELSE IF e.oos[id] # None
            THEN [Then(x, t, <<OnFile("arrive", n, None, id)>>) EXCEPT !.oos[id] = None]
            ELSE Return(x, t)
    /\ UNCHANGED world

\* Under the locks: a rename made here meanwhile wins, another of the
\* server's makes it look again, and a name still another file's is waited
\* for.  One let in does not wait for a new file deleted since.
ApplyLocked(t) ==
    /\ Turn(t, "locked")
    /\ LET c == Now(e, t)  o == c.a  n == c.b  id == c.id  x == Unlock(e, t)
           gone == c.rel /\ disk[n] = 0 /\ ~CreatingAt(e, n)
       IN
       e' = IF e.tasks[t].beaten THEN Return(x, t)
            ELSE IF e.byId[id].at # o THEN Then(x, t, <<Call("apply", n, None, id, c.rel)>>)
            ELSE IF o = n THEN Return(x, t)
            ELSE IF e.byPath[n] \notin {0, id} \/ (CreateQueued(e, n) /\ ~gone)
            THEN WindowIf(Wait(Return(x, t), n, "rename", id),
                          e.byPath[n] # 0 /\ e.waiting[o].id = e.byPath[n], "stranded")
            ELSE WindowIf(Then(e, t, <<OnFile("move", o, n, id)>>),
                          BeingMade(e, n), "moved in")
    /\ UNCHANGED world

\* moveOnDisk: what holds the name on the disk, a file of nobody's yet, is
\* put aside.
MoveOnDisk(t) ==
    /\ Ends(t, "move")
    /\ LET o == Now(e, t).a  n == Now(e, t).b  id == Now(e, t).id
           moves == disk[o] # 0 /\ ~e.byId[id].nod
       IN
       /\ IF moves THEN /\ parked' = parked \cup ({disk[n]} \ {0})
                        /\ disk' = [disk EXCEPT ![o] = 0, ![n] = disk[o]]
          ELSE UNCHANGED <<disk, parked>>
       /\ e' = WindowIf(Then(e, t, <<OnFile("relocate", o, n, id)>>), moves /\ disk[n] # 0, "parked")
    /\ UNCHANGED <<up, down, srv, link, acts, theirs, made, meant>>

\* relocate: the history is under the new name, and the records switch over.
Relocated(x, id, o, n) ==
    [ForgetPath(x, id, o) EXCEPT !.byPath[n] = id, !.byId[id].at = n]

Relocate(t) ==
    /\ EndsLocked(t, "relocate")
    /\ LET o == Now(e, t).a  n == Now(e, t).b  id == Now(e, t).id
           x == WindowIf(WindowIf(WindowIf(e, BeingMade(e, n), "moved in"), ClaimOf(e, id) # 0, "moved"),
                         e.byPath[n] \notin {0, id}, "overwritten")
       IN
       e' = Then(Relocated(Unlock(x, t), id, o, n), t, <<On("release", o)>>)
    /\ UNCHANGED world

\* releaseName: the file that waits for the name is let in, unless a file
\* holds it, or a new one of this device's, still on the disk, is queued.
Release(t) ==
    /\ Turn(t, "release")
    /\ LET n == Now(e, t).a  move == e.waiting[n]  x == [e EXCEPT !.waiting[n] = NoMove] IN
       e' = IF move = NoMove \/ e.byPath[n] # 0 \/ (CreateQueued(e, n) /\ disk[n] # 0)
            THEN Return(e, t)
            ELSE IF move.kind = "rename"
            THEN IF Known(e, move.id) THEN Then(x, t, <<Call("apply", n, None, move.id, TRUE)>>)
                 ELSE Return(x, t)
            ELSE IF Known(e, move.id) \/ e.oos[move.id] = None THEN Return(x, t)
            ELSE [Then(x, t, <<Call("arrive", n, None, move.id, TRUE)>>) EXCEPT !.oos[move.id] = None]
    /\ UNCHANGED world

\* applyServerDelete: the copy goes with its records; while another file is
\* recorded under the name, the records only.
ServerDeleted(x, id) ==
    LET y == WindowIf(ForgetWaiting(x, id), id \in MovingHere(x), "moved")  at == x.byId[id].at IN
    IF at = None THEN y
    ELSE IF x.byPath[at] \notin {0, id} THEN ForgetId(y, id)
    ELSE Start(y, OnFile("remove", at, None, id))

\* Mutant: whatever is on the disk counts as the file's copy.
UnchangedAnyway(n, id) == TRUE
Unchanged(n, id) == disk[n] \in {0, e.byId[id].tok}

RemoveCopy(t) ==
    /\ Ends(t, "remove")
    /\ LET o == Now(e, t).a  id == Now(e, t).id  at == e.byId[id].at  n == IF at = None THEN o ELSE at
           x == WindowIf(ForgetPath(IF at = None THEN e ELSE ForgetId(e, id), id, n),
                         id \in MovingHere(e), "moved")
           after == IF x.byPath[o] # id THEN <<On("release", o)>> ELSE <<>>
       IN
       /\ IF Unchanged(n, id)
          THEN disk' = [disk EXCEPT ![n] = 0] /\ e' = Then(x, t, after)
          ELSE UNCHANGED disk /\ e' = Window(Then(x, t, after), "asked")
    /\ UNCHANGED <<parked, up, down, srv, link, acts, theirs, made, meant>>

-----------------------------------------------------------------------------
(* The queue: what was done offline goes out once connected.               *)

\* collapseQueuedRenames: renames of one file that follow on each other are
\* sent as one, as long as no other file's operation on their names is in
\* between.  The first of them takes the last name.
Follows(q, i, j) ==
    /\ i < j /\ q[j].op = "RENAME" /\ q[j].id = q[i].id /\ q[j].from = q[i].to
    /\ \A k \in i + 1 .. j - 1 :
          /\ q[k].id # q[i].id
          /\ {q[k].from, q[k].to} \cap {q[j].from, q[j].to} = {}
Pairs(q) == {p \in (DOMAIN q) \X (DOMAIN q) : q[p[1]].op = "RENAME" /\ Follows(q, p[1], p[2])}
First(pairs) ==
    CHOOSE p \in pairs : \A r \in pairs : p[1] < r[1] \/ (p[1] = r[1] /\ p[2] <= r[2])
Entry == [op : {"CREATE", "RENAME", "DELETE"}, id : {0} \cup Ids, from : Names,
          to : Names \cup {None}, inPass : BOOLEAN, sent : BOOLEAN]
Chained[q \in Seq(Entry)] ==
    IF Pairs(q) = {} THEN q
    ELSE LET p == First(Pairs(q)) IN Chained[RemoveAt([q EXCEPT ![p[1]].to = q[p[2]].to], p[2])]
\* One that comes back to the name it began under says nothing.
Collapsed(q) == SelectSeq(Chained[q], LAMBDA r : r.from # r.to)

\* flushPendingOperations: a pass over what is queued now.
Flush(t) ==
    /\ Turn(t, "flush")
    /\ e' = IF e.queue = <<>> THEN [Return(e, t) EXCEPT !.drain = 0]
            ELSE [Then(e, t, <<On("replay", None), On("flush", None)>>) EXCEPT
                    !.queue = LET q == Collapsed(@) IN
                              [i \in DOMAIN q |-> [q[i] EXCEPT !.inPass = TRUE]]]
    /\ UNCHANGED world

\* replayPending, one entry of the pass: what is sent is marked until answered.
NextInPass == {i \in DOMAIN e.queue : e.queue[i].inPass}
Marked(i) == [e EXCEPT !.queue[i].sent = TRUE]
Dropped(i) == [e EXCEPT !.queue = RemoveAt(@, i)]

PassDone(t) ==
    /\ Ends(t, "replay") /\ NextInPass = {}
    /\ e' = Return(e, t)
    /\ UNCHANGED world

Replay(t) ==
    /\ Ends(t, "replay") /\ NextInPass # {}
    /\ LET i == CHOOSE k \in NextInPass : \A l \in NextInPass : k <= l
           q == e.queue[i]  n == q.from  again == On("replay", None)
       IN
       \/ /\ q.op = "CREATE" /\ disk[n] = 0
          /\ e' = Then(Marked(i), t, <<On("release", n), On("dropped", n), again>>)
          /\ UNCHANGED up
       \/ /\ q.op = "CREATE" /\ disk[n] # 0 /\ e.byPath[n] # 0
          /\ e' = Then(Marked(i), t, <<On("modify", n), On("dropped", n), again>>)
          /\ UNCHANGED up
       \/ /\ q.op = "CREATE" /\ disk[n] # 0 /\ e.byPath[n] = 0
          /\ e' = [WindowIf(Then(Marked(i), t, <<OnFile("createSent", n, None, disk[n]), again>>),
                            CreatingAt(e, n), "twice")
                     EXCEPT !.creating[n] = <<t, "create">>]
          /\ up' = Append(up, [op |-> "CREATE", id |-> 0, at |-> n, tok |-> disk[n], task |-> t])
       \/ /\ q.op = "DELETE"
          /\ e' = Then(Marked(i), t, <<OnFile("deleteReplayed", n, None, q.id), again>>)
          /\ up' = Append(up, [op |-> "DELETE", id |-> q.id, at |-> n, tok |-> 0, task |-> t])
       \/ /\ q.op = "RENAME"
          /\ e' = Then(Marked(i), t, <<OnFile("renameReplayed", n, q.to, q.id), again>>)
          /\ up' = Append(up, [op |-> "RENAME", id |-> q.id, at |-> q.to, tok |-> 0, task |-> t])
    /\ UNCHANGED <<disk, parked, down, srv, link, acts, theirs, made, meant>>

\* The outcome of the entry: it leaves the queue.
DropEntry(t) ==
    /\ Turn(t, "dropped")
    /\ e' = Settle(Return(e, t), t)
    /\ UNCHANGED world

DeleteReplayed(x, t) ==
    LET c == Now(x, t)  at == IF Known(x, c.id) THEN x.byId[c.id].at ELSE c.a
        y == IF Known(x, c.id) THEN ForgetId(x, c.id) ELSE x
    IN  Settle(ForgetPath(ForgetPath(Return(y, t), c.id, at), c.id, c.a), t)

\* A rename queued before the records followed one at once: they follow now.
RenameReplayed(x, t, ack) ==
    LET c == Now(x, t)  y == Settle(x, t) IN
    IF ack.at # None /\ x.byId[c.id].at = c.a
    THEN Lock(Then(WindowIf(y, RenamePendingHere(y, c.id), "back"), t,
                   <<OnFile("follow", c.a, c.b, c.id), OnFile("stored", c.b, ack.at, c.id)>>),
              t, {c.a, c.b})
    ELSE Then(y, t, FollowStored(y, c.id, c.b, ack.at))

FollowReplayed(t) ==
    /\ EndsLocked(t, "follow")
    /\ LET c == Now(e, t) IN e' = Return(Relocated(Unlock(e, t), c.id, c.a, c.b), t)
    /\ UNCHANGED world

FollowStoredReplayed(t) ==
    /\ Turn(t, "stored")
    /\ LET c == Now(e, t) IN e' = Then(e, t, FollowStored(e, c.id, c.a, c.b))
    /\ UNCHANGED world

-----------------------------------------------------------------------------
(* The server, the socket, the user and a teammate.                        *)

FreeAt(n) == \A id \in Ids : srv[id].at # n
StoredAt(n) == IF FreeAt(n) THEN n ELSE CHOOSE s \in Spare : FreeAt(s)
NextId == CHOOSE id \in Ids : srv[id].tok = 0 /\ \A k \in 1 .. id - 1 : srv[k].tok # 0

Told(msg) == down' = Append(down, msg)
Ack(op, id, at, merged) ==
    [msg |-> "ack", of |-> op.op, task |-> op.task, id |-> id, at |-> at, merged |-> merged]
Event(what, id, at) ==
    [msg |-> what, of |-> "", task |-> 0, id |-> id, at |-> at, merged |-> FALSE]

\* The server stores a create or a rename to a taken name under a conflict
\* name, gives back the file it has for a create of the same name and content,
\* and refuses what is about a file it no longer has.
Serve ==
    /\ Quiet /\ up # <<>>
    /\ LET op == Head(up)
           same == {k \in Ids : op.op = "CREATE" /\ srv[k] = [at |-> op.at, tok |-> op.tok]}
           id == IF same # {} THEN CHOOSE k \in same : TRUE
                 ELSE IF op.op = "CREATE" THEN NextId ELSE op.id
           gone == op.op # "CREATE" /\ srv[id].at = None
           at == IF op.op = "DELETE" \/ gone THEN None
                 ELSE IF srv[id].at = op.at THEN op.at ELSE StoredAt(op.at)
       IN
       /\ srv' = IF op.op = "CREATE" THEN [srv EXCEPT ![id] = [at |-> at, tok |-> op.tok]]
                 ELSE [srv EXCEPT ![id].at = at]
       /\ Told(Ack(op, id, at, same # {}))
    /\ up' = Tail(up)
    /\ UNCHANGED <<disk, parked, e, link, acts, theirs, made, meant>>

\* What the socket brings: an answer its handler waits for, or an event.
Answered(x, msg) ==
    LET t == msg.task IN
    CASE Does(x, t) = "createSent"     -> CreateAcked(x, t, msg)
      [] Does(x, t) = "renameSent"     -> RenameAcked(x, t, msg)
      [] Does(x, t) = "deleteSent"     -> DeleteAcked(x, t)
      [] Does(x, t) = "renameReplayed" -> RenameReplayed(x, t, msg)
      [] Does(x, t) = "deleteReplayed" -> DeleteReplayed(x, t)

\* A rename of a file that is being renamed here is left to that one.
Placing(x, id) == \E t \in Tasks : Does(x, t) = "place" /\ Now(x, t).id = id
Heard(was, msg) ==
    LET x == WindowIf(was, Placing(was, msg.id), "placing") IN
    CASE msg.msg = "created" ->
           IF Known(x, msg.id) THEN x ELSE Start(x, OnFile("arrive", msg.at, None, msg.id))
      [] msg.msg = "renamed" ->
           IF RenamePendingHere(x, msg.id) THEN x ELSE Start(x, OnFile("apply", msg.at, None, msg.id))
      [] msg.msg = "deleted" -> ServerDeleted(x, msg.id)

Deliver ==
    /\ Quiet /\ down # <<>>
    /\ e' = IF Head(down).msg = "ack" THEN Answered(e, Head(down)) ELSE Heard(e, Head(down))
    /\ down' = Tail(down)
    /\ UNCHANGED <<disk, parked, up, srv, link, acts, theirs, made, meant>>

\* onSocketConnect, the join and the catch-up through: the drain begins.
Connect ==
    /\ Quiet /\ ~link /\ DiskAtRest
    /\ link' = TRUE
    /\ LET x == Start(e, On("flush", None)) IN
       e' = [x EXCEPT !.drain = CHOOSE t \in Tasks : e.tasks[t].todo = <<>> /\ x.tasks[t].todo # <<>>]
    /\ UNCHANGED <<disk, parked, up, down, srv, acts, theirs, made, meant>>

\* The user, in Obsidian: the event comes with the change.
Act ==
    /\ Quiet /\ acts > 0 /\ acts' = acts - 1
    /\ DiskAtRest
    /\ UNCHANGED <<parked, up, down, srv, link, theirs>>

UserCreates ==
    /\ Act
    /\ \E n \in Name :
          /\ disk[n] = 0
          /\ disk' = [disk EXCEPT ![n] = made + 1]
          /\ e' = Start(e, On("create", n))
    /\ made' = made + 1 /\ meant' = meant \cup {made + 1}

UserRenames ==
    /\ Act
    /\ \E o \in Names, n \in Name :
          /\ disk[o] # 0 /\ disk[n] = 0
          /\ disk' = [disk EXCEPT ![o] = 0, ![n] = disk[o]]
          /\ e' = Start(e, OnTo("rename", o, n))
    /\ UNCHANGED <<made, meant>>

UserDeletes ==
    /\ Act
    /\ \E n \in Names :
          /\ disk[n] # 0
          /\ disk' = [disk EXCEPT ![n] = 0]
          /\ e' = Start(e, On("delete", n))
          /\ meant' = meant \ {disk[n]}
    /\ UNCHANGED made

TheirAct ==
    /\ Quiet /\ link /\ theirs > 0 /\ theirs' = theirs - 1
    /\ UNCHANGED <<disk, parked, e, up, link, acts>>

TheyCreate ==
    /\ TheirAct
    /\ \E n \in Name :
          /\ FreeAt(n)
          /\ srv' = [srv EXCEPT ![NextId] = [at |-> n, tok |-> made + 1]]
          /\ Told(Event("created", NextId, n))
    /\ made' = made + 1 /\ meant' = meant \cup {made + 1}

TheyRename ==
    /\ TheirAct
    /\ \E id \in Ids, n \in Name :
          /\ srv[id].at # None /\ FreeAt(n)
          /\ srv' = [srv EXCEPT ![id].at = n]
          /\ Told(Event("renamed", id, n))
    /\ UNCHANGED <<made, meant>>

TheyDelete ==
    /\ TheirAct
    /\ \E id \in Ids :
          /\ srv[id].at # None
          /\ srv' = [srv EXCEPT ![id].at = None]
          /\ meant' = meant \ {srv[id].tok}
          /\ Told(Event("deleted", id, None))
    /\ UNCHANGED made

-----------------------------------------------------------------------------

\* Files 1 .. k have the first names, here and on the server alike.
EngineInit(at) ==
    [byPath |-> [n \in Names |-> IF \E id \in Ids : at[id] = n
                                 THEN CHOOSE id \in Ids : at[id] = n ELSE 0],
     byId   |-> [id \in Ids |-> [at |-> at[id], nod |-> FALSE, tok |-> IF at[id] = None THEN 0 ELSE id]],
     oos    |-> [id \in Ids |-> None],
     waiting |-> [n \in Names |-> NoMove],
     creating |-> [n \in Names |-> NoPromise],
     renamedAfter |-> {}, queue |-> <<>>, drain |-> 0, windows |-> {},
     tasks |-> [t \in Tasks |-> Idle], locks |-> <<>>, checks |-> <<>>, order |-> <<>>]

Init ==
    /\ \E first \in SUBSET Name :
          LET names == SetToSeq(first)
              at == [id \in Ids |-> IF id <= Len(names) THEN names[id] ELSE None]
          IN  /\ e = EngineInit(at)
              /\ srv = [id \in Ids |-> [at |-> at[id], tok |-> IF at[id] = None THEN 0 ELSE id]]
              /\ disk = [n \in Names |-> e.byPath[n]]
              /\ made = Len(names) /\ meant = 1 .. Len(names)
    /\ link \in BOOLEAN
    /\ \E b \in Busy : acts = b[1] /\ theirs = b[2]
    /\ parked = {} /\ up = <<>> /\ down = <<>>

Task(t) ==
    \/ LocalCreate(t) \/ CreateLocal(t) \/ Yield(t) \/ ReadCreated(t) \/ Place(t)
    \/ CreateDone(t) \/ Modify(t) \/ Fold(t)
    \/ LocalRename(t) \/ RenameLook(t) \/ RenameFrom(t) \/ AfterCreate(t) \/ AfterDone(t)
    \/ SendRename(t) \/ HistoryMoves(t)
    \/ LocalDelete(t) \/ LookForCopy(t) \/ FoundGone(t) \/ DeleteCreated(t) \/ List(t) \/ Listed(t)
    \/ JoinDelete(t) \/ DeleteDone(t)
    \/ Arrive(t) \/ Apply(t) \/ ApplyLocked(t) \/ MoveOnDisk(t) \/ Relocate(t)
    \/ Release(t) \/ RemoveCopy(t)
    \/ Flush(t) \/ PassDone(t) \/ Replay(t) \/ DropEntry(t)
    \/ FollowReplayed(t) \/ FollowStoredReplayed(t)

Next ==
    \/ \E t \in Tasks : Task(t)
    \/ \E id \in Ids : WriteCopy(id)
    \/ Serve \/ Deliver \/ Connect
    \/ UserCreates \/ UserRenames \/ UserDeletes
    \/ TheyCreate \/ TheyRename \/ TheyDelete

Spec == Init /\ [][Next]_vars

(* Properties.                                                             *)

Settled ==
    /\ link /\ up = <<>> /\ down = <<>> /\ e.queue = <<>>
    /\ \A t \in Tasks : e.tasks[t].todo = <<>>
    /\ \A id \in Ids : e.byId[id].nod => disk[e.byId[id].at] # 0

\* The type of the state; no task lines up twice for a folder check, for its
\* turn or for its names.
Once(seq) == \A i, j \in DOMAIN seq : seq[i] = seq[j] => i = j
TypeOK ==
    /\ disk \in [Names -> 0 .. made] /\ parked \subseteq 1 .. made /\ meant \subseteq 1 .. made
    /\ srv \in [Ids -> [at : Names \cup {None}, tok : 0 .. made]]
    /\ e.byPath \in [Names -> {0} \cup Ids]
    /\ e.byId \in [Ids -> [at : Names \cup {None}, nod : BOOLEAN, tok : 0 .. made]]
    /\ e.oos \in [Ids -> Names \cup {None}]
    /\ e.queue \in Seq(Entry) /\ e.drain \in {0} \cup Tasks
    /\ Once(e.order) /\ Once(e.checks)
    /\ Once([i \in DOMAIN e.locks |-> e.locks[i].task])

\* The two maps of the index tell the same at every await: a file known by
\* its id has its name to itself, and a name leads to the file that has it.
\* What waits for a name is one file, waiting for one name.
IndexAgrees ==
    e.windows = {} =>
        /\ \A id \in Ids : Known(e, id) => e.byPath[e.byId[id].at] = id
        /\ \A n \in Names : e.byPath[n] # 0 => e.byId[e.byPath[n]].at = n
        /\ \A n, k \in Names : e.waiting[n].id = e.waiting[k].id => n = k \/ e.waiting[n] = NoMove

\* Once everyone is through, this device and the server have the same files
\* under the same names, each with a copy here, and a file here nobody
\* recorded does not exist.
SettledTree ==
    Settled /\ e.windows = {} =>
        /\ \A id \in Ids :
              LET n == srv[id].at IN
              /\ e.byId[id].at = n
              /\ n # None => e.byPath[n] = id /\ disk[n] # 0
        /\ \A n \in Names : disk[n] # 0 => e.byPath[n] # 0
        /\ \A id, other \in Ids :
              srv[id].at # None /\ srv[other].at # None /\ id # other
              => disk[srv[id].at] # srv[other].tok

\* A content nobody deleted is on this disk or on the server at every step,
\* whatever renames, deletes and creates of the same names meet.
NothingLost ==
    e.windows = {} =>
    \A c \in meant : \/ c \in parked \/ \E n \in Names : disk[n] = c
                     \/ \E id \in Ids : srv[id].at # None /\ srv[id].tok = c

\* Tasks that wait for each other's creates, deletes, names and folder checks
\* never all wait: while one is unfinished on an idle connection, one goes on.
NoStandstill ==
    link /\ up = <<>> /\ down = <<>> /\ (\E t \in Tasks : e.tasks[t].todo # <<>>)
    => \E t \in Tasks : ENABLED Task(t)
=============================================================================
