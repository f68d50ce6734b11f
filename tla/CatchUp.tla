------------------------------ MODULE CatchUp ------------------------------
(***************************************************************************)
(* What a join's catch-up returns, and what of it this device has had      *)
(* already: its own operations, known by their ids and its counter in the  *)
(* vector clock, and a teammate's renames applied live, which leave the    *)
(* clock as it is (sync/engine.ts: onSocketConnect, settleUnanswered,      *)
(* adoptOwnCounter, ownRows, noteAppliedLive, applyServerOperation).       *)
(*                                                                         *)
(* One file of this device's, which the user and a teammate rename, and    *)
(* changes the user makes to other files, of which only the operation      *)
(* matters.  A clock is a pair of counters, this device's and the          *)
(* teammate's.                                                             *)
(*                                                                         *)
(* Left out: what OpDelivery has of the queue and the gate (a packet of a  *)
(* connection that is gone reaches the server before the drop or never);   *)
(* conflict names and waiting for names (FileNames); notes created again   *)
(* under their id (DocStores).  The index refresh is one step once the     *)
(* listing is there.  Taken for granted: a rename applied from its         *)
(* broadcast is over before the next connection is up, and before the next *)
(* try after a refused join (2 s and more later); the write of an          *)
(* operation is over before the next connection is up; the process does    *)
(* not end between the rename of a file and the write of its record.       *)
(***************************************************************************)
EXTENDS Naturals, Sequences, FiniteSets

CONSTANTS
    FileName, First,     \* the names the file may get, and the one it has
    Allowances      \* bound: how many of each event of Happenings there may be

Happenings == {"rename", "change", "mate", "drop", "crash", "refuse"}

ASSUME CatchUpAssumption == First \in FileName /\ Allowances \subseteq [Happenings -> Nat]

VARIABLES
    at,      \* the file's name, on disk and in the index
    mem,     \* the engine and its operation log in memory: see Started
    file,    \* state.json
    project, \* the server: the file's name, the journal, this device in the room, a join's clock
    up, down, \* what the socket still carries, each way in order
    made,    \* operations made here so far
    allowed, \* how many of each event there still may be
    past     \* history: see CatchUpInit

cvars == <<at, mem, file, project, up, down, made, allowed, past>>

-----------------------------------------------------------------------------

\* The connect flow.  `asked`: operations ops:status still has to settle;
\* `half`: the counter of the first is taken in, its entry still in the queue.
\* `before`: liveBeforeJoin.  `renames`: renameCount when the listing was asked
\* for; `read`: how long the journal was when it was read, `listed`: the name
\* it has.  `rows`: the catch-up, `todo`: what is left of it, `own` and `had`:
\* rows known by their opId, and applied live.
NoFlow == [step |-> "off", asked |-> {}, half |-> FALSE, settled |-> FALSE, before |-> {},
           renames |-> 0, listing |-> "none", read |-> 0, listed |-> First, here |-> FALSE,
           join |-> "none", rows |-> {}, whole |-> TRUE, todo |-> {}, own |-> {}, had |-> {}]

\* `log`: operations by number, which is their opId and their place in the
\* queue.  `recorded`: the clock updateLastVectorClock was given last.
\* `handlers`: broadcasts being applied, in the order of the locks.
Started(doc) ==
    [log |-> doc.log, clock |-> doc.clock, recorded |-> doc.clock, applied |-> doc.applied,
     known |-> {}, count |-> 0, handlers |-> <<>>, flow |-> NoFlow]

\* What a write puts on the disk: after a load every operation is queued.
Document(m, name) ==
    [log |-> [i \in DOMAIN m.log |-> [m.log[i] EXCEPT !.st = "queued"]],
     clock |-> m.recorded, applied |-> m.applied, at |-> name]
Saved == file = Document(mem, at)

QueuedOp(kind, from, to, st) == [kind |-> kind, from |-> from, to |-> to, st |-> st]
Ids(m, sts) == {i \in DOMAIN m.log : m.log[i].st \in sts}
Renames(m) == {i \in DOMAIN m.log : m.log[i].kind = "rename"}
Without(l, ids) == [i \in DOMAIN l \ ids |-> l[i]]
Earliest(S) == CHOOSE i \in S : \A j \in S : i <= j
Uses(what) == allowed[what] > 0 /\ allowed' = [allowed EXCEPT ![what] = @ - 1]

Larger(i, j) == IF i > j THEN i ELSE j
MergedClock(c, d) == <<Larger(c[1], d[1]), Larger(c[2], d[2])>>

\* canSendLive
CanSendLive == mem.flow.step # "off" /\ mem.flow.settled
\* renamePendingHere
RenamePendingHere == Renames(mem) # {}

\* A row of the journal: `id` is 0 for a teammate's.
Row(id, kind, from, to, clock) ==
    [id |-> id, kind |-> kind, from |-> from, to |-> to, clock |-> clock]
Landed(id) == \E k \in DOMAIN project.journal : project.journal[k].id = id
RowOf(id) == CHOOSE k \in DOMAIN project.journal : project.journal[k].id = id
OwnAfter(k) == \E j \in DOMAIN project.journal :
                  j > k /\ project.journal[j].id # 0 /\ project.journal[j].kind = "rename"

\* The file is moved for what was on the server when the journal was `k` long:
\* a rename of the user's that comes after it is undone.
Undoes(l, k) == (\E i \in DOMAIN l : l[i].kind = "rename") \/ OwnAfter(k)

CatchUpInit ==
    LET nothing == [log |-> <<>>, clock |-> <<0, 0>>, applied |-> {}, at |-> First] IN
    /\ at = First /\ mem = Started(nothing) /\ file = nothing
    /\ project = [at |-> First, journal |-> <<>>, room |-> FALSE, join |-> <<>>]
    /\ up = <<>> /\ down = <<>> /\ made = 0 /\ allowed \in Allowances
       \* mistaken: own rows a catch-up applied as a teammate's.  ahead: operations that had
       \* gone out with more of the teammate's in their clock than state.json had at a crash.
       \* undone: a rename of the user's was undone.  replayed: a row moved the file for all that
       \* (Unguarded).  outdated: a rename came live after the listing was read, and the refresh
       \* took no notice.  live: rows applied live, seen: by the time the flow looked.  count:
       \* mem.count at the refresh.
    /\ past = [mistaken |-> {}, ahead |-> {}, undone |-> FALSE, replayed |-> FALSE,
               outdated |-> FALSE, live |-> {}, seen |-> {}, count |-> 0]

-----------------------------------------------------------------------------
(* The user, and what is recorded and sent.                                *)

\* supersedeQueuedMoves: a rename about to go out takes the file where the
\* queued ones would have.
QueuedMoves == Renames(mem) \cap Ids(mem, {"queued"})

Record(kind, to, drops) ==
    /\ made' = made + 1
    /\ mem' = [mem EXCEPT
          !.log = [i \in (DOMAIN mem.log \ (IF CanSendLive THEN drops ELSE {})) \cup {made + 1} |->
                     IF i = made + 1
                     THEN QueuedOp(kind, at, to, IF CanSendLive THEN "writing" ELSE "queued")
                     ELSE mem.log[i]],
          !.count = IF kind = "rename" THEN @ + 1 ELSE @]
    /\ UNCHANGED <<file, project, up, down>>

UserRenames ==
    /\ Uses("rename")
    /\ \E n \in FileName \ {at} : at' = n /\ Record("rename", n, QueuedMoves)
    /\ UNCHANGED past

UserChanges ==
    /\ Uses("change") /\ Record("change", at, {}) /\ UNCHANGED <<at, past>>

\* The debounced write, and persistNow.
Write ==
    /\ ~Saved /\ file' = Document(mem, at)
    /\ UNCHANGED <<at, mem, project, up, down, made, allowed, past>>

Emit(i, st) ==
    LET sent == <<mem.clock[1] + 1, mem.clock[2]>> IN
    /\ mem' = [mem EXCEPT !.clock = sent, !.log[i].st = st]
    /\ up' = Append(up, [type |-> "op", id |-> i, clock |-> sent])

\* sendOp after its write.
Send ==
    \E i \in Ids(mem, {"writing"}) :
       /\ i \in DOMAIN file.log /\ \A j \in Ids(mem, {"writing"}) : i <= j
       /\ \/ CanSendLive /\ Emit(i, "sent")
          \/ ~CanSendLive /\ mem' = [mem EXCEPT !.log[i].st = "queued"] /\ UNCHANGED up
       /\ UNCHANGED <<at, file, project, down, made, allowed, past>>

\* replayPending: the drain, one entry at a time.
Resend ==
    /\ mem.flow.step = "live" /\ Ids(mem, {"resent"}) = {}
    /\ \E i \in Ids(mem, {"queued"}) :
          /\ \A j \in Ids(mem, {"queued"}) : i <= j
          /\ i \in DOMAIN file.log
          /\ Emit(i, "resent")
    /\ UNCHANGED <<at, file, project, down, made, allowed, past>>

\* adoptOwnCounter: this device's counter only.
AdoptOwnCounter(m, c) == [m EXCEPT !.clock = <<Larger(@[1], c[1]), @[2]>>]
PersistVectorClock(m) == [m EXCEPT !.recorded = m.clock]

\* A mutant: the entry leaves, and the counter is not recorded with it.
SettleUnrecorded(m, k) ==
    [AdoptOwnCounter(m, project.journal[k].clock) EXCEPT
        !.log = Without(@, {project.journal[k].id}), !.known = @ \cup {project.journal[k].id}]

\* The counter, the record of it, and the entry out of the log: one block.
Settle(m, k) ==
    LET id == project.journal[k].id
        m1 == PersistVectorClock(AdoptOwnCounter(m, project.journal[k].clock))
    IN [m1 EXCEPT !.log = Without(@, {id}), !.known = @ \cup {id}]

\* The answer of an operation.  What it brought of another file takes a while to record.
Answered ==
    /\ down # <<>> /\ Head(down).type = "ack" /\ down' = Tail(down)
    /\ LET k == Head(down).row
           id == project.journal[k].id
       IN mem' = IF mem.log[id].kind = "change" /\ mem.log[id].st = "sent"
                 THEN [mem EXCEPT !.log[id].st = "answered"] ELSE Settle(mem, k)
    /\ UNCHANGED <<at, file, project, up, made, allowed, past>>

AnswerRecorded ==
    /\ \E i \in Ids(mem, {"answered"}) : mem' = Settle(mem, RowOf(i))
    /\ UNCHANGED <<at, file, project, up, down, made, allowed, past>>

-----------------------------------------------------------------------------
(* The server and the teammate.                                            *)

ServerApplies ==
    /\ up # <<>> /\ Head(up).type = "op" /\ up' = Tail(up)
    /\ LET p == Head(up)
           op == mem.log[p.id]
       IN /\ project' = [project EXCEPT
                !.at = IF op.kind = "rename" THEN op.to ELSE @,
                !.journal = Append(@, Row(p.id, op.kind, project.at, op.to,
                                          <<p.clock[1] + 1, p.clock[2]>>))]
          /\ down' = Append(down, [type |-> "ack", row |-> Len(project.journal) + 1])
    /\ UNCHANGED <<at, mem, file, made, allowed, past>>

\* The device is in the room before the journal is read for its catch-up.
ServerTakesIn ==
    /\ up # <<>> /\ Head(up).type = "join" /\ up' = Tail(up)
    /\ project' = [project EXCEPT !.room = TRUE, !.join = Head(up).clock]
    /\ UNCHANGED <<at, mem, file, down, made, allowed, past>>

Unseen(c) == {k \in DOMAIN project.journal : \E n \in {1, 2} : project.journal[k].clock[n] > c[n]}

\* The rows the clock has not seen, or the newest of them only: not fewer than
\* come between two requests of one connect.
Newest(rows) ==
    {k \in rows : (\A j \in rows : j <= k) \/ (mem.flow.listing # "asked" /\ k > mem.flow.read)}

ServerAnswersJoin ==
    /\ project.join # <<>>
    /\ LET unseen == Unseen(project.join) IN
       \/ /\ \E rows \in {unseen, Newest(unseen)} :
                down' = Append(down, [type |-> "joined", whole |-> rows = unseen, rows |-> rows])
          /\ project' = [project EXCEPT !.join = <<>>] /\ UNCHANGED allowed
       \/ /\ Uses("refuse") /\ down' = Append(down, [type |-> "refused"])
          /\ project' = [project EXCEPT !.join = <<>>, !.room = FALSE]
    /\ UNCHANGED <<at, mem, file, up, made, past>>

\* What a teammate's clock knows of this device's operations may be any of them.
TeammateRenames ==
    /\ Uses("mate")
    /\ \E n \in FileName \ {project.at} :
       \E h \in {0} \cup {project.journal[k].clock[1] : k \in DOMAIN project.journal} :
          LET seq == 1 + Cardinality({k \in DOMAIN project.journal : project.journal[k].id = 0})
          IN project' = [project EXCEPT !.at = n,
                       !.journal = Append(@, Row(0, "rename", project.at, n, <<h, seq>>))]
    /\ down' = IF project.room
               THEN Append(down, [type |-> "renamed", row |-> Len(project.journal) + 1]) ELSE down
    /\ UNCHANGED <<at, mem, file, up, made, past>>

-----------------------------------------------------------------------------
(* A teammate's rename applied from its broadcast.                         *)

\* handleServerRename, up to the locks of the names.
Renamed ==
    /\ down # <<>> /\ Head(down).type = "renamed" /\ down' = Tail(down)
    /\ mem' = IF RenamePendingHere
              THEN [mem EXCEPT !.applied = @ \cup {Head(down).row}]
              ELSE [mem EXCEPT !.handlers =
                      Append(@, [row |-> Head(down).row, count |-> mem.count])]
    /\ UNCHANGED <<at, file, project, up, made, allowed, past>>

\* applyServerRename under the locks, unless the file was renamed here
\* meanwhile, and noteAppliedLive after it.
MoveLive ==
    /\ mem.handlers # <<>>
    /\ LET h == Head(mem.handlers)
           to == project.journal[h.row].to
           moves == h.count = mem.count /\ to # at
       IN /\ at' = IF moves THEN to ELSE at
          /\ mem' = [mem EXCEPT !.handlers = Tail(@), !.applied = @ \cup {h.row}]
          /\ past' = [past EXCEPT
                !.undone = @ \/ (moves /\ Undoes(mem.log, h.row)),
                !.outdated = @ \/ (mem.flow.listing = "read" /\ mem.flow.read < h.row),
                !.live = @ \cup {h.row}]
    /\ UNCHANGED <<file, project, up, down, made, allowed>>

-----------------------------------------------------------------------------
(* The connect flow.                                                       *)

\* onSocketConnect up to its first request: a new try keeps what it knows.
FlowStarts(m, retry) ==
    LET asked == Ids(m, {"queued"})
    IN [m EXCEPT !.known = IF retry THEN @ ELSE {},
                 !.flow = [NoFlow EXCEPT !.step = IF asked = {} THEN "settle" ELSE "ask",
                                         !.asked = asked]]

Connects ==
    /\ mem.flow.step = "off" /\ Ids(mem, {"writing"}) = {}
    /\ mem.handlers = <<>>
    /\ mem' = FlowStarts(mem, FALSE)
    /\ UNCHANGED <<at, file, project, up, down, made, allowed, past>>

\* ops:status, once the server has had what was sent before it: those applied
\* are settled one by one, the others go out again.
StatusAnswered ==
    /\ mem.flow.step = "ask" /\ up = <<>>
    /\ mem' = [mem EXCEPT !.flow.step = "settle", !.flow.asked = {i \in @ : Landed(i)}]
    /\ UNCHANGED <<at, file, project, up, down, made, allowed, past>>

\* The counter first; a rename leaves the queue at once, a change of another
\* file when what it brought is recorded.
SettleLanded ==
    /\ mem.flow.step = "settle" /\ mem.flow.asked # {} /\ ~mem.flow.half
    /\ LET id == Earliest(mem.flow.asked)
           done == [Settle(mem, RowOf(id)) EXCEPT !.flow.asked = @ \ {id}]
       IN mem' = IF id \notin DOMAIN mem.log \/ mem.log[id].kind = "rename" THEN done
                 ELSE [done EXCEPT !.log = mem.log, !.flow.asked = mem.flow.asked,
                                   !.flow.half = TRUE]
    /\ UNCHANGED <<at, file, project, up, down, made, allowed, past>>

LandedLeaves ==
    /\ mem.flow.half
    /\ LET id == Earliest(mem.flow.asked)
       IN mem' = [mem EXCEPT !.flow.half = FALSE, !.flow.asked = @ \ {id},
                             !.log = Without(@, {id})]
    /\ UNCHANGED <<at, file, project, up, down, made, allowed, past>>

\* What was settled is on disk; the join goes out, and the listing is asked for.
Join ==
    /\ mem.flow.step = "settle" /\ mem.flow.asked = {} /\ Saved
    /\ mem' = [mem EXCEPT !.flow.step = "gather", !.flow.settled = TRUE,
                  !.flow.before = mem.applied, !.flow.renames = mem.count,
                  !.flow.listing = "asked"]
    /\ up' = Append(up, [type |-> "join", clock |-> mem.clock])
    /\ UNCHANGED <<at, file, project, down, made, allowed, past>>

ListingRead ==
    /\ mem.flow.listing = "asked"
    /\ mem' = [mem EXCEPT !.flow.listing = "read", !.flow.read = Len(project.journal),
                          !.flow.listed = project.at]
    /\ past' = [past EXCEPT !.outdated = FALSE]
    /\ UNCHANGED <<at, file, project, up, down, made, allowed>>

\* A mutant: the later renames of a chain are dropped, not taken into the first.
CollapsedToFirst(l) ==
    LET chain == {i \in DOMAIN l : l[i].kind = "rename" /\ l[i].st = "queued"}
    IN Without(l, {i \in chain : \E j \in chain : j < i})

\* collapseQueuedRenames: a chain goes as its first, or not at all.
Collapsed(l) ==
    LET chain == {i \in DOMAIN l : l[i].kind = "rename" /\ l[i].st = "queued"}
        first == CHOOSE i \in chain : \A j \in chain : i <= j
        last  == CHOOSE i \in chain : \A j \in chain : i >= j
    IN IF Cardinality(chain) < 2 THEN l
       ELSE IF l[first].from = l[last].to THEN Without(l, chain)
       ELSE [Without(l, chain \ {first}) EXCEPT ![first].to = l[last].to]

\* refreshFileIndex: the file goes where the listing has it, unless it was
\* renamed here: its rename is queued, or was made since the listing was asked
\* for.
Refresh ==
    /\ mem.flow.listing = "read"
    /\ LET log  == Collapsed(mem.log)
           here == \/ \E i \in DOMAIN log : log[i].kind = "rename" /\ log[i].st = "queued"
                   \/ mem.count # mem.flow.renames
           moves == ~here /\ mem.flow.listed # at
       IN /\ moves => mem.handlers = <<>>
          /\ mem' = [mem EXCEPT !.log = log, !.flow.listing = "done", !.flow.here = here]
          /\ at' = IF moves THEN mem.flow.listed ELSE at
          /\ past' = [past EXCEPT !.undone = @ \/ (moves /\ Undoes(log, mem.flow.read)),
                                  !.replayed = @ /\ here, !.count = mem.count,
                !.outdated = \/ @
                             \/ /\ RenamePendingHere /\ Renames([log |-> log]) = {}
                                /\ \E j \in mem.applied : j > mem.flow.read]
    /\ UNCHANGED <<file, project, up, down, made, allowed>>

JoinAnswered ==
    /\ down # <<>> /\ Head(down).type \in {"joined", "refused"} /\ down' = Tail(down)
    /\ mem' = [mem EXCEPT !.flow =
                 IF Head(down).type = "refused" THEN [@ EXCEPT !.join = "refused"]
                 ELSE [@ EXCEPT !.join = "joined", !.rows = Head(down).rows,
                                !.todo = Head(down).rows, !.whole = Head(down).whole]]
    /\ UNCHANGED <<at, file, project, up, made, allowed, past>>

\* ownRows: the rows whose opId this device knows.
OwnRows == {k \in mem.flow.rows : project.journal[k].id \in mem.known \cup DOMAIN mem.log}

\* Both are there.  A join refused for now is tried again later (joinAgainLater).
Gather ==
    /\ mem.flow.step = "gather" /\ mem.flow.join # "none" /\ mem.flow.listing = "done"
    /\ mem' = [mem EXCEPT !.flow =
          IF mem.flow.join = "refused" THEN [@ EXCEPT !.step = "again", !.settled = FALSE]
          ELSE [@ EXCEPT !.step = "rows", !.own = OwnRows, !.had = mem.applied]]
    /\ past' = [past EXCEPT !.seen = past.live]
    /\ UNCHANGED <<at, file, project, up, down, made, allowed>>

\* After a pause (joinRetryMs), and once everything that went out has its answer.
JoinAgain ==
    /\ mem.flow.step = "again" /\ Ids(mem, {"writing", "sent", "answered"}) = {}
    /\ mem.handlers = <<>>
    /\ mem' = FlowStarts(mem, TRUE)
    /\ UNCHANGED <<at, file, project, up, down, made, allowed, past>>

CatchupRenames == {k \in mem.flow.rows : project.journal[k].kind = "rename"}

\* applyServerOperation's guards of a rename.
Skipped(k) ==
    LET row == project.journal[k] IN
    \/ row.kind # "rename"
    \/ k \in mem.flow.had
    \/ row.to = at
    \/ \E j \in CatchupRenames : j > k                                  \* supersededOps
    \/ /\ mem.flow.listed # row.to
       /\ mem.flow.listed \notin {project.journal[j].from : j \in CatchupRenames}
    \/ mem.flow.here

\* The guards do not know that the listing had this row already, that a later
\* one was applied live, or that the user renamed the file since the refresh.
Unguarded(k) ==
    /\ k \notin past.seen
    /\ k <= mem.flow.read \/ (\E j \in mem.applied : j > k) \/ mem.count # past.count

ApplyRow ==
    /\ mem.flow.step = "rows" /\ mem.flow.todo # {}
    /\ LET k == Earliest(mem.flow.todo)
           moves == k \notin mem.flow.own /\ ~Skipped(k)
       IN /\ moves => mem.handlers = <<>>
          /\ at' = IF moves THEN project.journal[k].to ELSE at
          /\ mem' = [mem EXCEPT !.clock = MergedClock(@, project.journal[k].clock),
                                !.flow.todo = @ \ {k}]
          /\ past' = [past EXCEPT
                !.undone = @ \/ (moves /\ ~Unguarded(k) /\ Undoes(mem.log, k)),
                !.replayed = @ \/ (moves /\ Unguarded(k)),
                !.mistaken = IF project.journal[k].id # 0 /\ k \notin mem.flow.own
                             THEN @ \cup {project.journal[k].id} ELSE @]
    /\ UNCHANGED <<file, project, up, down, made, allowed>>

\* A mutant: every rename applied live is forgotten.
SeenNowAll == mem.applied

\* forgetAppliedLive: what no catch-up returns again.
SeenNow == mem.flow.rows \cup (IF mem.flow.whole THEN mem.flow.before ELSE {})

FlowEnds ==
    /\ mem.flow.step = "rows" /\ mem.flow.todo = {}
    /\ mem' = [PersistVectorClock(mem) EXCEPT !.applied = @ \ SeenNow, !.flow.step = "live"]
    /\ UNCHANGED <<at, file, project, up, down, made, allowed, past>>

-----------------------------------------------------------------------------

Drops ==
    /\ mem.flow.step # "off" /\ Uses("drop")
    /\ up' = <<>> /\ down' = <<>> /\ project' = [project EXCEPT !.room = FALSE, !.join = <<>>]
    /\ mem' = [mem EXCEPT !.flow = NoFlow,
                 !.log = [i \in DOMAIN mem.log |->
                            IF mem.log[i].st \in {"sent", "resent"}
                            THEN [mem.log[i] EXCEPT !.st = "queued"] ELSE mem.log[i]]]
    /\ UNCHANGED <<at, file, made, past>>

Crash ==
    /\ Uses("crash") /\ file.at = at
    /\ mem' = Started(file)
    /\ up' = <<>> /\ down' = <<>> /\ project' = [project EXCEPT !.room = FALSE, !.join = <<>>]
    /\ past' = [past EXCEPT !.live = file.applied, !.ahead = @ \cup {i \in DOMAIN file.log :
                    Landed(i) /\ project.journal[RowOf(i)].clock[2] > file.clock[2]}]
    /\ UNCHANGED <<at, file, made>>

CatchUpNext ==
    \/ UserRenames \/ UserChanges \/ Write \/ Send \/ Resend \/ Answered \/ AnswerRecorded
    \/ ServerApplies \/ ServerTakesIn \/ ServerAnswersJoin \/ TeammateRenames
    \/ Renamed \/ MoveLive
    \/ Connects \/ StatusAnswered \/ SettleLanded \/ LandedLeaves \/ Join \/ ListingRead
    \/ Refresh \/ JoinAnswered \/ Gather \/ JoinAgain \/ ApplyRow \/ FlowEnds
    \/ Drops \/ Crash

CatchUpSpec == CatchUpInit /\ [][CatchUpNext]_cvars

-----------------------------------------------------------------------------
(* Properties.                                                             *)

\* No operation of this device's that a catch-up returns is applied as a
\* teammate's, through lost answers, drops, refused joins and crashes: the
\* counter is taken in and recorded before the entry leaves the queue
\* (settleUnanswered), and what was answered on the connection stays known
\* (ownKnown).  But for one that a crash left with less of the teammate's
\* counters in state.json than it had gone out with.
OwnNotTaken == past.mistaken \subseteq past.ahead

\* A teammate's rename the server had before the user's is not applied after
\* it: not live (renamePendingHere, renameCount), not by the listing
\* (renamedHere), and not by a catch-up that returns what was applied live
\* (appliedLive, forgetAppliedLive).
NothingUndone == ~past.undone

\* When all is sent and answered, the file has the name the server has for
\* it: whichever of the broadcast, the listing and the catch-up brought a
\* rename, and however the queue's renames were collapsed.
NamesAgree ==
    /\ mem.flow.step = "live" /\ mem.log = <<>> /\ mem.handlers = <<>>
    /\ up = <<>> /\ down = <<>> /\ ~past.replayed /\ ~past.outdated
    => at = project.at

\* Types; and the clocks of state.json, of the log and in memory, each at
\* least the one before.
CatchUpTypeOK ==
    /\ at \in FileName /\ file.at \in FileName /\ project.at \in FileName
    /\ DOMAIN mem.log \subseteq 1..made /\ mem.flow.asked \subseteq 1..made
    /\ mem.flow.step \in {"off", "ask", "settle", "gather", "again", "rows", "live"}
    /\ mem.flow.rows # {} => mem.flow.join = "joined"
    /\ \A n \in {1, 2} : file.clock[n] <= mem.recorded[n] /\ mem.recorded[n] <= mem.clock[n]
    /\ mem.applied \subseteq DOMAIN project.journal
=============================================================================
