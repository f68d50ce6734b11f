----------------------------- MODULE OpDelivery -----------------------------
(***************************************************************************)
(* How the sync engine gets a local file change applied by the server      *)
(* exactly once: engine.ts (sendOp, the connect flow, the drain of the     *)
(* queue, the gate after "busy") over operation-log.ts (the queue and the  *)
(* operations in flight, kept in state.json) and reconnect.ts (one pass    *)
(* over the queue).                                                        *)
(*                                                                         *)
(* Every operation carries an opId.  It is written to state.json before it *)
(* goes out (write-ahead); the server applies an opId at most once; after  *)
(* a lost answer the next connect asks ops:status, which also voids what   *)
(* the server never got, and a voided operation gets a new opId.           *)
(*                                                                         *)
(* Abstractions.                                                           *)
(*  - A change is the intent of one file operation; what it does to the    *)
(*    vault is left out, and so is opType.                                 *)
(*  - An opId is <<c, n>>, the n-th identifier drawn for change c: the     *)
(*    uuid of newOpId, never drawn twice, a crash included.                *)
(*  - One write of the document is one step to the disk (StateFile has its *)
(*    steps).  The pauses before a retry are left out: a retry that is due *)
(*    may happen at any time.                                              *)
(*  - stop() puts what is in flight back in the queue and close() writes   *)
(*    it: the disk and the wire end as after a write followed by a crash,  *)
(*    so CrashAndRestart stands for both.  Pause sync is a Drop.           *)
(*  - The join, the listing and the catch-up are one phase of the link.    *)
(*  - The server is external: its part is what src/ relies on.             *)
(***************************************************************************)
EXTENDS Integers, FiniteSets

CONSTANTS
    Change,             \* the local changes
    Question,           \* those of them that answer a question (settleOnly)
    Outcome,            \* what may befall an operation besides being applied
    WriteFails,         \* whether a write of state.json may fail
    MaxConnects,        \* bound: connections made; the last one stays up
    MaxCrashes,         \* bound: crashes or restarts of the plugin
    MaxIds,             \* bound: no join is refused once a change had that many ids
    QueueFailuresMax,   \* QUEUE_FAILURES_MAX, 3 in the code
    DrainPassesMax      \* DRAIN_PASSES_MAX, 50 in the code

\* "busy", "retry": refused, to be sent again ("retry" also stands for a
\* connect step that fails for now); "upload": the upload an attachment needs
\* fails; "gone": refused for good; "moot": the disk no longer bears the
\* queued change out.
ASSUME ConstantsAssumption ==
    /\ Question \subseteq Change
    /\ Outcome \subseteq {"busy", "retry", "upload", "gone", "moot"}
    /\ WriteFails \in BOOLEAN
    /\ MaxConnects \in Nat /\ MaxCrashes \in Nat /\ MaxIds \in Nat
    /\ QueueFailuresMax \in Nat \ {0} /\ DrainPassesMax \in Nat \ {0}

VARIABLES
    \* The operation log in memory.
    stage,      \* where each change is: see Stage
    opId,       \* which of its ids the entry of a change has
    drawn,      \* how many ids were drawn for a change
    place,      \* PendingOperation.id, the place in the queue
    nextPlace,  \* nextOpId
    \* The file.
    disk,       \* the id state.json has for each change, 0 for none
    dirty,      \* the document changed since the last write began
    writing,    \* a write is under way
    snap,       \* what it writes
    written,    \* entries on disk under their id: opIdGeneration <= writtenGeneration
    failed,     \* changes the last write was to record, and failed to
    \* The connection.
    link,       \* how far the connect flow is: see Link
    connects,   \* connections so far, the current one included
    asked,      \* ids asked about by ops:status and not settled yet
    \* The engine's gate and drain.
    gate,       \* queueFirst, queueStuck, pumpFailures, and whether a try is due
    drain,      \* link: the connection the drain works for, 0 for none; its pass
    \* The network and the server.
    wire,       \* packets on their way to the server
    answers,    \* answers on their way back on this connection
    applied,    \* ids the server applied
    voided,     \* ids the server voided
    barred,     \* the server refuses this connection's operations as busy
    \* History.
    durable,    \* changes that have been on disk
    refused,    \* changes refused for good
    crashes

logVars  == <<stage, opId, drawn, place, nextPlace>>
fileVars == <<disk, dirty, writing, snap, written, failed>>
linkVars == <<link, connects, asked>>
netVars  == <<wire, answers, applied, voided, barred>>
histVars == <<durable, refused, crashes>>
vars == <<logVars, fileVars, linkVars, gate, drain, netVars, histVars>>

\* recorded: in flight, waiting for its write.  sent: emitted.  answered: the
\* server applied it, the handler records the result.  queued: in the queue.
\* replayed, replayedOk: in the queue and emitted, answered, for the drain.
InFlight == {"recorded", "sent", "answered"}
Pending  == {"queued", "replayed", "replayedOk"}
InLog    == InFlight \cup Pending
Emitting == {"sent", "answered", "replayed", "replayedOk"}
Stage    == InLog \cup {"none", "done", "dropped"}

\* ask: ops:status on its way.  rows: its answer is taken in.  save: waiting
\* for the write.  join: opsSettled, catching up.  up: the queue is handed to
\* the drain.  again: the flow is to run again.  stuck: the flow ended in
\* an error, until the next connect.
Link == {"down", "ask", "rows", "save", "join", "up", "again", "stuck"}

OpIds  == Change \X Nat
Packet == [c : Change, n : Nat, k : Nat]
Answer == [c : Change, kind : {"ok", "busy", "retry", "gone", "voided"}]

In(S) == {c \in Change : stage[c] \in S}
IdOf(c) == <<c, opId[c]>>
IsApplied(c) == \E x \in applied : x[1] = c

OpenedGate == [first |-> FALSE, stuck |-> FALSE, failures |-> 0, due |-> FALSE]
NoDrain == [link |-> 0, pass |-> {}, no |-> 0]

Init ==
    /\ stage = [c \in Change |-> "none"]
    /\ opId = [c \in Change |-> 0]
    /\ drawn = [c \in Change |-> 0]
    /\ place = [c \in Change |-> 0]
    /\ nextPlace = 1
    /\ disk = [c \in Change |-> 0]
    /\ dirty = FALSE
    /\ writing = FALSE
    /\ snap = [c \in Change |-> 0]
    /\ written = {}
    /\ failed = {}
    /\ link = "down"
    /\ connects = 0
    /\ asked = {}
    /\ gate = OpenedGate
    /\ drain = NoDrain
    /\ wire = {}
    /\ answers = {}
    /\ applied = {}
    /\ voided = {}
    /\ barred = FALSE
    /\ durable = {}
    /\ refused = {}
    /\ crashes = 0

-----------------------------------------------------------------------------
(***************************************************************************)
(* The operation log and its file.                                         *)
(***************************************************************************)

\* What serialize() puts in the document: the queue and what is in flight.
Serialized == [c \in Change |-> IF stage[c] \in InLog THEN opId[c] ELSE 0]

\* touch: the document changed; entries of S are not on disk under their id.
Touch(S) ==
    /\ dirty' = TRUE
    /\ written' = written \ S
    /\ failed' = failed \ S
    /\ UNCHANGED <<disk, writing, snap>>

\* Entries of S get the next id drawn for them.
Draw(S) ==
    /\ drawn' = [c \in Change |-> IF c \in S THEN drawn[c] + 1 ELSE drawn[c]]
    /\ opId' = [c \in Change |-> IF c \in S THEN drawn[c] + 1 ELSE opId[c]]

\* A new entry for c at the end of the queue's sequence.
NewEntry(c) ==
    /\ Draw({c})
    /\ place' = [place EXCEPT ![c] = nextPlace]
    /\ nextPlace' = nextPlace + 1

KeepEntries == UNCHANGED <<opId, drawn, place, nextPlace>>

StartWrite ==
    /\ dirty /\ ~writing
    /\ writing' = TRUE
    /\ snap' = Serialized
    /\ dirty' = FALSE
    /\ UNCHANGED <<disk, written, failed, logVars, linkVars, gate, drain, netVars, histVars>>

FinishWrite ==
    /\ writing
    /\ writing' = FALSE
    /\ disk' = snap
    /\ snap' = [c \in Change |-> 0]
    /\ written' = written \cup {c \in In(InLog) : snap[c] = opId[c]}
    /\ failed' = {}
    /\ durable' = durable \cup {c \in Change : snap[c] # 0}
    /\ UNCHANGED <<dirty, logVars, linkVars, gate, drain, netVars, refused, crashes>>

\* Reported as failed.  The document may be there all the same: load takes the
\* .tmp file when the rename after it is what failed.
FailWrite ==
    /\ writing /\ WriteFails
    /\ writing' = FALSE
    /\ snap' = [c \in Change |-> 0]
    /\ dirty' = TRUE
    /\ failed' = {c \in In(InLog) \ written : snap[c] = opId[c]}
    /\ \/ UNCHANGED <<disk, durable>>
       \/ /\ disk' = snap
          /\ durable' = durable \cup {c \in Change : snap[c] # 0}
    /\ UNCHANGED <<written, logVars, linkVars, gate, drain, netVars, refused, crashes>>

\* The process ends and the plugin starts from the file: what the document
\* holds is back in the queue, what it does not hold is a change to make
\* again (the next start finds it on the disk) unless it was settled.
CrashAndRestart ==
    /\ crashes < MaxCrashes /\ connects < MaxConnects
    /\ crashes' = crashes + 1
    /\ stage' = [c \in Change |->
                    IF disk[c] # 0 THEN "queued"
                    ELSE IF stage[c] \in InLog THEN "none" ELSE stage[c]]
    /\ opId' = [c \in Change |-> IF disk[c] # 0 THEN disk[c] ELSE opId[c]]
    /\ written' = {c \in Change : disk[c] # 0}
    /\ dirty' = FALSE /\ writing' = FALSE /\ failed' = {}
    /\ snap' = [c \in Change |-> 0]
    /\ link' = "down"
    /\ asked' = {}
    /\ gate' = OpenedGate
    /\ drain' = NoDrain
    /\ answers' = {}
    /\ UNCHANGED <<drawn, place, nextPlace, disk, connects, wire, applied, voided,
                   barred, durable, refused>>

-----------------------------------------------------------------------------
(***************************************************************************)
(* The gate.                                                               *)
(***************************************************************************)

CanSendLive == link \in {"join", "up"}

\* Mutant: the gate does not hold new changes.
MayEmitAtOnce(c) == CanSendLive

\* mayEmitOp of a live change.
MayEmit(c) == CanSendLive /\ (c \in Question \/ ~gate.first)

\* Mutant: no try of the queue is scheduled.
GateClosedForGood(g) == [g EXCEPT !.first = TRUE, !.stuck = FALSE]

\* closeGate, and schedulePump once the queue was handed over.
GateClosed(g) ==
    [g EXCEPT !.first = TRUE, !.stuck = FALSE, !.due = g.due \/ link = "up"]

\* openGate: "sent" and "given up".
GateOpened(g) == [g EXCEPT !.first = FALSE, !.failures = 0]

\* Mutant: the failed tries are not counted, the queue is never given up.
GateHaltedAgain(k) ==
    IF k = "busy" THEN [GateClosed(gate) EXCEPT !.failures = 0, !.due = TRUE]
    ELSE [gate EXCEPT !.due = TRUE]

\* afterDrain, the drain halted on an error of kind k.
GateHalted(k) ==
    IF k = "busy" THEN [GateClosed(gate) EXCEPT !.failures = 0, !.due = TRUE]
    ELSE IF ~gate.first THEN [gate EXCEPT !.due = gate.due \/ gate.stuck]
    ELSE IF gate.failures + 1 < QueueFailuresMax
    THEN [gate EXCEPT !.failures = gate.failures + 1, !.due = TRUE]
    ELSE [GateOpened(gate) EXCEPT !.stuck = TRUE, !.due = TRUE]

\* liveInFlight: changes of this engine on their way, answers to questions aside.
LiveInFlight == In(InFlight) \ Question # {}

-----------------------------------------------------------------------------
(***************************************************************************)
(* Sending a change live.                                                  *)
(***************************************************************************)

Emit(c) == wire' = wire \cup {[c |-> c, n |-> opId[c], k |-> connects]}

\* A watcher's change reaches sendOp: in flight, or queued when it may not go
\* or its upload failed.
Take(c) ==
    /\ stage[c] = "none"
    /\ \/ MayEmit(c) /\ stage' = [stage EXCEPT ![c] = "recorded"]
       \/ ~MayEmit(c) /\ stage' = [stage EXCEPT ![c] = "queued"]
       \/ "upload" \in Outcome /\ stage' = [stage EXCEPT ![c] = "queued"]
    /\ NewEntry(c)
    /\ Touch({c})
    /\ UNCHANGED <<linkVars, gate, drain, netVars, histVars>>

\* Mutant: emitted without waiting for the write.
SendUnrecorded(c) ==
    /\ stage[c] = "recorded" /\ MayEmit(c)
    /\ stage' = [stage EXCEPT ![c] = "sent"]
    /\ Emit(c)
    /\ KeepEntries
    /\ UNCHANGED <<fileVars, linkVars, gate, drain, answers, applied, voided, barred, histVars>>

\* persistNow came back: the gate is read again before the emit.
SendRecorded(c) ==
    /\ stage[c] = "recorded" /\ c \in written
    /\ \/ /\ MayEmit(c)
          /\ stage' = [stage EXCEPT ![c] = "sent"]
          /\ Emit(c)
          /\ UNCHANGED fileVars
       \/ /\ ~MayEmit(c)
          /\ stage' = [stage EXCEPT ![c] = "queued"]
          /\ Touch({})
          /\ UNCHANGED wire
    /\ KeepEntries
    /\ UNCHANGED <<linkVars, gate, drain, answers, applied, voided, barred, histVars>>

\* persistNow rejected: no emit.
SendUnwritten(c) ==
    /\ stage[c] = "recorded" /\ c \in failed
    /\ stage' = [stage EXCEPT ![c] = "queued"]
    /\ Touch({})
    /\ KeepEntries
    /\ UNCHANGED <<linkVars, gate, drain, netVars, histVars>>

Answered(c, k) ==
    /\ [c |-> c, kind |-> k] \in answers
    /\ answers' = answers \ {[c |-> c, kind |-> k]}
    /\ UNCHANGED <<wire, applied, voided, barred>>

LiveOk(c) ==
    /\ stage[c] = "sent" /\ Answered(c, "ok")
    /\ stage' = [stage EXCEPT ![c] = "answered"]
    /\ KeepEntries
    /\ UNCHANGED <<fileVars, linkVars, gate, drain, histVars>>

\* afterRefusal, for good - or of an answer to a question: the entry goes.
LiveGone(c) ==
    /\ stage[c] = "sent"
    /\ \E k \in {"gone", "busy", "retry"} :
          (k = "gone" \/ c \in Question) /\ Answered(c, k)
    /\ stage' = [stage EXCEPT ![c] = "dropped"]
    /\ refused' = refused \cup {c}
    /\ Touch({c})
    /\ KeepEntries
    /\ UNCHANGED <<linkVars, gate, drain, durable, crashes>>

\* Mutant: the entry leaves the log.
LiveAgainDropped(c) ==
    /\ stage[c] = "sent" /\ c \notin Question
    /\ \E k \in {"busy", "retry"} : Answered(c, k)
    /\ stage' = [stage EXCEPT ![c] = "dropped"]
    /\ Touch({c})
    /\ KeepEntries
    /\ UNCHANGED <<linkVars, gate, drain, histVars>>

\* afterRefusal, to be sent again: back to its place in the queue.  Its branch
\* for op_voided is left out here and in the drain: see NoVoidedAnswer.
LiveAgain(c) ==
    /\ stage[c] = "sent" /\ c \notin Question
    /\ \E k \in {"busy", "retry"} :
          /\ Answered(c, k)
          /\ gate' = IF k = "busy" THEN GateClosed(gate) ELSE gate
    /\ stage' = [stage EXCEPT ![c] = "queued"]
    /\ Touch({})
    /\ KeepEntries
    /\ UNCHANGED <<linkVars, drain, histVars>>

\* settle: the result recorded and the entry out of the log, in one block.
RecordLive(c) ==
    /\ stage[c] = "answered"
    /\ stage' = [stage EXCEPT ![c] = "done"]
    /\ Touch({c})
    /\ KeepEntries
    /\ UNCHANGED <<linkVars, gate, drain, netVars, histVars>>

\* Mutant: queued again under a new id.
RecordLiveFailsAnew(c) ==
    /\ stage[c] = "answered" /\ "retry" \in Outcome
    /\ stage' = [stage EXCEPT ![c] = "queued"]
    /\ Draw({c})
    /\ Touch({c})
    /\ UNCHANGED <<place, nextPlace, linkVars, gate, drain, netVars, histVars>>

\* onAck threw: applied, and not recorded.
RecordLiveFails(c) ==
    /\ stage[c] = "answered" /\ "retry" \in Outcome
    /\ stage' = [stage EXCEPT ![c] = "queued"]
    /\ Touch({})
    /\ KeepEntries
    /\ UNCHANGED <<linkVars, gate, drain, netVars, histVars>>

-----------------------------------------------------------------------------
(***************************************************************************)
(* The connection and the connect flow.                                    *)
(***************************************************************************)

\* onSocketConnect up to ops:status, or past it when nothing is queued.
\* S: the queue, read as the flow begins.
BeginFlow(S) ==
    /\ link' = IF S = {} THEN "join" ELSE "ask"
    /\ asked' = {IdOf(c) : c \in S}
    /\ gate' = OpenedGate

Connect ==
    /\ link = "down" /\ connects < MaxConnects
    /\ connects' = connects + 1
    /\ BeginFlow(In(Pending))
    /\ barred' = FALSE
    /\ UNCHANGED <<logVars, fileVars, drain, wire, answers, applied, voided, histVars>>

\* The connection drops: no answer comes any more, what was sent live goes
\* back to the queue, and the drain sends nothing more (see DrainCut).
Drop ==
    /\ link # "down" /\ connects < MaxConnects
    /\ link' = "down"
    /\ asked' = {}
    /\ answers' = {}
    /\ stage' = [c \in Change |-> IF stage[c] \in {"sent", "replayed"} THEN "queued"
                                  ELSE stage[c]]
    /\ gate' = [gate EXCEPT !.due = FALSE]
    /\ IF In({"sent"}) # {} THEN Touch({}) ELSE UNCHANGED fileVars
    /\ KeepEntries
    /\ UNCHANGED <<connects, drain, wire, applied, voided, barred, histVars>>

\* The server answers ops:status once it has handled every operation sent
\* before it on the connection: what it has not applied, it voids.
AnswerStatus ==
    /\ link = "ask"
    /\ \A p \in wire : p.k # connects
    /\ link' = "rows"
    /\ voided' = voided \cup (asked \ applied)
    /\ UNCHANGED <<connects, asked, logVars, fileVars, gate, drain, wire, answers,
                   applied, barred, histVars>>

\* An entry the server applied: what its answer would have brought is
\* recorded.  A change made to the file since may go out in its place.
SettleRow(c) ==
    /\ link = "rows" /\ IdOf(c) \in asked \cap applied
    /\ asked' = asked \ {IdOf(c)}
    /\ \/ /\ stage[c] \in Pending
          /\ stage' = [stage EXCEPT ![c] = "done"]
          /\ Touch({c})
          /\ KeepEntries
       \/ /\ stage[c] \in Pending
          /\ \E d \in Change :
                /\ stage[d] = "none"
                /\ stage' = [stage EXCEPT ![c] = "done", ![d] = "queued"]
                /\ Draw({d})
                /\ place' = [place EXCEPT ![d] = place[c]]
                /\ Touch({c, d})
                /\ UNCHANGED nextPlace
       \/ /\ stage[c] \notin Pending
          /\ UNCHANGED <<logVars, fileVars>>
    /\ UNCHANGED <<link, connects, gate, drain, netVars, histVars>>

\* Mutant: the voided entries keep their ids.
SettleVoidedUnrotated ==
    /\ link = "rows" /\ asked \cap applied = {}
    /\ link' = "save"
    /\ asked' = {}
    /\ UNCHANGED <<logVars, fileVars, connects, gate, drain, netVars, histVars>>

\* Then the voided ones, all at once: each gets a new id, and an answer to a
\* question goes - the question is asked again.
SettleVoided ==
    /\ link = "rows" /\ asked \cap applied = {}
    /\ LET S == {c \in In({"queued"}) : IdOf(c) \in asked} IN
          /\ stage' = [c \in Change |-> IF c \in S \cap Question THEN "dropped" ELSE stage[c]]
          /\ Draw(S \ Question)
          /\ refused' = refused \cup (S \cap Question)
          /\ Touch(S)
    /\ link' = "save"
    /\ asked' = {}
    /\ UNCHANGED <<place, nextPlace, connects, gate, drain, netVars, durable, crashes>>

\* The new ids are on disk (writes finish in order: whoever waited for an
\* earlier one has gone on before).
Settled ==
    /\ link = "save"
    /\ In({"queued"}) \subseteq written
    /\ In({"recorded"}) \cap written = {}
    /\ link' = "join"
    /\ UNCHANGED <<connects, asked, logVars, fileVars, gate, drain, netVars, histVars>>

\* ops:status was not answered, or its answer came too late or was not taken
\* in whole: the flow is to run again, or ends.  Or the new ids were not
\* written.
FlowFails ==
    /\ \/ /\ link \in {"ask", "rows"} /\ "retry" \in Outcome
          /\ link' \in {"stuck", "again"}
       \/ /\ link = "save" /\ In({"queued"}) \cap failed # {}
          /\ link' = "stuck"
    /\ asked' = {}
    /\ UNCHANGED <<connects, logVars, fileVars, gate, drain, netVars, histVars>>

\* The join, or the listing, could not be answered for now: joinAgainLater.
JoinRefused ==
    /\ link = "join" /\ "retry" \in Outcome
    /\ \A c \in Change : drawn[c] < MaxIds
    /\ link' = "again"
    /\ UNCHANGED <<connects, asked, logVars, fileVars, gate, drain, netVars, histVars>>

\* The flow runs again on the connection, once every change sent is answered.
JoinAgain ==
    /\ link = "again" /\ ~LiveInFlight
    /\ BeginFlow(In(Pending))
    /\ UNCHANGED <<connects, logVars, fileVars, drain, netVars, histVars>>

\* Caught up: the queue is handed to the drain.
HandOver ==
    /\ link = "join"
    /\ link' = "up"
    /\ gate' = [gate EXCEPT !.due = TRUE]
    /\ UNCHANGED <<connects, asked, logVars, fileVars, drain, netVars, histVars>>

-----------------------------------------------------------------------------
(***************************************************************************)
(* The drain: runDrain, drainQueue, flushPendingQueue, replayPending.      *)
(***************************************************************************)

Replayable == In({"queued"}) \ Question

\* The drain's connection is the one open and handed over.
DrainLive == link = "up" /\ drain.link = connects

\* A pass begins: on an empty queue the drain ends; new changes waiting
\* behind the queue, the ones sent live are waited for; too many passes, the
\* rest is tried later.
BeginPass(no) ==
    \/ /\ Replayable = {}
       /\ drain' = NoDrain
       /\ gate' = [GateOpened(gate) EXCEPT !.stuck = FALSE, !.due = FALSE]
    \/ /\ Replayable # {} /\ no < DrainPassesMax
       /\ gate.first => ~LiveInFlight
       /\ drain' = [link |-> connects, pass |-> Replayable, no |-> no + 1]
       /\ gate' = [gate EXCEPT !.due = no > 0 /\ gate.due]
    \/ /\ Replayable # {} /\ no >= DrainPassesMax
       /\ drain' = NoDrain
       /\ gate' = [GateOpened(gate) EXCEPT !.due = TRUE]

StartDrain ==
    /\ link = "up" /\ gate.due /\ drain.link = 0
    /\ BeginPass(0)
    /\ UNCHANGED <<logVars, fileVars, linkVars, netVars, histVars>>

NextPass ==
    /\ DrainLive /\ drain.pass = {}
    /\ BeginPass(drain.no)
    /\ UNCHANGED <<logVars, fileVars, linkVars, netVars, histVars>>

\* c is the entry of the pass the drain has come to.
Head(c) ==
    /\ c \in drain.pass
    /\ \A d \in drain.pass : place[c] <= place[d]

Halt(k) ==
    /\ drain' = NoDrain
    /\ gate' = GateHalted(k)

\* emitQueued, once the entry is on disk under its id.
Replay(c) ==
    /\ DrainLive /\ Head(c) /\ stage[c] = "queued" /\ c \in written
    /\ stage' = [stage EXCEPT ![c] = "replayed"]
    /\ Emit(c)
    /\ KeepEntries
    /\ UNCHANGED <<fileVars, linkVars, gate, drain, answers, applied, voided, barred, histVars>>

\* The entry cannot go out now: its write or its upload failed.
ReplayFails(c) ==
    /\ DrainLive /\ Head(c) /\ stage[c] = "queued"
    /\ c \in failed \/ "upload" \in Outcome
    /\ Halt("retry")
    /\ UNCHANGED <<logVars, fileVars, linkVars, netVars, histVars>>

\* The disk no longer bears it out: dropped, nothing sent.
ReplayMoot(c) ==
    /\ DrainLive /\ Head(c) /\ stage[c] = "queued" /\ "moot" \in Outcome
    /\ stage' = [stage EXCEPT ![c] = "dropped"]
    /\ refused' = refused \cup {c}
    /\ drain' = [drain EXCEPT !.pass = @ \ {c}]
    /\ Touch({c})
    /\ KeepEntries
    /\ UNCHANGED <<linkVars, gate, netVars, durable, crashes>>

ReplayOk(c) ==
    /\ stage[c] = "replayed" /\ Answered(c, "ok")
    /\ stage' = [stage EXCEPT ![c] = "replayedOk"]
    /\ KeepEntries
    /\ UNCHANGED <<fileVars, linkVars, gate, drain, histVars>>

\* Refused for good: out of the queue, and the pass goes on.
ReplayGone(c) ==
    /\ stage[c] = "replayed" /\ Answered(c, "gone")
    /\ stage' = [stage EXCEPT ![c] = "dropped"]
    /\ refused' = refused \cup {c}
    /\ drain' = [drain EXCEPT !.pass = @ \ {c}]
    /\ Touch({c})
    /\ KeepEntries
    /\ UNCHANGED <<linkVars, gate, durable, crashes>>

\* To be sent again: the pass halts on it.
ReplayAgain(c) ==
    /\ stage[c] = "replayed"
    /\ \E k \in {"busy", "retry"} : Answered(c, k) /\ Halt(k)
    /\ stage' = [stage EXCEPT ![c] = "queued"]
    /\ KeepEntries
    /\ UNCHANGED <<fileVars, linkVars, histVars>>

\* settleDrained: what the answer brought recorded, and out of the queue - on
\* a connection gone meanwhile too.
RecordReplayed(c) ==
    /\ stage[c] = "replayedOk"
    /\ stage' = [stage EXCEPT ![c] = "done"]
    /\ drain' = [drain EXCEPT !.pass = @ \ {c}]
    /\ Touch({c})
    /\ KeepEntries
    /\ UNCHANGED <<linkVars, gate, netVars, histVars>>

\* The result could not be recorded: the entry stays and the pass halts.
RecordReplayedFails(c) ==
    /\ stage[c] = "replayedOk" /\ "retry" \in Outcome
    /\ stage' = [stage EXCEPT ![c] = "queued"]
    /\ drain' = NoDrain
    /\ gate' = IF DrainLive THEN GateHalted("retry") ELSE gate
    /\ KeepEntries
    /\ UNCHANGED <<fileVars, linkVars, netVars, histVars>>

\* The drain's connection is gone: it ends, what it has recorded apart.
DrainCut ==
    /\ drain.link # 0 /\ ~DrainLive
    /\ In({"replayedOk"}) = {}
    /\ drain' = NoDrain
    /\ UNCHANGED <<logVars, fileVars, linkVars, gate, netVars, histVars>>

-----------------------------------------------------------------------------
(***************************************************************************)
(* The network and the server (external).                                  *)
(***************************************************************************)

\* A packet of a connection that is gone never arrives.
Lose(p) ==
    /\ p.k # connects \/ link = "down"
    /\ wire' = wire \ {p}
    /\ UNCHANGED <<logVars, fileVars, linkVars, gate, drain, answers, applied, voided,
                   barred, histVars>>

\* The server is done with packet p; its answer comes on p's connection only.
Handle(p, k) ==
    /\ wire' = wire \ {p}
    /\ answers' = IF p.k = connects /\ link # "down"
                  THEN answers \cup {[c |-> p.c, kind |-> k]} ELSE answers
    /\ UNCHANGED <<logVars, fileVars, linkVars, gate, drain, voided, histVars>>

Known(p) == <<p.c, p.n>> \in applied \cup voided
IsBarred(p) == barred /\ p.k = connects

ServerApplies(p) ==
    /\ ~IsBarred(p) /\ ~Known(p)
    /\ applied' = applied \cup {<<p.c, p.n>>}
    /\ Handle(p, "ok")
    /\ UNCHANGED barred

\* An id seen before: the answer it had, or op_voided.
ServerKnows(p) ==
    /\ ~IsBarred(p) /\ Known(p)
    /\ Handle(p, IF <<p.c, p.n>> \in voided THEN "voided" ELSE "ok")
    /\ UNCHANGED <<applied, barred>>

ServerRefuses(p) ==
    /\ ~IsBarred(p) /\ ~Known(p)
    /\ \E k \in Outcome \cap {"retry", "gone"} : Handle(p, k)
    /\ UNCHANGED <<applied, barred>>

\* Not reached in time: it and every later operation of the connection are
\* refused, until the server's queue has passed them.
ServerBusy(p) ==
    /\ "busy" \in Outcome
    /\ Handle(p, "busy")
    /\ barred' = (barred \/ p.k = connects)
    /\ UNCHANGED applied

ServerQueuePasses ==
    /\ barred
    /\ barred' = FALSE
    /\ UNCHANGED <<logVars, fileVars, linkVars, gate, drain, wire, answers, applied,
                   voided, histVars>>

-----------------------------------------------------------------------------
LogNext == StartWrite \/ FinishWrite \/ FailWrite \/ CrashAndRestart

LiveNext(c) ==
    \/ Take(c) \/ SendRecorded(c) \/ SendUnwritten(c)
    \/ LiveOk(c) \/ LiveGone(c) \/ LiveAgain(c)
    \/ RecordLive(c) \/ RecordLiveFails(c)

ConnectNext ==
    \/ Connect \/ Drop \/ AnswerStatus
    \/ \E c \in Change : SettleRow(c)
    \/ SettleVoided \/ Settled \/ FlowFails
    \/ JoinRefused \/ JoinAgain \/ HandOver

DrainNext ==
    \/ StartDrain \/ NextPass \/ DrainCut
    \/ \E c \in Change :
          \/ Replay(c) \/ ReplayFails(c) \/ ReplayMoot(c)
          \/ ReplayOk(c) \/ ReplayGone(c) \/ ReplayAgain(c)
          \/ RecordReplayed(c) \/ RecordReplayedFails(c)

ServerNext ==
    \/ ServerQueuePasses
    \/ \E p \in wire :
          \/ Lose(p) \/ ServerApplies(p) \/ ServerKnows(p)
          \/ ServerRefuses(p) \/ ServerBusy(p)

Next ==
    \/ LogNext
    \/ \E c \in Change : LiveNext(c)
    \/ ConnectNext
    \/ DrainNext
    \/ ServerNext

Spec == Init /\ [][Next]_vars

-----------------------------------------------------------------------------
(***************************************************************************)
(* Properties.                                                             *)
(***************************************************************************)

\* The types of the variables.
TypeOK ==
    /\ stage \in [Change -> Stage]
    /\ opId \in [Change -> Nat] /\ drawn \in [Change -> Nat]
    /\ place \in [Change -> Nat] /\ nextPlace \in Nat
    /\ disk \in [Change -> Nat] /\ snap \in [Change -> Nat]
    /\ dirty \in BOOLEAN /\ writing \in BOOLEAN
    /\ written \subseteq Change /\ failed \subseteq Change
    /\ link \in Link /\ connects \in Nat /\ asked \subseteq OpIds
    /\ gate \in [first : BOOLEAN, stuck : BOOLEAN, failures : Nat, due : BOOLEAN]
    /\ drain \in [link : Nat, pass : SUBSET Change, no : Nat]
    /\ wire \subseteq Packet /\ answers \subseteq Answer
    /\ applied \subseteq OpIds /\ voided \subseteq OpIds /\ barred \in BOOLEAN
    /\ durable \subseteq Change /\ refused \subseteq Change /\ crashes \in Nat

\* The server applies a change at most once, whatever answers are lost,
\* however often it is sent again and under whatever ids (sendOp,
\* settleUnanswered, rotateOpId).
AtMostOnce ==
    \A x, y \in applied : x[1] = y[1] => x = y

\* The write-ahead rule: an id the server may still act on, or has acted on
\* unknown to this device, is the id state.json has for the change.
WriteAhead ==
    /\ \A p \in wire : <<p.c, p.n>> \notin voided => disk[p.c] \in {0, p.n}
    /\ \A x \in applied : disk[x[1]] \in {0, x[2]}
    /\ \A p \in wire : stage[p.c] \in {"sent", "replayed"} => disk[p.c] # 0

\* The engine never meets op_voided: it sends no id the server voided, and
\* the answer to a late packet of a connection gone reaches nobody.
NoVoidedAnswer == \A a \in answers : a.kind # "voided"

\* While new changes wait behind those refused busy (queueFirst), a change
\* goes out only after everything queued before it (mayEmitOp, liveOpsSettled).
Emitted(c) == \E p \in wire' : p \notin wire /\ p.c = c
InOrder ==
    [][gate.first =>
         \A c \in Change \ Question : Emitted(c) =>
            \A d \in Replayable : place[c] <= place[d]]_vars

\* The inductive invariant behind AtMostOnce, WriteAhead, NoVoidedAnswer and
\* QueueSpec, in parts.
\* The ids the server has applied or may still apply.
Out == applied \cup ({<<p.c, p.n>> : p \in wire} \ voided)

\* Ids are drawn before they are used (newOpId).
IdsDrawn ==
    /\ \A c \in Change : opId[c] <= drawn[c] /\ disk[c] <= drawn[c] /\ snap[c] <= drawn[c]
    /\ \A c \in Change : stage[c] \in InLog => opId[c] # 0
    /\ \A p \in wire : p.n <= drawn[p.c]
    /\ \A x \in applied \cup voided \cup asked : x[2] <= drawn[x[1]]

\* What the log takes to be on disk is, and what is out was written first.
FileFollowsLog ==
    /\ ~writing => \A c \in Change : snap[c] = 0
    /\ \A c \in Change : stage[c] = "none" => disk[c] = 0 /\ snap[c] = 0
    /\ \A c \in written :
          stage[c] \in InLog /\ disk[c] = opId[c] /\ (writing => snap[c] = opId[c])
    /\ \A c \in Change : stage[c] \in Emitting => c \in written

\* A change has one id out at most, and as long as the log holds the change,
\* memory, the file and the write under way have that id for it.
OneIdOut ==
    /\ applied \cap voided = {}
    /\ link = "rows" => asked \subseteq applied \cup voided
    /\ \A x, y \in Out : x[1] = y[1] => x = y
    /\ \A x \in Out :
          /\ stage[x[1]] # "none"
          /\ disk[x[1]] \in {0, x[2]} /\ snap[x[1]] \in {0, x[2]}
          /\ stage[x[1]] \in InLog =>
                opId[x[1]] = x[2] /\ disk[x[1]] = x[2] /\ (writing => snap[x[1]] = x[2])

\* A packet of the connection has its entry waiting for the answer, and an
\* answer comes to the entry it is about.
OneExchange ==
    /\ link = "down" => answers = {}
    /\ \A c \in Change : stage[c] = "sent" => link # "down"
    /\ \A c \in Change : stage[c] = "replayed" => link = "up"
    /\ \A p \in wire : p.k <= connects
    /\ \A p \in wire : p.k = connects /\ link # "down" =>
          /\ stage[p.c] \in {"sent", "replayed"} /\ p.n = opId[p.c]
          /\ <<p.c, p.n>> \notin voided
          /\ \A a \in answers : a.c # p.c
    /\ \A a \in answers :
          /\ stage[a.c] \in {"sent", "replayed"}
          /\ a.kind = "ok" => IdOf(a.c) \in applied
    /\ \A a, b \in answers : a.c = b.c => a = b
    /\ \A c \in Change : stage[c] \in {"answered", "replayedOk"} => IdOf(c) \in applied

\* What may still be applied, or was voided, is asked about before anything
\* goes out on a connection.
AskedFirst ==
    /\ link \notin {"ask", "rows"} => asked = {}
    /\ \A c \in In(InLog) : IdOf(c) \in asked => stage[c] \in {"queued", "replayedOk"}
    /\ \A c \in In(InLog) : IdOf(c) \in voided =>
          /\ stage[c] = "queued"
          /\ link \in {"down", "stuck", "again"} \/ IdOf(c) \in asked
    /\ \A p \in wire : <<p.c, p.n>> \notin applied \cup voided =>
          \/ p.k = connects /\ link # "down"
          \/ /\ stage[p.c] = "queued" /\ p.n = opId[p.c]
             /\ link \in {"down", "stuck", "again"} \/ (link = "ask" /\ IdOf(p.c) \in asked)

\* Why a change left the log, and that it is not written again.
LeftForAReason ==
    /\ \A c \in Change : stage[c] = "done" => IsApplied(c)
    /\ \A c \in Change : stage[c] = "dropped" => c \in refused
    /\ \A c \in Change : disk[c] # 0 => c \in durable
    /\ \A x \in applied : x[1] \in durable
    /\ \A c \in durable : disk[c] = 0 => stage[c] \in {"done", "dropped"} /\ snap[c] = 0
    /\ writing =>
          \A c \in Change : snap[c] = 0 /\ disk[c] # 0 => stage[c] \in {"done", "dropped"}

IInv ==
    /\ TypeOK /\ IdsDrawn /\ FileFollowsLog /\ OneIdOut
    /\ NoVoidedAnswer /\ OneExchange /\ AskedFirst /\ LeftForAReason

\* What the queue promises (see DurableQueue), for the changes as they are
\* on the disk and on the server.
status ==
    [c \in Change |->
        IF IsApplied(c) THEN "applied"
        ELSE IF c \notin durable THEN "new"
        ELSE IF disk[c] = 0 THEN "givenup"
        ELSE "accepted"]

Queue == INSTANCE DurableQueue WITH status <- status, refused <- refused
QueueSpec == Queue!Spec

\* Liveness.  The event loop, the disk and the connection go on; socket.io
\* connects again; a busy server gets to an operation if asked often enough.
Fairness ==
    /\ WF_vars(StartWrite) /\ WF_vars(FinishWrite)
    /\ WF_vars(Connect) /\ WF_vars(AnswerStatus) /\ WF_vars(SettleVoided)
    /\ WF_vars(Settled) /\ WF_vars(HandOver)
    /\ WF_vars(StartDrain) /\ WF_vars(NextPass) /\ WF_vars(DrainCut)
    /\ WF_vars(ServerQueuePasses)
    /\ \A c \in Change :
          /\ WF_vars(SendRecorded(c)) /\ WF_vars(LiveOk(c)) /\ WF_vars(LiveAgain(c))
          /\ WF_vars(RecordLive(c)) /\ WF_vars(SettleRow(c))
          /\ WF_vars(Replay(c)) /\ WF_vars(ReplayOk(c)) /\ WF_vars(ReplayAgain(c))
          /\ WF_vars(RecordReplayed(c))
          /\ WF_vars(\E p \in wire : p.c = c /\ (ServerKnows(p) \/ ServerBusy(p) \/ ServerApplies(p)))
          /\ SF_vars(\E p \in wire : p.c = c /\ ServerApplies(p))

\* A change once on disk is applied in the end, when nothing but "busy", lost
\* connections and crashes comes between.
Delivered == \A c \in Change : (c \in durable) ~> IsApplied(c)

\* The gate does not stay closed: a refusal is followed by the queue going
\* out, or by the connection dropping.
GateReopens == gate.first ~> (~gate.first)
=============================================================================
