---------------------------- MODULE Attachments ----------------------------
(***************************************************************************)
(* The versions of one attachment: the copy on this disk, the version this *)
(* device last synced, and the server's (sync/engine.ts: handleLocalModify *)
(* for an attachment, sendLocalBinaryUpdate, applyServerUpdateBinary,      *)
(* keepLocalVersion, reconcileAttachments, the updates of replayPending;   *)
(* sync/conflict.ts).  Bytes do not merge: whoever is later wins, unless   *)
(* the user is asked.                                                      *)
(*                                                                         *)
(* A version is a number, drawn at the save; 0 is no file.  Handlers run   *)
(* side by side as jobs, a job's step being what it does next.             *)
(*                                                                         *)
(* Left out: creates, deletes and names (FileNames); what OpDelivery has   *)
(* of ids, refusals and the gate (a packet of a connection that is gone    *)
(* has arrived before the drop or never does); echoes (Watchers); stop()   *)
(* and what it hands over.  Taken for granted: a write of state.json made  *)
(* before a send works, and takes no step of its own; uploads and          *)
(* downloads fail only without a connection; the listing is read in the    *)
(* step that makes the index from it; the server answers in the order it   *)
(* takes things in.                                                        *)
(***************************************************************************)
EXTENDS Naturals, Sequences, FiniteSets, SequencesExt, FiniteSetsExt

CONSTANT Turns      \* bound: how many there may be of each event of Kinds

Kinds == {"save", "theirs", "drop", "crash"}
ASSUME AttachmentsAssumption == Turns \subseteq [Kinds -> Nat]

VARIABLES
    copy, aside,     \* the file under its name, 0 for none; the conflict copies
    engine,          \* the index and the log in memory: see Loaded
    doc,             \* state.json
    jobs,            \* the handlers under way
    conn,            \* the connect flow: see Offline
    told,            \* a save the watcher has still to tell
    asks, answers,   \* what the socket still carries, each way in order
    remote,          \* the server: see AttachmentsInit
    budget,          \* how many of each event there still may be
    tale             \* history: see AttachmentsInit

avars == <<copy, aside, engine, doc, jobs, conn, told, asks, answers, remote, budget, tale>>

-----------------------------------------------------------------------------
\* Each refresh makes the index anew, with an entry that is an object of its
\* own: `known[i]` is the contentHash of the i-th, the last one the index's;
\* `record` the contentHash in the log.  `taken`: how many updates of
\* teammates the vector clock covers, `logged` the clock in the log.
Loaded(d) == [known |-> <<d.record>>, record |-> d.record, taken |-> d.taken, logged |-> d.taken,
              ops |-> d.ops]

\* After a load every operation is queued.
Written(g) == [record |-> g.record, taken |-> g.logged,
               ops |-> {[o EXCEPT !.live = FALSE] : o \in g.ops}]

\* `todo`: the versions the catch-up or the listing still has checked, `covers`
\* the updates this catch-up counts, `top` the last of them.
Offline == [at |-> "down", todo |-> <<>>, covers |-> 0, top |-> 0, cut |-> FALSE]

\* An operation of the log: `over` is KEEP_OVER, `live` in flight here.
Operation(id, over) == [id |-> id, over |-> over, sent |-> FALSE, live |-> FALSE]

\* A handler: `meta` is the index entry it holds, `v` the version it sends or
\* writes, `saw` the copy it compared, `flow` that the connect flow waits for it.
Handler(does, step, v) ==
    [id |-> Min((1 .. Cardinality(jobs) + 1) \ {j.id : j \in jobs}), does |-> does, step |-> step,
     meta |-> Len(engine.known), v |-> v, saw |-> 0, over |-> 0, park |-> FALSE, covers |-> 0,
     flow |-> FALSE, op |-> 0]

Happens(what) == budget[what] > 0 /\ budget' = [budget EXCEPT ![what] = @ - 1]

CanSend == conn.at \notin {"down", "open"}              \* canSendLive
InRoom == conn.at \in {"joined", "rows", "up"}
\* Mutant: any update that waits counts as a choice against the version.
OpWaits(v) == engine.ops # {}
\* An update that waits, or is on its way, is the user's choice against v.
KeptOver(v) == \E o \in engine.ops : o.over = v
Indexed == Len(engine.known)

NewOp == 1 + Max({0} \cup {o.id : o \in engine.ops} \cup {d.op : d \in remote.did})

\* What an update's answer records: in the entry the handler holds, and in the log.
Updated(g, i, v) == [g EXCEPT !.known = [@ EXCEPT ![i] = v], !.record = v]
Closed(g, op) == [g EXCEPT !.ops = {o \in @ : o.id # op}]
Enqueued(over) == [engine EXCEPT !.ops = @ \cup {Operation(NewOp, over)}]
\* Window "unchecked": a connect ends, or the log is written, before its check of
\* the listing is through, and the next catch-up need not be cut short.
Unchecked == conn.cut /\ conn.at = "rows"
\* persistVectorClock
Logged(g) == [g EXCEPT !.logged = g.taken]
\* mergeClock, once a row of the catch-up is through.
Covered(g, n) == [g EXCEPT !.taken = Max({@, n})]

Meets(t, cond, window) == IF cond THEN [t EXCEPT !.windows = @ \cup {window}] ELSE t

Ending(j) == jobs' = jobs \ {j}
Continues(j, k) == jobs' = (jobs \ {j}) \cup {k}
Begins(k) == jobs' = jobs \cup {k}

AttachmentsInit ==
    /\ copy = 1 /\ aside = {} /\ told = FALSE /\ jobs = {}
    /\ doc = [record |-> 1, taken |-> 0, ops |-> {}]
    /\ engine = Loaded(doc)
    /\ conn = Offline
    /\ asks = <<>> /\ answers = <<>>
    \* `last` of the `count` updates teammates made; `did`: our operations and
    \* the version each brought
    /\ remote = [v |-> 1, count |-> 0, last |-> 0, did |-> {}]
    /\ budget \in Turns
    \* `mine`: the version saved here last and not given up; `had`: what the
    \* server has ever had; `chosen`: versions of teammates the user chose the
    \* copy here over; `unasked`: one was replaced without that
    /\ tale = [drawn |-> 1, mine |-> 0, had |-> {1}, chosen |-> {}, unasked |-> FALSE,
               windows |-> {}]

-----------------------------------------------------------------------------
(***************************************************************************)
(* Saves, and what becomes of them.                                        *)
(***************************************************************************)
\* A new version, or the last synced one again (an edit undone).
SaveCopy ==
    /\ copy # 0 /\ Happens("save")
    /\ \E v \in {tale.drawn + 1} \cup ({engine.record} \ {copy}) :
        /\ copy' = v
        /\ tale' = [tale EXCEPT !.mine = v, !.drawn = Max({@, v})]
    /\ told' = TRUE
    /\ UNCHANGED <<aside, engine, doc, jobs, conn, asks, answers, remote>>

TellSave ==
    /\ told /\ told' = FALSE
    /\ Begins(Handler("save", "look", 0))
    /\ UNCHANGED <<copy, aside, engine, doc, conn, asks, answers, remote, budget, tale>>

LookAtSave(j) ==
    /\ j.step = "look"
    /\ \/ /\ copy \in {0, engine.known[j.meta]}
          /\ Ending(j) /\ UNCHANGED engine
       \/ /\ copy \notin {0, engine.known[j.meta]}
          /\ IF CanSend
             THEN Continues(j, [j EXCEPT !.step = "load", !.v = copy]) /\ UNCHANGED engine
             ELSE Ending(j) /\ engine' = Enqueued(0)
    /\ UNCHANGED <<copy, aside, doc, conn, told, asks, answers, remote, budget, tale>>

\* uploadBlob is through: the operation is recorded, written and sent, or
\* queued without a connection.
Upload(j) ==
    LET op == IF j.does = "drain" THEN j.op ELSE NewOp
        g == [Closed(engine, op) EXCEPT
                !.ops = @ \cup {[Operation(op, j.over) EXCEPT !.sent = TRUE, !.live = TRUE]}]
    IN
    /\ j.step = "load"
    /\ \/ /\ CanSend
          /\ engine' = g
          /\ doc' = IF budget.crash = 0 THEN doc ELSE Written(g)
          /\ asks' = Append(asks, [op |-> op, v |-> j.v, base |-> engine.known[j.meta],
                                   drain |-> j.does = "drain"])
          /\ Continues(j, [j EXCEPT !.step = "wait", !.op = op])
       \/ /\ ~CanSend
          /\ engine' = Covered(Enqueued(j.over), j.covers)
          /\ Ending(j) /\ UNCHANGED <<asks, doc>>
    /\ tale' = Meets(tale, doc'.taken # doc.taken /\ Unchecked, "unchecked")
    /\ UNCHANGED <<copy, aside, conn, told, answers, remote, budget>>

\* For a handler it may go into an entry the index has no more.
AckComes ==
    /\ answers # <<>> /\ Head(answers).what = "ack" /\ answers' = Tail(answers)
    /\ \E j \in jobs :
        /\ j.step = "wait" /\ j.op = Head(answers).op
        /\ LET i == IF j.does = "drain" THEN Indexed ELSE j.meta
           IN engine' = Covered(Logged(Updated(Closed(engine, j.op), i, j.v)), j.covers)
        /\ Ending(j)
    /\ UNCHANGED <<copy, aside, doc, conn, told, asks, remote, budget, tale>>

-----------------------------------------------------------------------------
(***************************************************************************)
(* A teammate's version comes (applyServerUpdateBinary).                   *)
(***************************************************************************)
Due(v) == v # engine.known[Indexed] /\ ~KeptOver(v)

UpdateComes ==
    /\ answers # <<>> /\ Head(answers).what = "updated" /\ answers' = Tail(answers)
    /\ IF Due(Head(answers).v) THEN Begins(Handler("apply", "fetch", 0)) ELSE UNCHANGED jobs
    /\ UNCHANGED <<copy, aside, engine, doc, conn, told, asks, remote, budget, tale>>

\* downloadFile brings what the server has now; one that fails ends the
\* connect flow that waits for it.
Fetch(j) ==
    /\ j.step = "fetch"
    /\ \/ /\ conn.at = "down" /\ Ending(j) /\ UNCHANGED engine
       \/ /\ IF remote.v = engine.known[j.meta] \/ KeptOver(remote.v)
             THEN Ending(j) /\ engine' = Covered(engine, j.covers)
             ELSE Continues(j, [j EXCEPT !.step = "compare", !.v = remote.v]) /\ UNCHANGED engine
    /\ UNCHANGED <<copy, aside, doc, conn, told, asks, answers, remote, budget, tale>>

\* detectBinaryConflict
Conflict(stored, here, theirs) == here # stored /\ theirs # stored /\ here # theirs

\* Window "twice": another handler has recorded the same version since the look
\* of Fetch, and a save made since is no conflict any more.
Compare(j) ==
    /\ j.step = "compare"
    /\ tale' = Meets(tale, copy # 0 /\ j.v = engine.known[j.meta], "twice")
    /\ Continues(j, [j EXCEPT !.saw = copy,
                           !.step = IF copy # 0 /\ Conflict(engine.known[j.meta], copy, j.v)
                                    THEN "ask" ELSE "write"])
    /\ UNCHANGED <<copy, aside, engine, doc, conn, told, asks, answers, remote, budget>>

KeepLocal(j) ==
    /\ tale' = [tale EXCEPT !.chosen = @ \cup {j.v}]
    /\ IF CanSend
       THEN Continues(j, [j EXCEPT !.step = "load", !.v = j.saw, !.over = j.v]) /\ UNCHANGED engine
       ELSE Ending(j) /\ engine' = Covered(Enqueued(j.v), j.covers)

KeepServer(j) ==
    /\ tale' = [tale EXCEPT !.mine = IF @ = j.saw THEN 0 ELSE @]
    /\ Continues(j, [j EXCEPT !.step = "write"]) /\ UNCHANGED engine

KeepBoth(j) ==
    Continues(j, [j EXCEPT !.step = "write", !.park = TRUE]) /\ UNCHANGED <<engine, tale>>

AnswerConflict(j) ==
    /\ j.step = "ask"
    /\ KeepLocal(j) \/ KeepServer(j) \/ KeepBoth(j)
    /\ UNCHANGED <<copy, aside, doc, conn, told, asks, answers, remote, budget>>

\* The local phase: the copy is put aside, the record moved, then the file
\* written.  Not for an entry the index has no more; window "outlived": the row
\* it came with counts as taken all the same.  A copy that is gone cannot be
\* put aside.
Commit(j) ==
    LET outlived == j.meta # Indexed IN
    /\ j.step = "write"
    /\ \/ /\ outlived \/ (j.park /\ copy = 0)
          /\ Ending(j)
          /\ engine' = Covered(engine, IF outlived THEN j.covers ELSE 0)
          /\ tale' = Meets(tale, outlived /\ j.covers > engine.taken, "outlived")
          /\ UNCHANGED <<copy, aside>>
       \/ /\ ~outlived /\ ~(j.park /\ copy = 0)
          /\ IF j.park THEN copy' = 0 /\ aside' = aside \cup {copy} ELSE UNCHANGED <<copy, aside>>
          /\ engine' = Updated(engine, j.meta, j.v)
          /\ Continues(j, [j EXCEPT !.step = "put"]) /\ UNCHANGED tale
    /\ UNCHANGED <<doc, conn, told, asks, answers, remote, budget>>

\* Window "overlooked": a save made since the copy was compared is written over.
PutCopy(j) ==
    /\ j.step = "put"
    /\ copy' = j.v
    /\ tale' = Meets(tale, copy \notin {0, j.saw, j.v}, "overlooked")
    /\ engine' = Covered(engine, j.covers)
    /\ Ending(j)
    /\ UNCHANGED <<aside, doc, conn, told, asks, answers, remote, budget>>

-----------------------------------------------------------------------------
(***************************************************************************)
(* The connect flow.                                                       *)
(***************************************************************************)
ConnectAttachments ==
    /\ conn.at = "down" /\ conn' = [Offline EXCEPT !.at = "open"]
    /\ UNCHANGED <<copy, aside, engine, doc, jobs, told, asks, answers, remote, budget, tale>>

\* What landed while its answer was lost stays in the queue, as an update the
\* drain reads the disk for.
\* Mutant: it leaves the queue.
Forgotten(g) == g
recheckAttachment(g) == [g EXCEPT !.ops = @ \cup {Operation(NewOp, 0)}]

\* settleLandedUpdate: what landed is recorded by the version it went out with.
SettleAttachment ==
    /\ conn.at = "open" /\ conn' = [conn EXCEPT !.at = "settled"]
    /\ LET landed == {d \in remote.did : \E o \in engine.ops : o.id = d.op /\ o.sent}
           left == [engine EXCEPT !.ops = {[o EXCEPT !.sent = FALSE] :
                       o \in {p \in @ : \A d \in landed : d.op # p.id}}]
           last == CHOOSE d \in landed : \A x \in landed : x.op <= d.op
       IN engine' = IF landed = {} THEN left
                    ELSE Logged(recheckAttachment(Updated(left, Indexed, last.v)))
    /\ UNCHANGED <<copy, aside, doc, jobs, told, asks, answers, remote, budget, tale>>

\* The catch-up: of the updates the clock does not cover only the last counts
\* (supersededOps); one cut short lacks it, and has the listing checked. The
\* join's answer comes behind those to what was sent before it.
JoinAttachments ==
    /\ conn.at = "settled" /\ answers = <<>>
    /\ \E cut \in BOOLEAN :
        conn' = [conn EXCEPT !.at = "joined", !.covers = remote.count, !.top = remote.last, !.cut = cut,
                    !.todo = IF cut \/ remote.count <= engine.taken THEN <<>> ELSE <<remote.last>>]
    /\ UNCHANGED <<copy, aside, engine, doc, jobs, told, asks, answers, remote, budget, tale>>

\* refreshFileIndex.  After a catch-up cut short the clock covers, by the later
\* rows, what the listing is still to be checked for (reconcileAttachments).
RefreshAttachments ==
    /\ conn.at = "joined"
    /\ engine' = [Covered(engine, IF conn.cut THEN conn.covers ELSE 0) EXCEPT
                     !.known = Append(@, engine.record)]
    /\ conn' = [conn EXCEPT !.at = "rows", !.todo = IF conn.cut THEN <<remote.v>> ELSE @]
    /\ UNCHANGED <<copy, aside, doc, jobs, told, asks, answers, remote, budget, tale>>

\* Each version of the catch-up in turn, then connected.
FlowGoesOn ==
    /\ conn.at = "rows" /\ \A j \in jobs : ~j.flow
    /\ \/ /\ conn.todo = <<>>
          /\ conn' = [conn EXCEPT !.at = "up"] /\ engine' = Logged(engine) /\ UNCHANGED jobs
       \/ /\ conn.todo # <<>>
          /\ conn' = [conn EXCEPT !.todo = Tail(@)]
          /\ IF Due(Head(conn.todo))
             THEN /\ Begins([Handler("apply", "fetch", 0) EXCEPT !.flow = TRUE, !.covers = conn.covers])
                  /\ UNCHANGED engine
             ELSE engine' = Covered(engine, conn.covers) /\ UNCHANGED jobs
    /\ UNCHANGED <<copy, aside, doc, told, asks, answers, remote, budget, tale>>

\* The drain reads the disk (replayPending): nothing to send for a file that
\* is gone, or still the version last synced.
DrainAttachments ==
    /\ conn.at = "up" /\ \A j \in jobs : j.does # "drain"
    /\ \E o \in engine.ops :
        /\ ~o.live /\ \A p \in engine.ops : ~p.live => o.id <= p.id
        /\ IF copy \in {0, engine.known[Indexed]}
           THEN engine' = Closed(engine, o.id) /\ UNCHANGED jobs
           ELSE /\ Begins([Handler("drain", "load", copy) EXCEPT !.op = o.id, !.over = o.over])
                /\ UNCHANGED engine
    /\ UNCHANGED <<copy, aside, doc, conn, told, asks, answers, remote, budget, tale>>

-----------------------------------------------------------------------------
(***************************************************************************)
(* The server, the teammates, the network, the process.                    *)
(***************************************************************************)
\* `unasked`: a teammate's version that the last catch-up reported goes under
\* one sent from the queue, with neither it taken here (what was sent from here
\* was) nor the user asked.
ServerTakesUpdate ==
    /\ asks # <<>> /\ asks' = Tail(asks)
    /\ LET p == Head(asks)
           unasked == /\ p.drain /\ conn.top # 0 /\ remote.v = conn.top /\ p.v # conn.top
                      /\ p.base # conn.top /\ conn.top \notin tale.chosen
                      /\ \A d \in remote.did : d.v # conn.top
       IN
       /\ answers' = Append(answers, [what |-> "ack", op |-> p.op, v |-> p.v])
       /\ remote' = [remote EXCEPT !.v = p.v, !.did = @ \cup {[op |-> p.op, v |-> p.v]}]
       /\ tale' = [tale EXCEPT !.had = @ \cup {p.v}, !.unasked = @ \/ unasked]
    /\ UNCHANGED <<copy, aside, engine, doc, jobs, conn, told, budget>>

TheirSave ==
    /\ Happens("theirs")
    /\ LET v == tale.drawn + 1 IN
       /\ remote' = [remote EXCEPT !.v = v, !.last = v, !.count = @ + 1]
       /\ tale' = [tale EXCEPT !.drawn = v, !.had = @ \cup {v}]
       /\ answers' = IF InRoom THEN Append(answers, [what |-> "updated", v |-> v]) ELSE answers
    /\ UNCHANGED <<copy, aside, engine, doc, jobs, conn, told, asks>>

\* Handlers that wait for an answer put their operation back, and are through
\* with their row; the drain ends.
AttachmentsDrop ==
    /\ conn.at # "down" /\ Happens("drop") /\ conn' = Offline
    /\ asks' = <<>> /\ answers' = <<>>
    /\ engine' = [Covered(engine, Max({0} \cup {j.covers : j \in {k \in jobs : k.step = "wait"}}))
                    EXCEPT !.ops = {[o EXCEPT !.live = FALSE] : o \in @}]
    /\ tale' = Meets(tale, Unchecked, "unchecked")
    /\ jobs' = {[j EXCEPT !.flow = FALSE] : j \in {k \in jobs : k.step # "wait" /\ k.does # "drain"}}
    /\ UNCHANGED <<copy, aside, doc, told, remote>>

\* The debounced write.
PersistAttachments ==
    /\ budget.crash > 0
    /\ doc' = Written(engine) /\ doc' # doc
    /\ tale' = Meets(tale, doc'.taken # doc.taken /\ Unchecked, "unchecked")
    /\ UNCHANGED <<copy, aside, engine, jobs, conn, told, asks, answers, remote, budget>>

\* Window "untold": a save no operation tells of.
AttachmentsCrash ==
    /\ Happens("crash")
    /\ engine' = Loaded(doc) /\ jobs' = {} /\ told' = FALSE /\ conn' = Offline
    /\ asks' = <<>> /\ answers' = <<>>
    /\ tale' = Meets(tale, copy # doc.record /\ doc.ops = {}, "untold")
    /\ UNCHANGED <<copy, aside, doc, remote>>

AttachmentsNext ==
    \/ SaveCopy \/ TellSave \/ AckComes \/ UpdateComes
    \/ \E j \in jobs : \/ LookAtSave(j) \/ Upload(j) \/ Fetch(j) \/ Compare(j)
                       \/ AnswerConflict(j) \/ Commit(j) \/ PutCopy(j)
    \/ ConnectAttachments \/ SettleAttachment \/ JoinAttachments \/ RefreshAttachments
    \/ FlowGoesOn \/ DrainAttachments
    \/ ServerTakesUpdate \/ TheirSave
    \/ AttachmentsDrop \/ PersistAttachments \/ AttachmentsCrash

AttachmentsSpec == AttachmentsInit /\ [][AttachmentsNext]_avars

-----------------------------------------------------------------------------
\* Types of the copy, the index, the log and the handlers.
AttachmentsTypeOK ==
    /\ copy \in Nat /\ aside \subseteq Nat /\ told \in BOOLEAN
    /\ engine.known \in Seq(Nat) /\ engine.record \in Nat /\ {engine.taken, engine.logged} \subseteq 0 .. remote.count
    /\ \A o \in engine.ops : o.id \in Nat /\ o.over \in Nat /\ {o.sent, o.live} \subseteq BOOLEAN
    /\ \A j \in jobs : /\ j.does \in {"save", "apply", "drain"} /\ j.meta \in 1 .. Indexed
                       /\ j.step \in {"look", "load", "wait", "fetch", "compare", "ask", "write", "put"}
    /\ conn.at \in {"down", "open", "settled", "joined", "rows", "up"}

AttachmentsAtRest ==
    /\ conn.at = "up" /\ jobs = {} /\ ~told
    /\ asks = <<>> /\ answers = <<>> /\ engine.ops = {}

\* A version saved here is not lost (sendLocalBinaryUpdate, the drain, the
\* prompt): until the user gives it up it stands in the vault or has been on
\* the server, and once all is at rest it stands aside or has been on the
\* server.  Not after the windows "overlooked", "twice" and "untold".
VersionKept ==
    tale.windows \cap {"overlooked", "twice", "untold"} = {} =>
        tale.mine \in {0} \cup tale.had \cup aside \cup (IF AttachmentsAtRest THEN {} ELSE {copy})

\* What the queue sends after a catch-up (onSocketConnect: the drain comes last)
\* never replaces a teammate's version that catch-up was told of, unless it was
\* taken here first or the user chose against it.  Not after the windows
\* "outlived" and "unchecked".
TheirsAsked == tale.windows \cap {"outlived", "unchecked"} = {} => ~tale.unasked
=============================================================================
