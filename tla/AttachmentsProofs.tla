-------------------------- MODULE AttachmentsProofs --------------------------
(***************************************************************************)
(* Proofs about Attachments, for any number of saves, versions of          *)
(* teammates, drops and crashes: a version saved here is kept until the    *)
(* user gives it up (VersionKept), and what the queue sends replaces no    *)
(* version that the catch-up reported unasked (TheirsAsked).               *)
(*                                                                         *)
(* A version that is neither on the server nor aside is the copy's         *)
(* (Standing): no handler that writes the file holds it as the copy it     *)
(* compared (GivenUp). And somebody has still to bring it to the server    *)
(* (Cared): the watcher, a handler that looks at the save, one that sends  *)
(* it, or an operation of the queue that will read the disk.               *)
(*                                                                         *)
(* A teammate's version that is the server's still, and was not sent from  *)
(* here, is owed a question (Owed). What the clock covers of that kind is  *)
(* recorded here or was chosen against (Clock, Dealt); what a connection's *)
(* catch-up covers is too, or a row or a handler of it is still to look    *)
(* (Rows, Covering); and once it is covered nothing is under way that      *)
(* could undo that (Answered, Meant).                                      *)
(***************************************************************************)
EXTENDS Attachments, WellFoundedInduction, TLAPS

\* Types, of what the proofs are about.
IsJob(j) ==
    j \in [id : {j.id}, does : {"save", "apply", "drain"},
           step : {"look", "load", "wait", "fetch", "compare", "ask", "write", "put"},
           meta : DOMAIN engine.known, v : Nat, saw : Nat, over : {j.over}, park : BOOLEAN,
           covers : {j.covers}, flow : {j.flow}, op : Nat]
IsOp(o) == o \in [id : Nat, over : {o.over}, sent : {o.sent}, live : BOOLEAN]
IsEngine(g) ==
    /\ g \in [known : Seq(Nat) \ {<<>>}, record : Nat, taken : {g.taken}, logged : {g.logged},
              ops : {g.ops}]
    /\ \A o \in g.ops : IsOp(o)
IsDoc(d) ==
    /\ d \in [record : Nat, taken : {d.taken}, ops : {d.ops}]
    /\ \A o \in d.ops : IsOp(o)
IsConn(c) == c \in [at : {"down", "open", "settled", "joined", "rows", "up"}, todo : {c.todo},
                    covers : {c.covers}, top : {c.top}, cut : {c.cut}]
Packet == [op : Nat, v : Nat, base : Nat, drain : BOOLEAN]
Answer == [what : {"ack"}, op : Nat, v : Nat] \cup [what : {"updated"}, v : Nat]
IsRemote(r) == r \in [v : Nat, count : Nat, last : Nat, did : SUBSET [op : Nat, v : Nat]]
IsTale(t) ==
    t \in [drawn : Nat, mine : Nat, had : SUBSET Nat, chosen : {t.chosen}, unasked : {t.unasked},
           windows : {t.windows}]
Shaped ==
    /\ copy \in Nat /\ aside \subseteq Nat
    /\ IsEngine(engine) /\ IsDoc(doc) /\ IsConn(conn) /\ IsRemote(remote) /\ IsTale(tale)
    /\ asks \in Seq(Packet) /\ answers \in Seq(Answer)
    /\ \A j \in jobs : IsJob(j)

\* Versions: drawn before they are seen, and recorded once they are the server's.
Drawn ==
    /\ copy <= tale.drawn /\ \A v \in tale.had : v <= tale.drawn
    /\ \A j \in jobs : j.saw <= tale.drawn /\ j.v <= tale.drawn
    /\ \A n \in DOMAIN asks : asks[n].v <= tale.drawn
Recorded ==
    /\ \A i \in DOMAIN engine.known : engine.known[i] \in tale.had
    /\ engine.record \in tale.had /\ doc.record \in tale.had /\ remote.v \in tale.had
    /\ \A d \in remote.did : d.v \in tale.had
    /\ \A j \in jobs : j.step \in {"compare", "ask", "write", "put"} => j.v \in tale.had
    /\ \A n \in DOMAIN answers : answers[n].what = "ack" => answers[n].v \in tale.had

\* Operations: each is in the log once, in flight only on a connection.
OneEach(S) == \A o, p \in S : o.id = p.id => o = p
HasOp(n) == \E o \in engine.ops : o.id = n
IsLive(n) == \E o \in engine.ops : o.live /\ o.id = n
IsDone(n) == \E d \in remote.did : d.op = n
Below(n) ==
    /\ \A o \in engine.ops : o.id <= n
    /\ \A o \in doc.ops : o.id <= n
    /\ \A d \in remote.did : d.op <= n
Ops ==
    /\ OneEach(engine.ops) /\ OneEach(doc.ops) /\ \A o \in doc.ops : ~o.live
    /\ conn.at \in {"down", "open"} => \A o \in engine.ops : ~o.live
    /\ \E n \in Nat : Below(n)
\* The drain is one handler at most, and its operation is in the log.
Drains ==
    /\ \A j \in jobs : j.does = "drain" =>
          /\ conn.at = "up" /\ HasOp(j.op)
          /\ (j.step = "load" /\ ~IsLive(j.op)) \/ j.step = "wait"
    /\ \A j, k \in jobs : j.does = "drain" /\ k.does = "drain" => j = k
    /\ \A j \in jobs : j.step = "look" => j.does = "save"
\* Each waits for an operation of its own, and what is under way for it is of the
\* version it sent.
Waits ==
    /\ \A j \in jobs : j.step = "wait" => IsLive(j.op)
    /\ \A j, k \in jobs : j.step = "wait" /\ k.step = "wait" /\ j.op = k.op => j = k
Comes(n, v) ==
    /\ IsLive(n) \/ (IsDone(n) /\ ~HasOp(n))
    /\ \A j \in jobs : j.step = "wait" /\ j.op = n => j.v = v
Sent ==
    /\ \A n \in DOMAIN asks : Comes(asks[n].op, asks[n].v)
    /\ \A n \in DOMAIN answers :
          answers[n].what = "ack" => Comes(answers[n].op, answers[n].v) /\ IsDone(answers[n].op)

\* The version saved last is given up, on the server, or aside.
Safe == tale.mine \in {0} \cup tale.had \cup aside
\* What a handler is to write over is safe, or is put aside first.
GivenUp ==
    \A j \in jobs : j.step \in {"write", "put"} /\ j.saw = tale.mine =>
        Safe \/ (j.park /\ j.step = "write")
Standing == Safe \/ copy = tale.mine
\* Who has still to bring it to the server.
Cared ==
    \/ told
    \/ \E j \in jobs : j.step = "look"
    \/ \E j \in jobs : j.step \in {"load", "wait"} /\ j.v = tale.mine
    \/ \E o \in engine.ops : ~o.live /\ \A j \in jobs : j.does = "drain" => j.op # o.id

Watched == tale.windows \cap {"overlooked", "twice"} = {}
Remembered == tale.windows \cap {"untold"} = {}
AInv ==
    /\ Shaped /\ Drawn /\ Recorded /\ Ops /\ Drains /\ Waits /\ Sent
    /\ Watched => GivenUp /\ Standing
    /\ Watched /\ Remembered => Safe \/ Cared

-----------------------------------------------------------------------------
\* A set of numbers with a bound has a largest.
LEMMA LargestExists ==
    ASSUME NEW S \in SUBSET Nat, S # {}, NEW n \in Nat, \A m \in S : m <= n
    PROVE  \E x \in S : \A y \in S : y <= x
<1>   DEFINE T == {i \in Nat : \E m \in S : i = n - m}
             R == OpToRel(<, Nat)
<1>1. IsWellFoundedOn(R, Nat)
      BY NatLessThanWellFounded
<1>2. \A i, j \in Nat : j < i => <<j, i>> \in R
      BY DEF OpToRel
<1>   HIDE DEF R
<1>3. T \subseteq Nat /\ T # {}
  <2>1. PICK m \in S : TRUE
        OBVIOUS
  <2>2. n - m \in Nat
        OBVIOUS
  <2>   QED
        BY <2>1, <2>2
<1>4. PICK i \in T : \A j \in T : ~(<<j, i>> \in R)
      BY <1>1, <1>3, WFMin
<1>5. PICK x \in S : i = n - x
      OBVIOUS
<1>6. \A y \in S : n - y \in T
      OBVIOUS
<1>7. \A y \in S : ~(n - y < n - x)
      BY <1>2, <1>3, <1>4, <1>5, <1>6
<1>   QED
      BY <1>7
\* Of two numbers.
LEMMA LargerOfTwo ==
    ASSUME NEW m \in Nat, NEW n \in Nat
    PROVE  Max({m, n}) \in {m, n} /\ m <= Max({m, n}) /\ n <= Max({m, n})
<1>1. \E x \in {m, n} : \A y \in {m, n} : x >= y
      OBVIOUS
<1>   QED
      BY <1>1 DEF Max

\* A new operation's id is not used yet.
LEMMA NewOpIsNew ==
    ASSUME Shaped, Ops
    PROVE  /\ NewOp \in Nat
           /\ \A o \in engine.ops : o.id < NewOp
           /\ \A d \in remote.did : d.op < NewOp
           /\ ~HasOp(NewOp) /\ ~IsLive(NewOp) /\ ~IsDone(NewOp)
<1>   DEFINE S == {0} \cup {o.id : o \in engine.ops} \cup {d.op : d \in remote.did}
<1>1. /\ \A o \in engine.ops : o.id \in Nat
      /\ \A d \in remote.did : d.op \in Nat
      BY DEF Shaped, IsEngine, IsOp, IsRemote
<1>2. PICK n \in Nat : Below(n)
      BY DEF Ops
<1>3. S \in SUBSET Nat /\ S # {} /\ \A m \in S : m <= n
      BY <1>1, <1>2 DEF Below
<1>4. \E x \in S : \A y \in S : x >= y
  <2>1. PICK x \in S : \A y \in S : y <= x
        BY <1>3, LargestExists
  <2>   QED
        BY <2>1, <1>3
<1>5. Max(S) \in S /\ \A y \in S : Max(S) >= y
      BY <1>4 DEF Max
<1>6. NewOp = 1 + Max(S)
      BY DEF NewOp
<1>   HIDE DEF S
<1>7. NewOp \in Nat /\ \A y \in S : y < NewOp
  <2>1. Max(S) \in Nat /\ \A y \in S : y \in Nat /\ Max(S) >= y
        BY <1>3, <1>5
  <2>2. \A x, y \in Nat : x >= y => y < 1 + x
        OBVIOUS
  <2>   QED
        BY <1>6, <2>1, <2>2
<1>8. /\ \A o \in engine.ops : o.id < NewOp
      /\ \A d \in remote.did : d.op < NewOp
      BY <1>7 DEF S
<1>   QED
      BY <1>1, <1>7, <1>8 DEF HasOp, IsLive, IsDone

\* What the record of an engine becomes.
LEMMA CoveredIs ==
    ASSUME NEW g, IsEngine(g), NEW n
    PROVE  /\ IsEngine(Covered(g, n)) /\ Covered(g, n).known = g.known
           /\ Covered(g, n).record = g.record /\ Covered(g, n).ops = g.ops
BY DEF IsEngine, Covered
\* persistVectorClock.
LEMMA LoggedIs ==
    ASSUME NEW g, IsEngine(g)
    PROVE  /\ IsEngine(Logged(g)) /\ Logged(g).known = g.known
           /\ Logged(g).record = g.record /\ Logged(g).ops = g.ops
BY DEF IsEngine, Logged
\* An update's answer recorded.
LEMMA UpdatedIs ==
    ASSUME NEW g, IsEngine(g), NEW i \in DOMAIN g.known, NEW v \in Nat
    PROVE  /\ IsEngine(Updated(g, i, v)) /\ Updated(g, i, v).known = [g.known EXCEPT ![i] = v]
           /\ Updated(g, i, v).record = v /\ Updated(g, i, v).ops = g.ops
<1>1. [g.known EXCEPT ![i] = v] \in Seq(Nat) \ {<<>>}
      BY DEF IsEngine
<1>   QED
      BY <1>1 DEF IsEngine, Updated
\* An operation out of the log.
LEMMA ClosedIs ==
    ASSUME NEW g, IsEngine(g), NEW n
    PROVE  /\ IsEngine(Closed(g, n)) /\ Closed(g, n).known = g.known
           /\ Closed(g, n).record = g.record
           /\ Closed(g, n).ops = {o \in g.ops : o.id # n}
BY DEF IsEngine, Closed
\* One put into it.
LEMMA AddedIs ==
    ASSUME NEW g, IsEngine(g), NEW o, IsOp(o)
    PROVE  LET h == [g EXCEPT !.ops = @ \cup {o}] IN
           /\ IsEngine(h) /\ h.known = g.known /\ h.record = g.record
           /\ h.ops = g.ops \cup {o}
BY DEF IsEngine, Closed
\* A new operation.
LEMMA OperationIs ==
    ASSUME NEW n \in Nat, NEW over
    PROVE  /\ IsOp(Operation(n, over))
           /\ Operation(n, over).id = n /\ Operation(n, over).live = FALSE
BY DEF IsOp, Operation
\* What state.json gets.
LEMMA WrittenIs ==
    ASSUME NEW g, IsEngine(g), OneEach(g.ops)
    PROVE  /\ IsDoc(Written(g)) /\ Written(g).record = g.record
           /\ OneEach(Written(g).ops) /\ \A o \in Written(g).ops : ~o.live
           /\ \A o \in Written(g).ops : \E p \in g.ops : o.id = p.id
<1>   DEFINE f(o) == [o EXCEPT !.live = FALSE]
<1>1. Written(g).ops = {f(o) : o \in g.ops} /\ Written(g).record = g.record
      BY DEF Written
<1>2. \A o \in g.ops : IsOp(f(o)) /\ f(o).id = o.id /\ ~f(o).live
      BY DEF IsEngine, IsOp
<1>3. IsDoc(Written(g))
  <2>1. Written(g) \in [record : Nat, taken : {Written(g).taken}, ops : {Written(g).ops}]
        BY DEF IsEngine, Written
  <2>   QED
        BY <1>1, <1>2, <2>1 DEF IsDoc
<1>   HIDE DEF f
<1>   QED
      BY <1>1, <1>2, <1>3 DEF OneEach
\* What a start makes of it.
LEMMA LoadedIs ==
    ASSUME NEW d, IsDoc(d)
    PROVE  /\ IsEngine(Loaded(d)) /\ Loaded(d).known = <<d.record>>
           /\ Loaded(d).record = d.record /\ Loaded(d).ops = d.ops
BY DEF IsDoc, IsEngine, Loaded

\* A new handler.
LEMMA HandlerIs ==
    ASSUME Shaped, NEW does \in {"save", "apply", "drain"}, NEW v \in Nat,
           NEW step \in {"look", "load", "wait", "fetch", "compare", "ask", "write", "put"}
    PROVE  LET k == Handler(does, step, v) IN
           /\ IsJob(k) /\ k.does = does /\ k.step = step /\ k.v = v
           /\ k.saw = 0 /\ k.op = 0 /\ ~k.park
<1>1. Len(engine.known) \in DOMAIN engine.known
      BY DEF Shaped, IsEngine
<1>   QED
      BY <1>1 DEF Handler, IsJob
-----------------------------------------------------------------------------
\* What the actions do: handlers end, go on and begin,
Becomes(j, k, step) ==
    /\ IsJob(k) /\ k.does = j.does /\ k.step = step
    /\ jobs' = (jobs \ {j}) \cup {k}
Starts(k, does, step) ==
    /\ IsJob(k) /\ k.does = does /\ k.step = step /\ k.v \in {0, copy} /\ k.saw = 0
    /\ jobs' = jobs \cup {k}
\* the index and the log stay, but for the clock, or get an operation,
IndexStays ==
    IsEngine(engine') /\ engine'.known = engine.known /\ engine'.record = engine.record
LogStays == IndexStays /\ engine'.ops = engine.ops
Queues ==
    /\ IndexStays
    /\ \E o : IsOp(o) /\ o.id = NewOp /\ ~o.live /\ engine'.ops = engine.ops \cup {o}
\* and the history, but for a window.
TaleStays ==
    /\ IsTale(tale') /\ tale'.drawn = tale.drawn /\ tale'.mine = tale.mine
    /\ tale'.had = tale.had /\ tale.windows \subseteq tale'.windows

\* Of an engine and a history that stay as they are.
LEMMA Stays ==
    ASSUME Shaped
    PROVE  (engine' = engine => LogStays) /\ (tale' = tale => TaleStays)
BY DEF Shaped, LogStays, IndexStays, TaleStays
\* A window that is met, or not.
LEMMA MeetsIs ==
    ASSUME Shaped, NEW cond, NEW window, tale' = Meets(tale, cond, window)
    PROVE  TaleStays /\ (cond => window \in tale'.windows)
BY DEF Shaped, TaleStays, Meets, IsTale
\* Clocks taken in.
LEMMA CoversIs ==
    ASSUME Shaped, NEW n, engine' = Covered(engine, n)
    PROVE  LogStays
BY CoveredIs DEF Shaped, LogStays, IndexStays
\* What is queued.
LEMMA EnqueuedIs ==
    ASSUME Shaped, Ops, NEW over, NEW n,
           engine' = Enqueued(over) \/ engine' = Covered(Enqueued(over), n)
    PROVE  Queues
<1>   DEFINE o == Operation(NewOp, over)
<1>1. IsOp(o) /\ o.id = NewOp /\ ~o.live
      BY NewOpIsNew, OperationIs
<1>2. /\ IsEngine(Enqueued(over)) /\ Enqueued(over).known = engine.known
      /\ Enqueued(over).record = engine.record
      /\ Enqueued(over).ops = engine.ops \cup {o}
      BY <1>1, AddedIs DEF Shaped, Enqueued
<1>3. /\ IsEngine(engine') /\ engine'.known = engine.known
      /\ engine'.record = engine.record /\ engine'.ops = engine.ops \cup {o}
      BY <1>2, CoveredIs
<1>   QED
      BY <1>1, <1>3 DEF Queues, IndexStays

\* SaveCopy: a version that is new, or the one last synced.
SaveEffect ==
    /\ copy' \in Nat
    /\ copy' = tale.drawn + 1 \/ copy' = engine.record
    /\ told' /\ IsTale(tale') /\ tale'.mine = copy' /\ tale.drawn <= tale'.drawn
    /\ copy' <= tale'.drawn /\ tale'.had = tale.had /\ tale'.windows = tale.windows
    /\ UNCHANGED <<aside, engine, doc, jobs, conn, asks, answers, remote>>
\* A save draws a version that is new, or saves the one last synced again.
LEMMA SaveCopyIs == ASSUME Shaped, SaveCopy PROVE SaveEffect
<1>1. PICK v \in {tale.drawn + 1} \cup ({engine.record} \ {copy}) :
          copy' = v /\ tale' = [tale EXCEPT !.mine = v, !.drawn = Max({tale.drawn, v})]
      BY DEF SaveCopy
<1>2. v \in Nat /\ tale.drawn \in Nat
      BY DEF Shaped, IsEngine, IsTale
<1>3. /\ Max({tale.drawn, v}) \in {tale.drawn, v}
      /\ tale.drawn <= Max({tale.drawn, v}) /\ v <= Max({tale.drawn, v})
      BY <1>2, LargerOfTwo
<1>   HIDE DEF Max
<1>4. tale'.mine = v /\ tale'.drawn = Max({tale.drawn, v}) /\ tale'.had = tale.had
      /\ tale'.windows = tale.windows /\ IsTale(tale')
      BY <1>1, <1>2, <1>3 DEF Shaped, IsTale
<1>   QED
      BY <1>1, <1>2, <1>3, <1>4 DEF SaveCopy, SaveEffect

\* TellSave.
TellEffect ==
    /\ \E k : Starts(k, "save", "look")
    /\ ~told' /\ UNCHANGED <<copy, aside, engine, doc, conn, asks, answers, remote, tale>>
\* The watcher tells of the save: a handler is to look at it.
LEMMA TellSaveIs == ASSUME Shaped, TellSave PROVE TellEffect
BY HandlerIs DEF TellSave, Begins, Starts, TellEffect

\* LookAtSave.
LookEffect(j) ==
    /\ j.step = "look"
    /\ \/ copy \in {0, engine.known[j.meta]} /\ Ending(j) /\ LogStays
       \/ LogStays /\ \E k : Becomes(j, k, "load") /\ k.v = copy /\ k.saw = j.saw /\ k.op = j.op
       \/ Queues /\ Ending(j)
    /\ UNCHANGED <<copy, aside, doc, conn, told, asks, answers, remote, tale>>
\* A look at the copy ends the handler, has it send the copy, or queues an operation.
LEMMA LookAtSaveIs ==
    ASSUME Shaped, Ops, NEW j \in jobs, LookAtSave(j)
    PROVE  LookEffect(j)
<1>1. CASE Ending(j) /\ engine' = Enqueued(0)
      BY <1>1, EnqueuedIs DEF LookAtSave, LookEffect, Ending
<1>2. CASE Ending(j) /\ engine' = engine /\ copy \in {0, engine.known[j.meta]}
      BY <1>2, Stays DEF LookAtSave, LookEffect, Ending
<1>3. CASE Continues(j, [j EXCEPT !.step = "load", !.v = copy]) /\ engine' = engine
  <2>   DEFINE k == [j EXCEPT !.step = "load", !.v = copy]
  <2>1. IsJob(k) /\ k.does = j.does /\ k.step = "load" /\ k.v = copy /\ k.saw = j.saw
        /\ k.op = j.op
        BY DEF Shaped, IsJob
  <2>   QED
        BY <1>3, <2>1, Stays DEF LookAtSave, LookEffect, Continues, Becomes
<1>   QED
      BY <1>1, <1>2, <1>3 DEF LookAtSave

\* Upload: sent, or queued without a connection.
SendEffect(j, op) ==
    /\ IndexStays /\ op = (IF j.does = "drain" THEN j.op ELSE NewOp) /\ op \in Nat
    /\ \E o : /\ IsOp(o) /\ o.id = op /\ o.live
              /\ engine'.ops = {p \in engine.ops : p.id # op} \cup {o}
    /\ \E k : Becomes(j, k, "wait") /\ k.v = j.v /\ k.saw = j.saw /\ k.op = op
    /\ \E p \in Packet : p.op = op /\ p.v = j.v /\ asks' = Append(asks, p)
    /\ doc' \in {doc, Written(engine')} /\ conn.at \notin {"down", "open"}
UploadEffect(j) ==
    /\ j.step = "load"
    /\ (\E op : SendEffect(j, op)) \/ (Queues /\ Ending(j) /\ UNCHANGED <<asks, doc>>)
    /\ TaleStays /\ UNCHANGED <<copy, aside, conn, told, answers, remote>>
\* An upload is sent as one operation, or is queued without a connection.
LEMMA UploadIs ==
    ASSUME Shaped, Ops, NEW j \in jobs, Upload(j)
    PROVE  UploadEffect(j)
<1>   DEFINE op == IF j.does = "drain" THEN j.op ELSE NewOp
             o == [Operation(op, j.over) EXCEPT !.sent = TRUE, !.live = TRUE]
             g == [Closed(engine, op) EXCEPT !.ops = @ \cup {o}]
             k == [j EXCEPT !.step = "wait", !.op = op]
             p == [op |-> op, v |-> j.v, base |-> engine.known[j.meta], drain |-> j.does = "drain"]
<1>1. op \in Nat
      BY NewOpIsNew DEF Shaped, IsJob
<1>2. IsOp(o) /\ o.id = op /\ o.live
      BY <1>1 DEF IsOp, Operation
<1>3. /\ IsEngine(g) /\ g.known = engine.known /\ g.record = engine.record
      /\ g.ops = {q \in engine.ops : q.id # op} \cup {o}
      BY <1>1, <1>2, ClosedIs, AddedIs DEF Shaped
<1>4. /\ IsJob(k) /\ k.does = j.does /\ k.step = "wait" /\ k.v = j.v /\ k.saw = j.saw
      /\ k.op = op
      BY <1>1 DEF Shaped, IsJob
<1>5. p \in Packet /\ p.op = op /\ p.v = j.v
      BY <1>1 DEF Shaped, IsJob, IsEngine, Packet
<1>6. TaleStays
      BY MeetsIs DEF Upload
<1>7. \/ /\ CanSend /\ engine' = g /\ doc' \in {doc, Written(g)} /\ asks' = Append(asks, p)
         /\ Continues(j, k)
      \/ /\ engine' = Covered(Enqueued(j.over), j.covers) /\ Ending(j) /\ UNCHANGED <<asks, doc>>
      BY DEF Upload
<1>8. j.step = "load" /\ UNCHANGED <<copy, aside, conn, told, answers, remote>>
      BY DEF Upload
<1>   HIDE DEF op, o, g, k, p
<1>9. CASE CanSend /\ engine' = g /\ doc' \in {doc, Written(g)} /\ asks' = Append(asks, p)
           /\ Continues(j, k)
  <2>1. SendEffect(j, op)
        BY <1>1, <1>2, <1>3, <1>4, <1>5, <1>9
           DEF SendEffect, IndexStays, Becomes, Continues, CanSend, op
  <2>   QED
        BY <1>6, <1>8, <2>1 DEF UploadEffect
<1>10. CASE engine' = Covered(Enqueued(j.over), j.covers) /\ Ending(j) /\ UNCHANGED <<asks, doc>>
      BY <1>6, <1>8, <1>10, EnqueuedIs DEF UploadEffect, Ending
<1>   QED
      BY <1>7, <1>9, <1>10

\* AckComes.
AckEffect(j) ==
    /\ answers # <<>> /\ answers' = Tail(answers) /\ answers[1].what = "ack"
    /\ j.step = "wait" /\ j.op = answers[1].op /\ Ending(j)
    /\ IsEngine(engine') /\ engine'.record = j.v
    /\ \E i \in DOMAIN engine.known : engine'.known = [engine.known EXCEPT ![i] = j.v]
    /\ engine'.ops = {o \in engine.ops : o.id # j.op}
    /\ UNCHANGED <<copy, aside, doc, conn, told, asks, remote, tale>>
\* An answer ends the handler that waits for it and records the version it sent.
LEMMA AckComesIs ==
    ASSUME Shaped, AckComes
    PROVE  \E j \in jobs : AckEffect(j)
<1>1. PICK j \in jobs :
        /\ j.step = "wait" /\ j.op = Head(answers).op
        /\ LET i == IF j.does = "drain" THEN Indexed ELSE j.meta
           IN engine' = Covered(Logged(Updated(Closed(engine, j.op), i, j.v)), j.covers)
        /\ Ending(j)
      BY DEF AckComes
<1>   DEFINE i == IF j.does = "drain" THEN Indexed ELSE j.meta
             c == Closed(engine, j.op)
             u == Updated(c, i, j.v)
<1>2. i \in DOMAIN engine.known /\ j.v \in Nat
      BY DEF Shaped, IsJob, Indexed, IsEngine
<1>3. /\ IsEngine(c) /\ c.known = engine.known /\ c.ops = {o \in engine.ops : o.id # j.op}
      BY ClosedIs DEF Shaped
<1>   HIDE DEF i, c
<1>4. /\ IsEngine(u) /\ u.known = [engine.known EXCEPT ![i] = j.v] /\ u.record = j.v
      /\ u.ops = {o \in engine.ops : o.id # j.op}
      BY <1>2, <1>3, UpdatedIs
<1>5. engine' = Covered(Logged(u), j.covers)
      BY <1>1 DEF i, c
<1>   HIDE DEF u
<1>6. /\ IsEngine(engine') /\ engine'.known = [engine.known EXCEPT ![i] = j.v]
      /\ engine'.record = j.v /\ engine'.ops = {o \in engine.ops : o.id # j.op}
      BY <1>4, <1>5, LoggedIs, CoveredIs
<1>7. Head(answers) = answers[1]
      OBVIOUS
<1>   QED
      BY <1>1, <1>2, <1>6, <1>7 DEF AckComes, AckEffect, Ending

\* UpdateComes and FlowGoesOn: a teammate's version is to be fetched, or not.
FetchBegins == (\E k : Starts(k, "apply", "fetch")) \/ jobs' = jobs
UpdateEffect ==
    /\ FetchBegins /\ answers # <<>> /\ answers' = Tail(answers)
    /\ UNCHANGED <<copy, aside, engine, doc, conn, told, asks, remote, tale>>
\* A teammate's version told of is fetched, or is not due.
LEMMA UpdateComesIs == ASSUME Shaped, UpdateComes PROVE UpdateEffect
BY HandlerIs DEF UpdateComes, FetchBegins, Begins, Starts, UpdateEffect

\* Fetch.
FetchEffect(j) ==
    /\ j.step = "fetch" /\ LogStays
    /\ \/ Ending(j)
       \/ \E k : Becomes(j, k, "compare") /\ k.v = remote.v /\ k.saw = j.saw /\ k.op = j.op
    /\ UNCHANGED <<copy, aside, doc, conn, told, asks, answers, remote, tale>>
\* A fetch takes what the server has now, or ends.
LEMMA FetchIs ==
    ASSUME Shaped, NEW j \in jobs, Fetch(j)
    PROVE  FetchEffect(j)
<1>   DEFINE k == [j EXCEPT !.step = "compare", !.v = remote.v]
<1>1. LogStays
      BY Stays, CoversIs DEF Fetch
<1>2. /\ IsJob(k) /\ k.does = j.does /\ k.step = "compare" /\ k.v = remote.v /\ k.saw = j.saw
      /\ k.op = j.op
      BY DEF Shaped, IsJob, IsRemote
<1>3. Ending(j) \/ Continues(j, k)
      BY DEF Fetch
<1>   HIDE DEF k
<1>   QED
      BY <1>1, <1>2, <1>3 DEF Fetch, FetchEffect, Ending, Continues, Becomes

\* Compare.
CompareEffect(j) ==
    /\ j.step = "compare" /\ TaleStays
    /\ \E k : /\ Becomes(j, k, "ask") \/ Becomes(j, k, "write")
              /\ k.v = j.v /\ k.saw = copy /\ k.op = j.op
              /\ \/ copy = 0 \/ copy = j.v \/ copy = engine.known[j.meta] \/ k.step = "ask"
                 \/ "twice" \in tale'.windows
    /\ UNCHANGED <<copy, aside, engine, doc, conn, told, asks, answers, remote>>
\* Without a question the copy compared is none, the one fetched or the one recorded.
LEMMA CompareIs ==
    ASSUME Shaped, NEW j \in jobs, Compare(j)
    PROVE  CompareEffect(j)
<1>   DEFINE asked == copy # 0 /\ Conflict(engine.known[j.meta], copy, j.v)
             k == [j EXCEPT !.saw = copy, !.step = IF asked THEN "ask" ELSE "write"]
<1>1. Continues(j, k)
      BY DEF Compare
<1>2. /\ IsJob(k) /\ k.does = j.does /\ k.step = (IF asked THEN "ask" ELSE "write")
      /\ k.v = j.v /\ k.saw = copy /\ k.op = j.op
      BY DEF Shaped, IsJob
<1>3. TaleStays /\ (copy # 0 /\ j.v = engine.known[j.meta] => "twice" \in tale'.windows)
      BY MeetsIs DEF Compare
<1>4. ~asked => \/ copy = 0 \/ copy = j.v \/ copy = engine.known[j.meta]
                \/ j.v = engine.known[j.meta]
      BY DEF Conflict
<1>   HIDE DEF asked, k
<1>5. CASE asked
      BY <1>1, <1>2, <1>3, <1>5 DEF Compare, CompareEffect, Continues, Becomes
<1>6. CASE ~asked
      BY <1>1, <1>2, <1>3, <1>4, <1>6 DEF Compare, CompareEffect, Continues, Becomes
<1>   QED
      BY <1>5, <1>6

\* AnswerConflict: the copy here is sent, or the version fetched is written, over the
\* copy or beside it.
GiveUp(t, v) == IF t.mine = v THEN 0 ELSE t.mine
AnswerEffect(j) ==
    /\ j.step = "ask"
    /\ IsTale(tale') /\ tale'.drawn = tale.drawn /\ tale'.had = tale.had
    /\ tale'.windows = tale.windows
    /\ \/ /\ LogStays /\ tale'.mine = tale.mine
          /\ \E k : Becomes(j, k, "load") /\ k.v = j.saw /\ k.saw = j.saw /\ k.op = j.op
       \/ Queues /\ Ending(j) /\ tale'.mine = tale.mine
       \/ /\ LogStays /\ tale'.mine = GiveUp(tale, j.saw)
          /\ \E k : Becomes(j, k, "write") /\ k.v = j.v /\ k.saw = j.saw /\ k.op = j.op
       \/ /\ LogStays /\ tale'.mine = tale.mine
          /\ \E k : /\ Becomes(j, k, "write") /\ k.v = j.v /\ k.saw = j.saw /\ k.op = j.op
                    /\ k.park
    /\ UNCHANGED <<copy, aside, doc, conn, told, asks, answers, remote>>
\* An answer sends the copy compared, gives it up, or has it put aside.
LEMMA AnswerConflictIs ==
    ASSUME Shaped, Ops, NEW j \in jobs, AnswerConflict(j)
    PROVE  AnswerEffect(j)
<1>1. j.step = "ask" /\ UNCHANGED <<copy, aside, doc, conn, told, asks, answers, remote>>
      BY DEF AnswerConflict
<1>2. CASE KeepLocal(j)
  <2>   DEFINE k == [j EXCEPT !.step = "load", !.v = j.saw, !.over = j.v]
  <2>1. /\ IsTale(tale') /\ tale'.drawn = tale.drawn /\ tale'.had = tale.had
        /\ tale'.windows = tale.windows /\ tale'.mine = tale.mine
        BY <1>2 DEF KeepLocal, Shaped, IsTale
  <2>2. /\ IsJob(k) /\ k.does = j.does /\ k.step = "load" /\ k.v = j.saw /\ k.saw = j.saw
        /\ k.op = j.op
        BY DEF Shaped, IsJob
  <2>3. \/ Continues(j, k) /\ engine' = engine
        \/ Ending(j) /\ engine' = Covered(Enqueued(j.v), j.covers)
        BY <1>2 DEF KeepLocal
  <2>   HIDE DEF k
  <2>4. \/ Continues(j, k) /\ LogStays
        \/ Ending(j) /\ Queues
        BY <2>3, Stays, EnqueuedIs
  <2>   QED
        BY <1>1, <2>1, <2>2, <2>4 DEF AnswerEffect, Continues, Becomes, Ending
<1>3. CASE KeepServer(j)
  <2>   DEFINE k == [j EXCEPT !.step = "write"]
  <2>1. /\ IsTale(tale') /\ tale'.drawn = tale.drawn /\ tale'.had = tale.had
        /\ tale'.windows = tale.windows /\ tale'.mine = GiveUp(tale, j.saw)
        BY <1>3 DEF KeepServer, Shaped, IsTale, GiveUp
  <2>2. /\ IsJob(k) /\ k.does = j.does /\ k.step = "write" /\ k.v = j.v /\ k.saw = j.saw
        /\ k.op = j.op
        BY DEF Shaped, IsJob
  <2>   QED
        BY <1>1, <1>3, <2>1, <2>2, Stays DEF KeepServer, AnswerEffect, Continues, Becomes
<1>4. CASE KeepBoth(j)
  <2>   DEFINE k == [j EXCEPT !.step = "write", !.park = TRUE]
  <2>1. /\ IsJob(k) /\ k.does = j.does /\ k.step = "write" /\ k.v = j.v /\ k.saw = j.saw
        /\ k.op = j.op /\ k.park
        BY DEF Shaped, IsJob
  <2>2. IsTale(tale)
        BY DEF Shaped
  <2>   QED
        BY <1>1, <1>4, <2>1, <2>2, Stays DEF KeepBoth, AnswerEffect, Continues, Becomes
<1>   QED
      BY <1>2, <1>3, <1>4 DEF AnswerConflict

\* Commit: the copy is put aside if it is to be, and the record moved.
CommitEffect(j) ==
    /\ j.step = "write" /\ TaleStays
    /\ \/ Ending(j) /\ LogStays /\ UNCHANGED <<copy, aside>>
       \/ /\ IF j.park THEN copy' = 0 /\ aside' = aside \cup {copy} ELSE UNCHANGED <<copy, aside>>
          /\ IsEngine(engine') /\ engine'.record = j.v /\ engine'.ops = engine.ops
          /\ \E i \in DOMAIN engine.known : engine'.known = [engine.known EXCEPT ![i] = j.v]
          /\ \E k : /\ Becomes(j, k, "put") /\ k.v = j.v /\ k.saw = j.saw /\ k.op = j.op
                    /\ k.park = j.park
    /\ UNCHANGED <<doc, conn, told, asks, answers, remote>>
\* The local phase puts the copy aside when it is to, and records what was fetched.
LEMMA CommitIs ==
    ASSUME Shaped, NEW j \in jobs, Commit(j)
    PROVE  CommitEffect(j)
<1>   DEFINE k == [j EXCEPT !.step = "put"]
<1>1. /\ IsJob(k) /\ k.does = j.does /\ k.step = "put" /\ k.v = j.v /\ k.saw = j.saw
      /\ k.op = j.op /\ k.park = j.park
      BY DEF Shaped, IsJob
<1>2. j.meta \in DOMAIN engine.known /\ j.v \in Nat /\ IsEngine(engine)
      BY DEF Shaped, IsJob
<1>3. CASE /\ Ending(j) /\ UNCHANGED <<copy, aside>>
           /\ engine' = Covered(engine, IF j.meta # Indexed THEN j.covers ELSE 0)
           /\ tale' = Meets(tale, j.meta # Indexed /\ j.covers > engine.taken, "outlived")
      BY <1>3, MeetsIs, CoversIs DEF Commit, CommitEffect, Ending
<1>4. CASE /\ IF j.park THEN copy' = 0 /\ aside' = aside \cup {copy}
                          ELSE UNCHANGED <<copy, aside>>
           /\ engine' = Updated(engine, j.meta, j.v) /\ Continues(j, k) /\ tale' = tale
  <2>1. /\ IsEngine(engine') /\ engine'.known = [engine.known EXCEPT ![j.meta] = j.v]
        /\ engine'.record = j.v /\ engine'.ops = engine.ops
        BY <1>2, <1>4, UpdatedIs
  <2>2. \E i \in DOMAIN engine.known : engine'.known = [engine.known EXCEPT ![i] = j.v]
        BY <1>2, <2>1
  <2>3. \E l : /\ Becomes(j, l, "put") /\ l.v = j.v /\ l.saw = j.saw /\ l.op = j.op
              /\ l.park = j.park
        BY <1>1, <1>4 DEF Continues, Becomes
  <2>4. /\ j.step = "write" /\ TaleStays
        /\ UNCHANGED <<doc, conn, told, asks, answers, remote>>
        BY <1>4, Stays DEF Commit
  <2>   QED
        BY <1>4, <2>1, <2>2, <2>3, <2>4 DEF CommitEffect
<1>   QED
      BY <1>3, <1>4 DEF Commit

\* PutCopy.
PutEffect(j) ==
    /\ j.step = "put" /\ copy' = j.v /\ Ending(j) /\ LogStays /\ TaleStays
    /\ copy \in {0, j.saw, j.v} \/ "overlooked" \in tale'.windows
    /\ UNCHANGED <<aside, doc, conn, told, asks, answers, remote>>
\* The write replaces the copy compared, or one saved since is overlooked.
LEMMA PutCopyIs ==
    ASSUME Shaped, NEW j \in jobs, PutCopy(j)
    PROVE  PutEffect(j)
BY MeetsIs, CoversIs DEF PutCopy, PutEffect, Ending

\* ConnectAttachments, JoinAttachments.
ConnEffect(from, to) ==
    /\ conn.at = from /\ IsConn(conn') /\ conn'.at = to
    /\ UNCHANGED <<copy, aside, engine, doc, jobs, told, asks, answers, remote, tale>>
\* A connect touches the connection only,
LEMMA ConnectIs ==
    ASSUME Shaped, ConnectAttachments PROVE ConnEffect("down", "open")
BY DEF ConnectAttachments, ConnEffect, Offline, IsConn
\* and so does the catch-up.
LEMMA JoinIs ==
    ASSUME Shaped, JoinAttachments PROVE ConnEffect("settled", "joined")
BY DEF JoinAttachments, ConnEffect, Shaped, IsConn

\* SettleAttachment: what landed is replaced by an operation that is new.
SettleEffect ==
    /\ conn.at = "open" /\ IsConn(conn') /\ conn'.at = "settled"
    /\ IsEngine(engine')
    /\ \/ /\ IndexStays
          /\ \A o \in engine'.ops : \E p \in engine.ops : o.id = p.id /\ o.live = p.live
          /\ \A p \in engine.ops : \E o \in engine'.ops : o.id = p.id /\ o.live = p.live
          /\ OneEach(engine'.ops)
       \/ /\ \E d \in remote.did, i \in DOMAIN engine.known :
                engine'.record = d.v /\ engine'.known = [engine.known EXCEPT ![i] = d.v]
          /\ OneEach(engine'.ops)
          /\ \A o \in engine'.ops : \/ o.id = NewOp /\ ~o.live
                                    \/ \E p \in engine.ops : o.id = p.id /\ o.live = p.live
          /\ \E o \in engine'.ops : o.id = NewOp /\ ~o.live
    /\ UNCHANGED <<copy, aside, doc, jobs, told, asks, answers, remote, tale>>
\* What landed is recorded, and an operation put in for it that is new.
LEMMA SettleIs ==
    ASSUME Shaped, Ops, SettleAttachment
    PROVE  SettleEffect
<1>   DEFINE landed == {d \in remote.did : \E o \in engine.ops : o.id = d.op /\ o.sent}
             stay == {p \in engine.ops : \A d \in landed : d.op # p.id}
             f(o) == [o EXCEPT !.sent = FALSE]
             left == [engine EXCEPT !.ops = {f(o) : o \in stay}]
             last == CHOOSE d \in landed : \A x \in landed : x.op <= d.op
             n == Operation(NewOp, 0)
             u == Updated(left, Indexed, last.v)
<1>1. /\ conn.at = "open" /\ IsConn(conn') /\ conn'.at = "settled"
      /\ UNCHANGED <<copy, aside, doc, jobs, told, asks, answers, remote, tale>>
      BY DEF SettleAttachment, Shaped, IsConn
<1>2. engine' = IF landed = {} THEN left ELSE Logged([u EXCEPT !.ops = @ \cup {n}])
      BY DEF SettleAttachment, recheckAttachment
<1>3. \A o \in engine.ops : IsOp(f(o)) /\ f(o).id = o.id /\ f(o).live = o.live
      BY DEF Shaped, IsEngine, IsOp
<1>4. OneEach(engine.ops) /\ stay \subseteq engine.ops
      BY DEF Ops
<1>5. left.ops = {f(o) : o \in stay}
      BY DEF Shaped, IsEngine
<1>   HIDE DEF stay
<1>6. /\ IsEngine(left) /\ left.known = engine.known /\ left.record = engine.record
  <2>1. /\ left \in [known : Seq(Nat) \ {<<>>}, record : Nat, taken : {left.taken},
                     logged : {left.logged}, ops : {left.ops}]
        /\ left.known = engine.known /\ left.record = engine.record
        BY DEF Shaped, IsEngine
  <2>   QED
        BY <1>3, <1>4, <1>5, <2>1 DEF IsEngine
<1>   HIDE DEF f, left
<1>7. /\ \A o \in left.ops : \E p \in engine.ops : o.id = p.id /\ o.live = p.live
      /\ OneEach(left.ops)
      BY <1>3, <1>4, <1>5 DEF OneEach
<1>8. CASE landed = {}
  <2>1. stay = engine.ops
        BY <1>8 DEF stay
  <2>2. \A p \in engine.ops : \E o \in left.ops : o.id = p.id /\ o.live = p.live
        BY <2>1, <1>3, <1>5
  <2>   QED
        BY <1>1, <1>2, <1>6, <1>7, <1>8, <2>2 DEF SettleEffect, IndexStays
<1>9. CASE landed # {}
  <2>1. last \in remote.did /\ last.v \in Nat
    <3>1. PICK b \in Nat : \A d \in remote.did : d.op <= b
          BY DEF Ops, Below
    <3>   DEFINE S == {d.op : d \in landed}
    <3>2. S \in SUBSET Nat /\ S # {} /\ \A m \in S : m <= b
          BY <1>9, <3>1 DEF Shaped, IsRemote
    <3>3. PICK x \in S : \A y \in S : y <= x
          BY <3>2, LargestExists
    <3>4. \E d \in landed : \A e \in landed : e.op <= d.op
          BY <3>3
    <3>5. last \in landed
          BY <3>4
    <3>   QED
          BY <3>5 DEF Shaped, IsRemote
  <2>2. Indexed \in DOMAIN engine.known
        BY DEF Indexed, Shaped, IsEngine
  <2>   HIDE DEF last, landed
  <2>3. /\ IsEngine(u) /\ u.known = [engine.known EXCEPT ![Indexed] = last.v]
        /\ u.record = last.v /\ u.ops = left.ops
        BY <1>6, <2>1, <2>2, UpdatedIs
  <2>4. IsOp(n) /\ n.id = NewOp /\ ~n.live
        BY NewOpIsNew, OperationIs
  <2>   DEFINE w == [u EXCEPT !.ops = @ \cup {n}]
  <2>   HIDE DEF u, n
  <2>5. /\ IsEngine(w) /\ w.known = [engine.known EXCEPT ![Indexed] = last.v]
        /\ w.record = last.v /\ w.ops = left.ops \cup {n}
        BY <2>3, <2>4, AddedIs
  <2>6. engine' = Logged(w)
        BY <1>2, <1>9
  <2>   HIDE DEF w
  <2>7. /\ IsEngine(engine') /\ engine'.known = [engine.known EXCEPT ![Indexed] = last.v]
        /\ engine'.record = last.v /\ engine'.ops = left.ops \cup {n}
        BY <2>5, <2>6, LoggedIs
  <2>8. \A o \in left.ops : o.id < NewOp
        BY <1>7, NewOpIsNew
  <2>9. NewOp \in Nat /\ \A o \in left.ops : o.id # n.id
        BY <2>4, <2>8, NewOpIsNew
  <2>10. OneEach(engine'.ops)
        BY <1>7, <2>7, <2>9 DEF OneEach
  <2>11. \E o \in engine'.ops : o.id = NewOp /\ ~o.live
        BY <2>4, <2>7
  <2>12. \A o \in engine'.ops : \/ o.id = NewOp /\ ~o.live
                                \/ \E p \in engine.ops : o.id = p.id /\ o.live = p.live
        BY <1>7, <2>4, <2>7
  <2>   HIDE DEF NewOp
  <2>   QED
        BY <1>1, <2>1, <2>2, <2>7, <2>10, <2>11, <2>12 DEF SettleEffect
<1>   QED
      BY <1>8, <1>9

\* RefreshAttachments: the index is made anew.
RefreshEffect ==
    /\ conn.at = "joined" /\ IsConn(conn') /\ conn'.at = "rows"
    /\ IsEngine(engine') /\ engine'.known = Append(engine.known, engine.record)
    /\ engine'.record = engine.record /\ engine'.ops = engine.ops
    /\ UNCHANGED <<copy, aside, doc, jobs, told, asks, answers, remote, tale>>
\* A refresh makes a new entry from the log, and leaves the log alone.
LEMMA RefreshIs ==
    ASSUME Shaped, RefreshAttachments
    PROVE  RefreshEffect
<1>   DEFINE g == Covered(engine, IF conn.cut THEN conn.covers ELSE 0)
<1>1. /\ IsEngine(g) /\ g.known = engine.known /\ g.record = engine.record
      /\ g.ops = engine.ops
      BY CoveredIs DEF Shaped
<1>2. engine' = [g EXCEPT !.known = Append(@, engine.record)]
      BY DEF RefreshAttachments
<1>3. Append(engine.known, engine.record) \in Seq(Nat) \ {<<>>}
      BY DEF Shaped, IsEngine
<1>   HIDE DEF g
<1>4. /\ IsEngine(engine') /\ engine'.known = Append(engine.known, engine.record)
      /\ engine'.record = engine.record /\ engine'.ops = engine.ops
      BY <1>1, <1>2, <1>3 DEF IsEngine
<1>5. conn.at = "joined" /\ IsConn(conn') /\ conn'.at = "rows"
      BY DEF RefreshAttachments, Shaped, IsConn
<1>   QED
      BY <1>4, <1>5 DEF RefreshAttachments, RefreshEffect

\* FlowGoesOn.
FlowEffect ==
    /\ conn.at = "rows" /\ IsConn(conn') /\ conn'.at \in {"rows", "up"}
    /\ LogStays /\ FetchBegins
    /\ UNCHANGED <<copy, aside, doc, told, asks, answers, remote, tale>>
\* A row begins a fetch at most, and leaves the index and the log alone.
LEMMA FlowGoesOnIs ==
    ASSUME Shaped, FlowGoesOn
    PROVE  FlowEffect
<1>1. conn.at = "rows" /\ UNCHANGED <<copy, aside, doc, told, asks, answers, remote, tale>>
      BY DEF FlowGoesOn
<1>2. IsConn(conn') /\ conn'.at \in {"rows", "up"}
      BY DEF FlowGoesOn, Shaped, IsConn
<1>3. LogStays
  <2>1. engine' = Logged(engine) => LogStays
        BY LoggedIs DEF Shaped, LogStays, IndexStays
  <2>   QED
        BY <2>1, Stays, CoversIs DEF FlowGoesOn
<1>4. FetchBegins
  <2>1. ASSUME Begins([Handler("apply", "fetch", 0) EXCEPT !.flow = TRUE, !.covers = conn.covers])
        PROVE  FetchBegins
    <3>   DEFINE h == Handler("apply", "fetch", 0)
                 k == [h EXCEPT !.flow = TRUE, !.covers = conn.covers]
    <3>1. IsJob(h) /\ h.does = "apply" /\ h.step = "fetch" /\ h.v = 0 /\ h.saw = 0
          BY HandlerIs
    <3>2. jobs' = jobs \cup {k}
          BY <2>1 DEF Begins
    <3>   HIDE DEF h
    <3>3. IsJob(k) /\ k.does = "apply" /\ k.step = "fetch" /\ k.v = 0 /\ k.saw = 0
          BY <3>1 DEF IsJob
    <3>   QED
          BY <3>2, <3>3 DEF FetchBegins, Starts
  <2>   QED
        BY <2>1 DEF FlowGoesOn, FetchBegins
<1>   QED
      BY <1>1, <1>2, <1>3, <1>4 DEF FlowEffect

\* DrainAttachments: an operation that waits goes, or is sent.
DrainEffect(o) ==
    /\ conn.at = "up" /\ (\A j \in jobs : j.does # "drain")
    /\ o \in engine.ops /\ ~o.live
    /\ \/ /\ copy \in {0, engine.known[Indexed]} /\ jobs' = jobs
          /\ IndexStays /\ engine'.ops = {p \in engine.ops : p.id # o.id}
       \/ LogStays /\ \E k : Starts(k, "drain", "load") /\ k.v = copy /\ k.op = o.id
    /\ UNCHANGED <<copy, aside, doc, conn, told, asks, answers, remote, tale>>
\* The drain closes an operation of a copy with nothing to send, or sends the copy.
LEMMA DrainIs ==
    ASSUME Shaped, DrainAttachments
    PROVE  \E o \in engine.ops : DrainEffect(o)
<1>1. PICK o \in engine.ops :
        /\ ~o.live
        /\ IF copy \in {0, engine.known[Indexed]}
           THEN engine' = Closed(engine, o.id) /\ UNCHANGED jobs
           ELSE /\ Begins([Handler("drain", "load", copy) EXCEPT !.op = o.id, !.over = o.over])
                /\ UNCHANGED engine
      BY DEF DrainAttachments
<1>2. /\ conn.at = "up" /\ \A j \in jobs : j.does # "drain"
      /\ UNCHANGED <<copy, aside, doc, conn, told, asks, answers, remote, tale>>
      BY DEF DrainAttachments
<1>3. CASE copy \in {0, engine.known[Indexed]}
  <2>1. IndexStays /\ engine'.ops = {p \in engine.ops : p.id # o.id}
        BY <1>1, <1>3, ClosedIs DEF Shaped, IndexStays
  <2>   QED
        BY <1>1, <1>2, <1>3, <2>1 DEF DrainEffect
<1>4. CASE copy \notin {0, engine.known[Indexed]}
  <2>   DEFINE h == Handler("drain", "load", copy)
               k == [h EXCEPT !.op = o.id, !.over = o.over]
  <2>1. /\ IsJob(h) /\ h.does = "drain" /\ h.step = "load" /\ h.v = copy /\ h.saw = 0
        BY HandlerIs DEF Shaped
  <2>2. jobs' = jobs \cup {k} /\ LogStays
        BY <1>1, <1>4, Stays DEF Begins
  <2>   HIDE DEF h
  <2>3. /\ IsJob(k) /\ k.does = "drain" /\ k.step = "load" /\ k.v = copy /\ k.saw = 0
        /\ k.op = o.id
        BY <2>1 DEF IsJob, Shaped, IsEngine, IsOp
  <2>   QED
        BY <1>1, <1>2, <2>2, <2>3 DEF DrainEffect, Starts
<1>   QED
      BY <1>3, <1>4

\* ServerTakesUpdate.
TakeEffect ==
    /\ asks # <<>> /\ asks' = Tail(asks) /\ IsRemote(remote')
    /\ LET p == asks[1] IN
       /\ \E a \in Answer : /\ a.what = "ack" /\ a.op = p.op /\ a.v = p.v
                            /\ answers' = Append(answers, a)
       /\ remote'.v = p.v
       /\ \E d : d.op = p.op /\ d.v = p.v /\ remote'.did = remote.did \cup {d}
       /\ tale'.had = tale.had \cup {p.v}
    /\ IsTale(tale') /\ tale'.drawn = tale.drawn /\ tale'.mine = tale.mine
    /\ tale'.windows = tale.windows
    /\ UNCHANGED <<copy, aside, engine, doc, jobs, conn, told>>
\* The server takes the first packet's version and answers it.
LEMMA ServerTakesUpdateIs ==
    ASSUME Shaped, ServerTakesUpdate
    PROVE  TakeEffect
<1>   DEFINE p == asks[1]
             a == [what |-> "ack", op |-> p.op, v |-> p.v]
             d == [op |-> p.op, v |-> p.v]
<1>1. asks # <<>> /\ asks' = Tail(asks) /\ Head(asks) = p /\ p \in Packet
      BY DEF ServerTakesUpdate, Shaped
<1>2. p.op \in Nat /\ p.v \in Nat
      BY <1>1 DEF Packet
<1>3. /\ answers' = Append(answers, a)
      /\ remote' = [remote EXCEPT !.v = p.v, !.did = @ \cup {d}]
      BY <1>1 DEF ServerTakesUpdate
<1>4. PICK unasked : tale' = [tale EXCEPT !.had = @ \cup {p.v}, !.unasked = unasked]
      BY <1>1 DEF ServerTakesUpdate
<1>5. a \in Answer /\ a.what = "ack" /\ a.op = p.op /\ a.v = p.v /\ d.op = p.op /\ d.v = p.v
      BY <1>2 DEF Answer
<1>6. IsRemote(remote') /\ remote'.v = p.v /\ remote'.did = remote.did \cup {d}
  <2>1. IsRemote(remote) /\ d \in [op : Nat, v : Nat]
        BY <1>2 DEF Shaped
  <2>   HIDE DEF p, d
  <2>   QED
        BY <1>2, <1>3, <2>1 DEF IsRemote
<1>7. /\ IsTale(tale') /\ tale'.drawn = tale.drawn /\ tale'.mine = tale.mine
      /\ tale'.windows = tale.windows /\ tale'.had = tale.had \cup {p.v}
  <2>1. IsTale(tale)
        BY DEF Shaped
  <2>   HIDE DEF p
  <2>   QED
        BY <1>2, <1>4, <2>1 DEF IsTale
<1>8. UNCHANGED <<copy, aside, engine, doc, jobs, conn, told>>
      BY DEF ServerTakesUpdate
<1>   HIDE DEF p, a, d
<1>   QED
      BY <1>1, <1>3, <1>5, <1>6, <1>7, <1>8 DEF TakeEffect, p

\* TheirSave.
TheirEffect ==
    /\ IsRemote(remote') /\ remote'.v = tale.drawn + 1 /\ remote'.did = remote.did
    /\ IsTale(tale') /\ tale'.drawn = tale.drawn + 1 /\ tale'.mine = tale.mine
    /\ tale'.had = tale.had \cup {tale.drawn + 1} /\ tale'.windows = tale.windows
    /\ \/ answers' = answers
       \/ \E a \in Answer : a.what = "updated" /\ answers' = Append(answers, a)
    /\ UNCHANGED <<copy, aside, engine, doc, jobs, conn, told, asks>>
\* A teammate's version is new, and the server's.
LEMMA TheirSaveIs ==
    ASSUME Shaped, TheirSave
    PROVE  TheirEffect
<1>   DEFINE v == tale.drawn + 1
             a == [what |-> "updated", v |-> v]
<1>1. v \in Nat
      BY DEF Shaped, IsTale
<1>2. /\ remote' = [remote EXCEPT !.v = v, !.last = v, !.count = @ + 1]
      /\ tale' = [tale EXCEPT !.drawn = v, !.had = @ \cup {v}]
      /\ answers' \in {answers, Append(answers, a)}
      /\ UNCHANGED <<copy, aside, engine, doc, jobs, conn, told, asks>>
      BY DEF TheirSave
<1>3. a \in Answer /\ a.what = "updated"
      BY <1>1 DEF Answer
<1>   HIDE DEF v, a
<1>4. IsRemote(remote') /\ remote'.v = v /\ remote'.did = remote.did
  <2>   DEFINE m == remote.count + 1
  <2>1. IsRemote(remote)
        BY DEF Shaped
  <2>2. remote.count \in Nat
        BY <2>1 DEF IsRemote
  <2>3. m \in Nat
        BY <2>2
  <2>4. remote' = [remote EXCEPT !.v = v, !.last = v, !.count = m]
        BY <1>2
  <2>   HIDE DEF m
  <2>   QED
        BY <1>1, <2>1, <2>3, <2>4 DEF IsRemote
<1>5. /\ IsTale(tale') /\ tale'.drawn = v /\ tale'.mine = tale.mine
      /\ tale'.had = tale.had \cup {v} /\ tale'.windows = tale.windows
      BY <1>1, <1>2 DEF Shaped, IsTale
<1>   QED
      BY <1>2, <1>3, <1>4, <1>5 DEF TheirEffect, v

\* AttachmentsDrop: what waits goes back into the queue.
DropEffect ==
    /\ IsConn(conn') /\ conn'.at = "down" /\ asks' = <<>> /\ answers' = <<>>
    /\ IndexStays
    /\ \A o \in engine'.ops : ~o.live /\ \E p \in engine.ops : o.id = p.id
    /\ \A p \in engine.ops : \E o \in engine'.ops : o.id = p.id
    /\ OneEach(engine'.ops)
    /\ \A k \in jobs' : /\ IsJob(k) /\ k.step # "wait" /\ k.does # "drain"
                        /\ \E j \in jobs : /\ k.step = j.step /\ k.does = j.does /\ k.v = j.v
                                           /\ k.saw = j.saw /\ k.park = j.park
    /\ \A j \in jobs : j.step # "wait" /\ j.does # "drain" =>
            \E k \in jobs' : k.step = j.step /\ k.v = j.v
    /\ TaleStays /\ UNCHANGED <<copy, aside, doc, told, remote>>
\* A drop ends those that wait and the drain, and queues their operations again.
LEMMA AttachmentsDropIs ==
    ASSUME Shaped, Ops, AttachmentsDrop
    PROVE  DropEffect
<1>   DEFINE f(o) == [o EXCEPT !.live = FALSE]
             h(j) == [j EXCEPT !.flow = FALSE]
             stay == {j \in jobs : j.step # "wait" /\ j.does # "drain"}
<1>1. PICK n : engine' = [Covered(engine, n) EXCEPT !.ops = {f(o) : o \in @}]
      BY DEF AttachmentsDrop
<1>2. \A o \in engine.ops : IsOp(f(o)) /\ f(o).id = o.id /\ ~f(o).live
      BY DEF Shaped, IsEngine, IsOp
<1>3. \A j \in jobs : /\ IsJob(h(j)) /\ h(j).step = j.step /\ h(j).does = j.does /\ h(j).v = j.v
                      /\ h(j).saw = j.saw /\ h(j).park = j.park
      BY DEF Shaped, IsJob
<1>4. jobs' = {h(j) : j \in stay}
      BY DEF AttachmentsDrop
<1>5. /\ IsConn(conn') /\ conn'.at = "down" /\ asks' = <<>> /\ answers' = <<>>
      /\ UNCHANGED <<copy, aside, doc, told, remote>>
      BY DEF AttachmentsDrop, Offline, IsConn
<1>6. TaleStays
      BY MeetsIs DEF AttachmentsDrop
<1>   HIDE DEF f, h
<1>7. IndexStays /\ engine'.ops = {f(o) : o \in engine.ops}
  <2>   DEFINE c == Covered(engine, n)
  <2>1. IsEngine(c) /\ c.known = engine.known /\ c.record = engine.record /\ c.ops = engine.ops
        BY CoveredIs DEF Shaped
  <2>   HIDE DEF c
  <2>2. engine' = [c EXCEPT !.ops = {f(o) : o \in @}]
        BY <1>1 DEF c
  <2>3. engine'.ops = {f(o) : o \in engine.ops}
        BY <2>1, <2>2 DEF IsEngine
  <2>4. /\ engine' \in [known : Seq(Nat) \ {<<>>}, record : Nat, taken : {engine'.taken},
                        logged : {engine'.logged}, ops : {engine'.ops}]
        /\ engine'.known = engine.known /\ engine'.record = engine.record
        BY <2>1, <2>2 DEF IsEngine
  <2>   QED
        BY <1>2, <2>3, <2>4 DEF IndexStays, IsEngine
<1>8. OneEach(engine'.ops)
      BY <1>2, <1>7 DEF Ops, OneEach
<1>   QED
      BY <1>2, <1>3, <1>4, <1>5, <1>6, <1>7, <1>8 DEF DropEffect

\* PersistAttachments, AttachmentsCrash.
PersistEffect ==
    /\ doc' = Written(engine) /\ TaleStays
    /\ UNCHANGED <<copy, aside, engine, jobs, conn, told, asks, answers, remote>>
\* A write of state.json writes what is in memory.
LEMMA PersistIs ==
    ASSUME Shaped, PersistAttachments
    PROVE  PersistEffect
BY MeetsIs DEF PersistAttachments, PersistEffect
CrashEffect ==
    /\ IsEngine(engine') /\ engine'.known = <<doc.record>> /\ engine'.record = doc.record
    /\ engine'.ops = doc.ops /\ jobs' = {} /\ ~told' /\ IsConn(conn') /\ conn'.at = "down"
    /\ asks' = <<>> /\ answers' = <<>> /\ TaleStays
    /\ copy # doc.record /\ doc.ops = {} => "untold" \in tale'.windows
    /\ UNCHANGED <<copy, aside, doc, remote>>
\* After a crash there is what state.json holds, and a save it does not tell of is a window.
LEMMA CrashIs ==
    ASSUME Shaped, AttachmentsCrash
    PROVE  CrashEffect
<1>1. IsDoc(doc) /\ engine' = Loaded(doc)
      BY DEF Shaped, AttachmentsCrash
<1>2. IsConn(conn') /\ conn'.at = "down"
      BY DEF AttachmentsCrash, Offline, IsConn
<1>   QED
      BY <1>1, <1>2, LoadedIs, MeetsIs DEF AttachmentsCrash, CrashEffect
-----------------------------------------------------------------------------
\* A step, by what it does.
HandlerEffect(j) ==
    \/ LookEffect(j) \/ UploadEffect(j) \/ AckEffect(j) \/ FetchEffect(j) \/ CompareEffect(j)
    \/ AnswerEffect(j) \/ CommitEffect(j) \/ PutEffect(j)
FlowEffects ==
    \/ ConnEffect("down", "open") \/ SettleEffect \/ ConnEffect("settled", "joined")
    \/ RefreshEffect \/ FlowEffect
Effect ==
    \/ SaveEffect \/ TellEffect \/ UpdateEffect
    \/ \E j \in jobs : HandlerEffect(j)
    \/ FlowEffects \/ \E o \in engine.ops : DrainEffect(o)
    \/ TakeEffect \/ TheirEffect \/ DropEffect \/ PersistEffect \/ CrashEffect
    \/ UNCHANGED avars
\* Each action has its effect.
LEMMA NextIs ==
    ASSUME Shaped, Ops, [AttachmentsNext]_avars
    PROVE  Effect
<1>   USE DEF Effect
<1>1. CASE \E j \in jobs : \/ LookAtSave(j) \/ Upload(j) \/ Fetch(j) \/ Compare(j)
                           \/ AnswerConflict(j) \/ Commit(j) \/ PutCopy(j)
      BY <1>1, LookAtSaveIs, UploadIs, FetchIs, CompareIs, AnswerConflictIs, CommitIs, PutCopyIs
         DEF HandlerEffect
<1>2. CASE AckComes
      BY <1>2, AckComesIs DEF HandlerEffect
<1>3. CASE \/ ConnectAttachments \/ SettleAttachment \/ JoinAttachments \/ RefreshAttachments
           \/ FlowGoesOn
      BY <1>3, ConnectIs, SettleIs, JoinIs, RefreshIs, FlowGoesOnIs DEF FlowEffects
<1>4. CASE SaveCopy \/ TellSave \/ UpdateComes
      BY <1>4, SaveCopyIs, TellSaveIs, UpdateComesIs
<1>5. CASE \/ DrainAttachments \/ ServerTakesUpdate \/ TheirSave
           \/ AttachmentsDrop \/ PersistAttachments \/ AttachmentsCrash
      BY <1>5, DrainIs, ServerTakesUpdateIs, TheirSaveIs, AttachmentsDropIs, PersistIs, CrashIs
<1>   QED
      BY <1>1, <1>2, <1>3, <1>4, <1>5 DEF AttachmentsNext

-----------------------------------------------------------------------------
\* Types.
HandlersStay ==
    \/ jobs' = {}
    \/ DOMAIN engine.known \subseteq DOMAIN engine'.known /\ \A k \in jobs' : IsJob(k)
DiskTyped == copy' \in Nat /\ aside' \subseteq Nat /\ IsDoc(doc') /\ IsTale(tale')
WireTyped == IsConn(conn') /\ IsRemote(remote') /\ asks' \in Seq(Packet) /\ answers' \in Seq(Answer)
\* Every step keeps the types.
LEMMA ShapedNext ==
    ASSUME Shaped, Ops, Effect
    PROVE  Shaped'
<1>   DEFINE E == DOMAIN engine.known \subseteq DOMAIN engine'.known
<1>1. /\ copy \in Nat /\ aside \subseteq Nat /\ IsDoc(doc) /\ IsTale(tale) /\ IsConn(conn)
      /\ IsRemote(remote) /\ asks \in Seq(Packet) /\ answers \in Seq(Answer) /\ IsEngine(engine)
      /\ \A j \in jobs : IsJob(j)
      BY DEF Shaped
<1>2. \A j \in jobs : j.v \in Nat /\ j.saw \in Nat
      BY <1>1 DEF IsJob
<1>3. \A k : /\ (\A does, step : Starts(k, does, step) => \A l \in jobs' : IsJob(l))
             /\ (\A j, step : Becomes(j, k, step) => \A l \in jobs' : IsJob(l))
      BY <1>1 DEF Starts, Becomes
<1>4. /\ \A j : Ending(j) => \A k \in jobs' : IsJob(k)
      /\ FetchBegins => \A k \in jobs' : IsJob(k)
      BY <1>1, <1>3 DEF Ending, FetchBegins
<1>5. /\ IndexStays => IsEngine(engine') /\ E
      /\ LogStays \/ Queues => IsEngine(engine') /\ E
      BY DEF LogStays, Queues, IndexStays
<1>6. \A i, v : engine'.known = [engine.known EXCEPT ![i] = v] => E
      BY <1>1 DEF IsEngine
<1>7. TaleStays => IsTale(tale')
      BY DEF TaleStays
<1>   HIDE DEF E
<1>8. ASSUME HandlersStay, DiskTyped, WireTyped, IsEngine(engine')
      PROVE  Shaped'
  <2>1. \A j \in jobs' : IsJob(j)'
        BY <1>8 DEF HandlersStay, IsJob
  <2>   QED
        BY <1>8, <2>1 DEF Shaped, DiskTyped, WireTyped
<1>9. CASE SaveEffect
      BY <1>1, <1>8, <1>9 DEF SaveEffect, HandlersStay, DiskTyped, WireTyped
<1>10. CASE TellEffect
      BY <1>1, <1>3, <1>8, <1>10 DEF TellEffect, HandlersStay, DiskTyped, WireTyped
<1>11. CASE UpdateEffect
  <2>1. Tail(answers) \in Seq(Answer)
        BY <1>1, <1>11 DEF UpdateEffect
  <2>   QED
        BY <1>1, <1>4, <1>8, <1>11, <2>1 DEF UpdateEffect, HandlersStay, DiskTyped, WireTyped
<1>12. ASSUME NEW j \in jobs, HandlerEffect(j)
       PROVE  Shaped'
  <2>1. CASE LookEffect(j)
        BY <1>1, <1>3, <1>4, <1>5, <1>8, <2>1
           DEF LookEffect, HandlersStay, DiskTyped, WireTyped, E
  <2>2. CASE UploadEffect(j)
    <3>1. CASE \E op : SendEffect(j, op)
      <4>1. PICK op : SendEffect(j, op)
            BY <3>1
      <4>2. PICK p \in Packet : asks' = Append(asks, p)
            BY <4>1 DEF SendEffect
      <4>3. asks' \in Seq(Packet)
            BY <1>1, <4>2
      <4>4. IsEngine(engine') /\ E
            BY <1>5, <4>1 DEF SendEffect
      <4>5. IsDoc(doc')
        <5>1. OneEach(engine'.ops)
              BY <4>1 DEF Ops, OneEach, SendEffect
        <5>2. IsDoc(Written(engine'))
              BY <4>4, <5>1, WrittenIs
        <5>3. doc' = doc \/ doc' = Written(engine')
              BY <4>1 DEF SendEffect
        <5>   QED
              BY <1>1, <5>2, <5>3
      <4>   QED
            BY <1>1, <1>3, <1>7, <1>8, <2>2, <4>1, <4>3, <4>4, <4>5
               DEF UploadEffect, SendEffect, HandlersStay, DiskTyped, WireTyped, E
    <3>2. CASE Queues /\ Ending(j) /\ UNCHANGED <<asks, doc>>
          BY <1>1, <1>4, <1>5, <1>7, <1>8, <2>2, <3>2
             DEF UploadEffect, HandlersStay, DiskTyped, WireTyped, E
    <3>   QED
          BY <2>2, <3>1, <3>2 DEF UploadEffect
  <2>3. CASE AckEffect(j)
    <3>1. Tail(answers) \in Seq(Answer)
          BY <1>1, <2>3 DEF AckEffect
    <3>2. E
          BY <1>6, <2>3 DEF AckEffect
    <3>   QED
          BY <1>1, <1>4, <1>8, <2>3, <3>1, <3>2
             DEF AckEffect, HandlersStay, DiskTyped, WireTyped, E
  <2>4. CASE FetchEffect(j)
        BY <1>1, <1>3, <1>4, <1>5, <1>8, <2>4
           DEF FetchEffect, HandlersStay, DiskTyped, WireTyped, E
  <2>5. CASE CompareEffect(j)
        BY <1>1, <1>3, <1>7, <1>8, <2>5
           DEF CompareEffect, HandlersStay, DiskTyped, WireTyped
  <2>6. CASE AnswerEffect(j)
        BY <1>1, <1>3, <1>4, <1>5, <1>8, <2>6
           DEF AnswerEffect, HandlersStay, DiskTyped, WireTyped, E
  <2>7. CASE CommitEffect(j)
    <3>1. IsEngine(engine') /\ E
          BY <1>5, <1>6, <2>7 DEF CommitEffect
    <3>2. \A k \in jobs' : IsJob(k)
          BY <1>3, <1>4, <2>7 DEF CommitEffect
    <3>3. copy' \in Nat /\ aside' \subseteq Nat
      <4>1. \/ copy' = copy /\ aside' = aside
            \/ copy' = 0 /\ aside' = aside \cup {copy}
        <5>1. \/ Ending(j) /\ LogStays /\ UNCHANGED <<copy, aside>>
              \/ IF j.park THEN copy' = 0 /\ aside' = aside \cup {copy}
                           ELSE UNCHANGED <<copy, aside>>
              BY <2>7, Zenon DEF CommitEffect
        <5>   QED
              BY <5>1
      <4>2. aside \cup {copy} \subseteq Nat /\ aside \subseteq Nat /\ copy \in Nat /\ 0 \in Nat
            BY <1>1
      <4>3. CASE copy' = copy /\ aside' = aside
            BY <4>2, <4>3
      <4>4. CASE copy' = 0 /\ aside' = aside \cup {copy}
            BY <4>2, <4>4
      <4>   QED
            BY <4>1, <4>3, <4>4
    <3>4. IsTale(tale') /\ UNCHANGED <<doc, conn, told, asks, answers, remote>>
          BY <1>7, <2>7 DEF CommitEffect
    <3>5. HandlersStay
          BY <3>1, <3>2 DEF HandlersStay, E
    <3>6. DiskTyped /\ WireTyped
          BY <1>1, <3>3, <3>4 DEF DiskTyped, WireTyped
    <3>   QED
          BY <1>8, <3>1, <3>5, <3>6
  <2>8. CASE PutEffect(j)
        BY <1>1, <1>2, <1>4, <1>5, <1>7, <1>8, <2>8
           DEF PutEffect, HandlersStay, DiskTyped, WireTyped, E
  <2>   QED
        BY <1>12, <2>1, <2>2, <2>3, <2>4, <2>5, <2>6, <2>7, <2>8 DEF HandlerEffect
<1>13. CASE FlowEffects
  <2>1. CASE ConnEffect("down", "open") \/ ConnEffect("settled", "joined")
        BY <1>1, <1>8, <2>1 DEF ConnEffect, HandlersStay, DiskTyped, WireTyped
  <2>2. CASE SettleEffect
    <3>1. E
      <4>1. CASE \E d \in remote.did, i \in DOMAIN engine.known :
                    engine'.record = d.v /\ engine'.known = [engine.known EXCEPT ![i] = d.v]
            BY <1>6, <4>1
      <4>2. CASE IndexStays
            BY <1>5, <4>2
      <4>   QED
            BY <2>2, <4>1, <4>2 DEF SettleEffect
    <3>2. /\ IsEngine(engine') /\ IsConn(conn')
          /\ UNCHANGED <<copy, aside, doc, jobs, told, asks, answers, remote, tale>>
          BY <2>2 DEF SettleEffect
    <3>3. HandlersStay
          BY <1>1, <3>1, <3>2 DEF HandlersStay, E
    <3>4. DiskTyped /\ WireTyped
          BY <1>1, <3>2 DEF DiskTyped, WireTyped
    <3>   QED
          BY <1>8, <3>2, <3>3, <3>4
  <2>3. CASE RefreshEffect
    <3>1. E
          BY <1>1, <2>3 DEF RefreshEffect, IsEngine, E
    <3>   QED
          BY <1>1, <1>8, <2>3, <3>1 DEF RefreshEffect, HandlersStay, DiskTyped, WireTyped, E
  <2>4. CASE FlowEffect
        BY <1>1, <1>4, <1>5, <1>8, <2>4 DEF FlowEffect, HandlersStay, DiskTyped, WireTyped, E
  <2>   QED
        BY <1>13, <2>1, <2>2, <2>3, <2>4 DEF FlowEffects
<1>14. ASSUME NEW o \in engine.ops, DrainEffect(o)
       PROVE  Shaped'
      BY <1>1, <1>3, <1>5, <1>8, <1>14 DEF DrainEffect, HandlersStay, DiskTyped, WireTyped, E
<1>15. CASE TakeEffect
  <2>1. PICK a \in Answer : answers' = Append(answers, a)
        BY <1>15 DEF TakeEffect
  <2>2. answers' \in Seq(Answer) /\ asks' \in Seq(Packet)
        BY <1>1, <1>15, <2>1 DEF TakeEffect
  <2>   QED
        BY <1>1, <1>8, <1>15, <2>2 DEF TakeEffect, HandlersStay, DiskTyped, WireTyped
<1>16. CASE TheirEffect
  <2>1. answers' \in Seq(Answer)
    <3>1. CASE answers' = answers
          BY <1>1, <3>1
    <3>2. CASE \E a \in Answer : a.what = "updated" /\ answers' = Append(answers, a)
      <4>1. PICK a \in Answer : answers' = Append(answers, a)
            BY <3>2
      <4>   QED
            BY <1>1, <4>1
    <3>   QED
          BY <1>16, <3>1, <3>2 DEF TheirEffect
  <2>   QED
        BY <1>1, <1>8, <1>16, <2>1 DEF TheirEffect, HandlersStay, DiskTyped, WireTyped
<1>17. CASE DropEffect
  <2>1. asks' \in Seq(Packet) /\ answers' \in Seq(Answer)
        BY <1>17 DEF DropEffect
  <2>   QED
        BY <1>1, <1>5, <1>7, <1>8, <1>17, <2>1
           DEF DropEffect, HandlersStay, DiskTyped, WireTyped, E
<1>18. CASE PersistEffect
      BY <1>1, <1>7, <1>8, <1>18, WrittenIs
         DEF PersistEffect, HandlersStay, DiskTyped, WireTyped, Ops
<1>19. CASE CrashEffect
  <2>1. asks' \in Seq(Packet) /\ answers' \in Seq(Answer)
        BY <1>19 DEF CrashEffect
  <2>   QED
        BY <1>1, <1>7, <1>8, <1>19, <2>1 DEF CrashEffect, HandlersStay, DiskTyped, WireTyped
<1>20. CASE UNCHANGED avars
      BY <1>1, <1>8, <1>20 DEF avars, HandlersStay, DiskTyped, WireTyped
<1>   QED
      BY <1>9, <1>10, <1>11, <1>12, <1>13, <1>14, <1>15, <1>16, <1>17, <1>18, <1>19, <1>20
         DEF Effect
-----------------------------------------------------------------------------
\* What each part of the state is changed by.
LEMMA CopyFrame ==
    ASSUME Effect
    PROVE  \/ copy' = copy /\ aside' = aside
           \/ SaveEffect
           \/ \E j \in jobs : CommitEffect(j) \/ PutEffect(j)
BY DEF Effect, HandlerEffect, FlowEffects, TellEffect, UpdateEffect, LookEffect, UploadEffect,
       AckEffect, FetchEffect, CompareEffect, AnswerEffect, ConnEffect, SettleEffect,
       RefreshEffect, FlowEffect, DrainEffect, TakeEffect, TheirEffect, DropEffect,
       PersistEffect, CrashEffect, avars
\* The versions told of change with a save, an answer to the prompt, and on the server.
LEMMA TaleFrame ==
    ASSUME Shaped, Effect
    PROVE  \/ TaleStays
           \/ SaveEffect
           \/ \E j \in jobs : AnswerEffect(j)
           \/ TakeEffect \/ TheirEffect
<1>   USE Stays
<1>1. ASSUME NEW j \in jobs, HandlerEffect(j)
      PROVE  TaleStays \/ AnswerEffect(j)
      BY <1>1 DEF HandlerEffect, LookEffect, UploadEffect, AckEffect, FetchEffect,
         CompareEffect, CommitEffect, PutEffect
<1>2. FlowEffects => TaleStays
      BY DEF FlowEffects, ConnEffect, SettleEffect, RefreshEffect, FlowEffect
<1>   QED
      BY <1>1, <1>2 DEF Effect, TellEffect, UpdateEffect, DrainEffect, DropEffect, PersistEffect,
         CrashEffect, avars
\* The wire and the server change with what is sent, taken and answered.
LEMMA WireFrame ==
    ASSUME Effect
    PROVE  /\ \/ asks' = asks \/ asks' = <<>> \/ TakeEffect
              \/ \E j \in jobs : UploadEffect(j) /\ \E op : SendEffect(j, op)
           /\ \/ answers' = answers \/ answers' = <<>> \/ TakeEffect \/ TheirEffect \/ UpdateEffect
              \/ \E j \in jobs : AckEffect(j)
           /\ remote' = remote \/ TakeEffect \/ TheirEffect
<1>1. ASSUME NEW j \in jobs, HandlerEffect(j)
      PROVE  /\ remote' = remote
             /\ answers' = answers \/ AckEffect(j)
             /\ asks' = asks \/ (UploadEffect(j) /\ \E op : SendEffect(j, op))
      BY <1>1 DEF HandlerEffect, LookEffect, UploadEffect, FetchEffect, AckEffect,
         CompareEffect, AnswerEffect, CommitEffect, PutEffect
<1>2. FlowEffects => UNCHANGED <<asks, answers, remote>>
      BY DEF FlowEffects, ConnEffect, SettleEffect, RefreshEffect, FlowEffect
<1>   QED
      BY <1>1, <1>2 DEF Effect, SaveEffect, TellEffect, UpdateEffect, TheirEffect, DrainEffect,
         DropEffect, PersistEffect, CrashEffect, avars
\* The index changes with an answer, a commit, a settle, a refresh and a start.
LEMMA IndexFrame ==
    ASSUME Shaped, Effect
    PROVE  \/ IndexStays
           \/ \E j \in jobs : AckEffect(j) \/ CommitEffect(j)
           \/ SettleEffect \/ RefreshEffect \/ CrashEffect
<1>1. engine' = engine \/ LogStays \/ Queues => IndexStays
      BY Stays DEF LogStays, Queues
<1>2. ASSUME NEW j \in jobs, HandlerEffect(j)
      PROVE  IndexStays \/ AckEffect(j) \/ CommitEffect(j)
      BY <1>1, <1>2 DEF HandlerEffect, LookEffect, UploadEffect, SendEffect, FetchEffect,
         CompareEffect, AnswerEffect, PutEffect
<1>3. FlowEffects => IndexStays \/ SettleEffect \/ RefreshEffect
      BY <1>1 DEF FlowEffects, ConnEffect, FlowEffect
<1>   QED
      BY <1>1, <1>2, <1>3 DEF Effect, SaveEffect, TellEffect, UpdateEffect, DrainEffect,
         TakeEffect, TheirEffect, DropEffect, PersistEffect, avars
\* state.json gets what is in memory.
LEMMA DocFrame ==
    ASSUME Effect
    PROVE  doc' = doc \/ doc' = Written(engine')
<1>1. ASSUME NEW j \in jobs, HandlerEffect(j)
      PROVE  doc' = doc \/ doc' = Written(engine')
      BY <1>1 DEF HandlerEffect, LookEffect, UploadEffect, SendEffect, FetchEffect, AckEffect,
         CompareEffect, AnswerEffect, CommitEffect, PutEffect
<1>2. FlowEffects => doc' = doc
      BY DEF FlowEffects, ConnEffect, SettleEffect, RefreshEffect, FlowEffect
<1>   QED
      BY <1>1, <1>2 DEF Effect, SaveEffect, TellEffect, UpdateEffect, DrainEffect,
         TakeEffect, TheirEffect, DropEffect, PersistEffect, CrashEffect, avars

\* Where a handler has its versions from.
Late == {"compare", "ask", "write", "put"}
Seen(k) ==
    /\ \/ k.v \in {0, copy, remote.v}
       \/ \E j \in jobs : k.v = j.v \/ k.v = j.saw
    /\ k.saw \in {0, copy} \/ \E j \in jobs : k.saw = j.saw
    /\ k.step \in Late => k.v = remote.v \/ \E j \in jobs : j.step \in Late /\ k.v = j.v
\* A handler has its versions from the copy, the server, or what it was before.
LEMMA SeenIs ==
    ASSUME Effect
    PROVE  \A k \in jobs' : Seen(k)
<1>1. \A j \in jobs : Seen(j)
      BY DEF Seen
<1>2. ASSUME NEW does, NEW step, step \notin Late, NEW k, Starts(k, does, step)
      PROVE  \A l \in jobs' : Seen(l)
      BY <1>1, <1>2 DEF Seen, Starts
<1>3. /\ FetchBegins => \A k \in jobs' : Seen(k)
      /\ \A j : Ending(j) => \A k \in jobs' : Seen(k)
      BY <1>1, <1>2 DEF FetchBegins, Ending, Late
<1>4. ASSUME NEW j \in jobs, HandlerEffect(j)
      PROVE  \A k \in jobs' : Seen(k)
  <2>1. ASSUME NEW k, NEW step, Becomes(j, k, step), Seen(k)
        PROVE  \A l \in jobs' : Seen(l)
        BY <1>1, <2>1 DEF Becomes
  <2>2. CASE LookEffect(j)
    <3>1. ASSUME NEW k, Becomes(j, k, "load"), k.v = copy, k.saw = j.saw
          PROVE  Seen(k)
          BY <3>1 DEF Becomes, Seen, Late
    <3>   QED
          BY <1>3, <2>1, <2>2, <3>1 DEF LookEffect
  <2>3. CASE UploadEffect(j)
    <3>1. ASSUME NEW k, Becomes(j, k, "wait"), k.v = j.v, k.saw = j.saw
          PROVE  Seen(k)
          BY <3>1 DEF Becomes, Seen, Late
    <3>   QED
          BY <1>3, <2>1, <2>3, <3>1 DEF UploadEffect, SendEffect
  <2>4. CASE FetchEffect(j)
    <3>1. ASSUME NEW k, Becomes(j, k, "compare"), k.v = remote.v, k.saw = j.saw
          PROVE  Seen(k)
          BY <3>1 DEF Becomes, Seen, Late
    <3>   QED
          BY <1>3, <2>1, <2>4, <3>1 DEF FetchEffect
  <2>5. ASSUME j.step \in Late, NEW k, k.v = j.v, k.saw \in {j.saw, copy}
        PROVE  Seen(k)
        BY <2>5 DEF Seen
  <2>6. CASE CompareEffect(j)
        BY <2>1, <2>5, <2>6 DEF CompareEffect, Late
  <2>7. CASE AnswerEffect(j)
    <3>1. ASSUME NEW k, Becomes(j, k, "load"), k.v = j.saw, k.saw = j.saw
          PROVE  Seen(k)
          BY <3>1 DEF Becomes, Seen, Late
    <3>   QED
          BY <1>3, <2>1, <2>5, <2>7, <3>1 DEF AnswerEffect, Late
  <2>8. CASE CommitEffect(j)
        BY <1>3, <2>1, <2>5, <2>8 DEF CommitEffect, Late
  <2>9. CASE AckEffect(j) \/ PutEffect(j)
        BY <1>3, <2>9 DEF AckEffect, PutEffect
  <2>   QED
        BY <1>4, <2>2, <2>3, <2>4, <2>6, <2>7, <2>8, <2>9 DEF HandlerEffect
<1>5. CASE TellEffect \/ (\E o \in engine.ops : DrainEffect(o))
      BY <1>1, <1>2, <1>5 DEF TellEffect, DrainEffect, Late
<1>6. CASE UpdateEffect \/ FlowEffects
      BY <1>1, <1>3, <1>6
         DEF UpdateEffect, FlowEffects, ConnEffect, SettleEffect, RefreshEffect, FlowEffect
<1>7. CASE DropEffect
  <2>   SUFFICES ASSUME NEW k \in jobs' PROVE Seen(k)
        OBVIOUS
  <2>1. PICK j \in jobs : k.step = j.step /\ k.v = j.v /\ k.saw = j.saw
        BY <1>7 DEF DropEffect
  <2>   QED
        BY <2>1 DEF Seen
<1>   QED
      BY <1>1, <1>4, <1>5, <1>6, <1>7 DEF Effect, SaveEffect, TakeEffect, TheirEffect,
         PersistEffect, CrashEffect, avars

-----------------------------------------------------------------------------
\* Versions stay drawn before they are seen.
LEMMA DrawnNext ==
    ASSUME Shaped, Drawn, Recorded, Effect
    PROVE  Drawn'
<1>1. /\ tale.drawn \in Nat /\ \A v \in tale.had : v \in Nat /\ v <= tale.drawn
      /\ copy \in Nat /\ copy <= tale.drawn /\ remote.v \in tale.had
      /\ \A j \in jobs : j.v \in Nat /\ j.saw \in Nat /\ j.v <= tale.drawn /\ j.saw <= tale.drawn
      BY DEF Shaped, IsTale, IsJob, Drawn, Recorded
<1>2. /\ tale'.drawn \in Nat /\ tale.drawn <= tale'.drawn
      /\ \A v \in tale'.had : v <= tale'.drawn
  <2>1. CASE TaleStays \/ SaveEffect \/ (\E j \in jobs : AnswerEffect(j))
        BY <1>1, <2>1 DEF TaleStays, SaveEffect, AnswerEffect, IsTale
  <2>2. CASE TakeEffect
    <3>1. asks[1].v <= tale.drawn
          BY <2>2 DEF TakeEffect, Drawn, Shaped
    <3>   QED
          BY <1>1, <2>2, <3>1 DEF TakeEffect, IsTale
  <2>3. CASE TheirEffect
        BY <1>1, <2>3 DEF TheirEffect, IsTale
  <2>   QED
        BY <2>1, <2>2, <2>3, TaleFrame
<1>3. \A n \in Nat : n <= tale.drawn => n <= tale'.drawn
      BY <1>1, <1>2
<1>4. copy' <= tale'.drawn
  <2>1. CASE SaveEffect
        BY <2>1 DEF SaveEffect
  <2>2. ASSUME NEW j \in jobs, CommitEffect(j)
        PROVE  copy' \in {copy, 0}
        BY <2>2 DEF CommitEffect
  <2>3. ASSUME NEW j \in jobs, PutEffect(j)
        PROVE  copy' = j.v
        BY <2>3 DEF PutEffect
  <2>   QED
        BY <1>1, <1>3, <2>1, <2>2, <2>3, CopyFrame
<1>5. \A k \in jobs' : k.saw <= tale'.drawn /\ k.v <= tale'.drawn
  <2>   SUFFICES ASSUME NEW k \in jobs' PROVE k.saw <= tale'.drawn /\ k.v <= tale'.drawn
        OBVIOUS
  <2>1. Seen(k)
        BY SeenIs
  <2>   QED
        BY <1>1, <1>3, <2>1 DEF Seen
<1>6. \A n \in DOMAIN asks' : asks'[n].v <= tale'.drawn
  <2>1. \A n \in DOMAIN asks : asks[n].v \in Nat /\ asks[n].v <= tale.drawn
    <3>1. \A n \in DOMAIN asks : asks[n] \in Packet
          BY DEF Shaped
    <3>   QED
          BY <3>1 DEF Packet, Drawn
  <2>2. CASE asks' = asks
        BY <1>3, <2>1, <2>2
  <2>3. CASE asks' = <<>>
        BY <2>3
  <2>4. CASE TakeEffect
    <3>1. asks \in Seq(Packet) /\ asks # <<>> /\ asks' = Tail(asks)
          BY <2>4 DEF TakeEffect, Shaped
    <3>   QED
          BY <1>3, <2>1, <3>1
  <2>5. ASSUME NEW j \in jobs, NEW op, SendEffect(j, op)
        PROVE  \A n \in DOMAIN asks' : asks'[n].v <= tale'.drawn
    <3>1. PICK p \in Packet : p.v = j.v /\ asks' = Append(asks, p)
          BY <2>5 DEF SendEffect
    <3>2. asks \in Seq(Packet)
          BY DEF Shaped
    <3>   QED
          BY <1>1, <1>3, <2>1, <3>1, <3>2
  <2>   QED
        BY <2>2, <2>3, <2>4, <2>5, WireFrame
<1>   QED
      BY <1>2, <1>4, <1>5, <1>6 DEF Drawn

\* A version whose answer comes is the server's, and the one its handler sent.
LEMMA AnswerIs ==
    ASSUME Shaped, Recorded, Sent, NEW j \in jobs, AckEffect(j)
    PROVE  j.v \in tale.had
<1>1. answers[1].what = "ack" /\ 1 \in DOMAIN answers
      BY DEF AckEffect, Shaped
<1>2. j.v = answers[1].v
      BY <1>1 DEF Sent, Comes, AckEffect
<1>   QED
      BY <1>1, <1>2 DEF Recorded

\* What the index and the log record stays what the server has had.
LEMMA RecordedNext ==
    ASSUME Shaped, Recorded, Sent, Effect
    PROVE  Recorded'
<1>1. tale.had \subseteq tale'.had
      BY TaleFrame DEF TaleStays, SaveEffect, AnswerEffect, TakeEffect, TheirEffect
<1>2. /\ \A i \in DOMAIN engine'.known : engine'.known[i] \in tale.had
      /\ engine'.record \in tale.had
  <2>1. /\ \A i \in DOMAIN engine.known : engine.known[i] \in tale.had
        /\ engine.record \in tale.had /\ doc.record \in tale.had
        /\ \A d \in remote.did : d.v \in tale.had
        /\ engine.known \in Seq(Nat)
        BY DEF Recorded, Shaped, IsEngine
  <2>2. ASSUME NEW v \in tale.had, engine'.record = v,
               \E i \in DOMAIN engine.known : engine'.known = [engine.known EXCEPT ![i] = v]
        PROVE  /\ \A i \in DOMAIN engine'.known : engine'.known[i] \in tale.had
               /\ engine'.record \in tale.had
        BY <2>1, <2>2
  <2>3. ASSUME NEW j \in jobs, AckEffect(j) \/ CommitEffect(j)
        PROVE  IndexStays \/ (/\ \A i \in DOMAIN engine'.known : engine'.known[i] \in tale.had
                              /\ engine'.record \in tale.had)
    <3>1. CASE AckEffect(j)
      <4>1. j.v \in tale.had
            BY <3>1, AnswerIs
      <4>   QED
            BY <2>2, <3>1, <4>1 DEF AckEffect
    <3>2. CASE CommitEffect(j)
      <4>1. j.v \in tale.had
            BY <3>2 DEF CommitEffect, Recorded
      <4>   QED
            BY <2>2, <3>2, <4>1 DEF CommitEffect, LogStays
    <3>   QED
          BY <2>3, <3>1, <3>2
  <2>4. CASE IndexStays
        BY <2>1, <2>4 DEF IndexStays
  <2>5. CASE SettleEffect
        BY <2>1, <2>2, <2>4, <2>5 DEF SettleEffect
  <2>6. CASE RefreshEffect
        BY <2>1, <2>6 DEF RefreshEffect
  <2>7. CASE CrashEffect
        BY <2>1, <2>7 DEF CrashEffect
  <2>   QED
        BY <2>3, <2>4, <2>5, <2>6, <2>7, IndexFrame
<1>3. doc'.record \in tale.had
      BY <1>2, DocFrame DEF Recorded, Written
<1>4. remote'.v \in tale'.had /\ \A d \in remote'.did : d.v \in tale'.had
  <2>1. remote.v \in tale.had /\ \A d \in remote.did : d.v \in tale.had
        BY DEF Recorded
  <2>   QED
        BY <1>1, <2>1, WireFrame DEF TakeEffect, TheirEffect
<1>5. \A k \in jobs' : k.step \in {"compare", "ask", "write", "put"} => k.v \in tale.had
  <2>1. /\ remote.v \in tale.had
        /\ \A j \in jobs : j.step \in Late => j.v \in tale.had
        BY DEF Recorded, Late
  <2>2. \A k \in jobs' : k.step \in Late =>
            k.v = remote.v \/ \E j \in jobs : j.step \in Late /\ k.v = j.v
        BY SeenIs DEF Seen
  <2>3. \A k \in jobs' : k.step \in Late => k.v \in tale.had
        BY <2>1, <2>2
  <2>   QED
        BY <2>3 DEF Late
<1>6. \A n \in DOMAIN answers' : answers'[n].what = "ack" => answers'[n].v \in tale'.had
  <2>1. /\ answers \in Seq(Answer)
        /\ \A n \in DOMAIN answers : answers[n].what = "ack" => answers[n].v \in tale.had
        BY DEF Recorded, Shaped
  <2>2. CASE answers' = answers \/ answers' = <<>>
        BY <1>1, <2>1, <2>2
  <2>3. CASE answers # <<>> /\ answers' = Tail(answers)
        BY <1>1, <2>1, <2>3
  <2>4. CASE TakeEffect
    <3>1. PICK a \in Answer : a.v = asks[1].v /\ answers' = Append(answers, a)
          BY <2>4 DEF TakeEffect
    <3>2. a.v \in tale'.had
          BY <2>4, <3>1 DEF TakeEffect
    <3>   QED
          BY <1>1, <2>1, <3>1, <3>2
  <2>5. CASE TheirEffect
    <3>1. CASE \E a \in Answer : a.what = "updated" /\ answers' = Append(answers, a)
      <4>1. PICK a \in Answer : a.what = "updated" /\ answers' = Append(answers, a)
            BY <3>1
      <4>   QED
            BY <1>1, <2>1, <4>1
    <3>   QED
          BY <2>2, <2>5, <3>1 DEF TheirEffect
  <2>   QED
        BY <2>2, <2>3, <2>4, <2>5, WireFrame DEF UpdateEffect, AckEffect
<1>   QED
      BY <1>1, <1>2, <1>3, <1>4, <1>5, <1>6 DEF Recorded
-----------------------------------------------------------------------------
\* A packet goes out.
Sends == \E j \in jobs : UploadEffect(j) /\ \E op : SendEffect(j, op)
\* The log changes with what is queued, sent, answered, settled, drained, dropped, loaded.
LEMMA LogFrame ==
    ASSUME Shaped, Effect
    PROVE  \/ engine'.ops = engine.ops \/ Queues \/ Sends
           \/ \E j \in jobs : AckEffect(j)
           \/ SettleEffect \/ (\E o \in engine.ops : DrainEffect(o)) \/ DropEffect \/ CrashEffect
<1>1. engine' = engine \/ LogStays => engine'.ops = engine.ops
      BY DEF LogStays
<1>2. ASSUME NEW j \in jobs, HandlerEffect(j)
      PROVE  engine'.ops = engine.ops \/ Queues \/ Sends \/ AckEffect(j)
      BY <1>1, <1>2 DEF HandlerEffect, LookEffect, UploadEffect, FetchEffect,
         CompareEffect, AnswerEffect, CommitEffect, PutEffect, Sends
<1>3. FlowEffects => engine'.ops = engine.ops \/ SettleEffect
      BY <1>1 DEF FlowEffects, ConnEffect, RefreshEffect, FlowEffect
<1>   QED
      BY <1>1, <1>2, <1>3 DEF Effect, SaveEffect, TellEffect, UpdateEffect,
         TakeEffect, TheirEffect, PersistEffect, avars
\* The connection changes with the flow before it is up, a drop and a crash.
LEMMA ConnFrame ==
    ASSUME Effect
    PROVE  \/ conn' = conn
           \/ conn.at \in {"down", "open", "settled", "joined", "rows"} /\ FlowEffects
           \/ DropEffect \/ CrashEffect
<1>1. ASSUME NEW j \in jobs, HandlerEffect(j)
      PROVE  conn' = conn
      BY <1>1 DEF HandlerEffect, LookEffect, UploadEffect, AckEffect, FetchEffect,
         CompareEffect, AnswerEffect, CommitEffect, PutEffect
<1>2. FlowEffects => conn.at \in {"down", "open", "settled", "joined", "rows"}
      BY DEF FlowEffects, ConnEffect, SettleEffect, RefreshEffect, FlowEffect
<1>   QED
      BY <1>1, <1>2 DEF Effect, SaveEffect, TellEffect, UpdateEffect, DrainEffect,
         TakeEffect, TheirEffect, PersistEffect, avars
\* Where a handler that waits, one of the drain, or one that looks comes from.
LEMMA WaitFrame ==
    ASSUME Effect
    PROVE  Sends \/ \A k \in jobs' : k.step = "wait" => k \in jobs
<1>   DEFINE Kept == \A k \in jobs' : k.step = "wait" => k \in jobs
<1>1. /\ \A j : Ending(j) => Kept
      /\ \A k, does, step : Starts(k, does, step) /\ step # "wait" => Kept
      /\ \A j, k, step : Becomes(j, k, step) /\ step # "wait" => Kept
      /\ FetchBegins => Kept
      BY DEF Ending, Starts, Becomes, FetchBegins
<1>2. jobs' = jobs \/ jobs' = {} => Kept
      OBVIOUS
<1>   HIDE DEF Kept
<1>3. ASSUME NEW j \in jobs, HandlerEffect(j)
      PROVE  Sends \/ Kept
      BY <1>1, <1>3 DEF HandlerEffect, LookEffect, UploadEffect, AckEffect, FetchEffect,
         CompareEffect, AnswerEffect, CommitEffect, PutEffect, Sends
<1>4. FlowEffects => Kept
      BY <1>1, <1>2 DEF FlowEffects, ConnEffect, SettleEffect, RefreshEffect, FlowEffect
<1>5. DropEffect => Kept
      BY DEF DropEffect, Kept
<1>6. (\E o \in engine.ops : DrainEffect(o)) => Kept
      BY <1>1, <1>2 DEF DrainEffect
<1>7. Sends \/ Kept
      BY <1>1, <1>2, <1>3, <1>4, <1>5, <1>6 DEF Effect, SaveEffect, TellEffect, UpdateEffect,
         TakeEffect, TheirEffect, PersistEffect, CrashEffect, avars
<1>   QED
      BY <1>7 DEF Kept
\* Only the drain begins a handler of the drain, and only a save has one that looks.
LEMMA DrainFrame ==
    ASSUME Drains, Effect
    PROVE  /\ \/ Sends \/ \E o \in engine.ops : DrainEffect(o)
              \/ \A k \in jobs' : k.does = "drain" => k \in jobs
           /\ \A k \in jobs' : k.step = "look" => k.does = "save"
<1>   DEFINE Kept == /\ \A k \in jobs' : k.does = "drain" => k \in jobs
                     /\ \A k \in jobs' : k.step = "look" => k.does = "save"
             Looks == \A k \in jobs' : k.step = "look" => k.does = "save"
<1>1. \A j \in jobs : /\ j.step = "look" => j.does = "save"
                      /\ j.step \notin {"load", "wait"} => j.does # "drain"
      BY DEF Drains
<1>2. /\ \A j : Ending(j) => Kept
      /\ \A k : Starts(k, "save", "look") \/ Starts(k, "apply", "fetch") => Kept
      /\ FetchBegins => Kept
      BY <1>1 DEF Ending, Starts, FetchBegins
<1>3. \A k, step : \A j \in jobs : Becomes(j, k, step) /\ step # "look" =>
            Looks /\ (j.step \notin {"load", "wait"} => Kept)
      BY <1>1 DEF Becomes
<1>4. jobs' = jobs \/ jobs' = {} => Kept
      BY <1>1
<1>5. \A k : Starts(k, "drain", "load") => Looks
      BY <1>1 DEF Starts
<1>6. DropEffect => Kept
      BY <1>1 DEF DropEffect
<1>7. Kept => Looks
      OBVIOUS
<1>   HIDE DEF Kept, Looks
<1>8. ASSUME NEW j \in jobs, HandlerEffect(j)
      PROVE  Looks /\ (Sends \/ Kept)
      BY <1>2, <1>3, <1>7, <1>8 DEF HandlerEffect, LookEffect, UploadEffect, AckEffect, FetchEffect,
         CompareEffect, AnswerEffect, CommitEffect, PutEffect, Sends, SendEffect
<1>9. FlowEffects => Kept
      BY <1>2, <1>4 DEF FlowEffects, ConnEffect, SettleEffect, RefreshEffect, FlowEffect
<1>10. (\E o \in engine.ops : DrainEffect(o)) => Looks
      BY <1>4, <1>5, <1>7 DEF DrainEffect
<1>11. Looks /\ (Sends \/ Kept \/ \E o \in engine.ops : DrainEffect(o))
      BY <1>2, <1>4, <1>6, <1>7, <1>8, <1>9, <1>10 DEF Effect, SaveEffect, TellEffect,
         UpdateEffect, TakeEffect, TheirEffect, PersistEffect, CrashEffect, avars
<1>   QED
      BY <1>11 DEF Kept, Looks
-----------------------------------------------------------------------------
\* A queued operation changes nothing for the others.
LEMMA LogGrows ==
    ASSUME Shaped, Ops, Queues \/ engine'.ops = engine.ops
    PROVE  /\ OneEach(engine'.ops)
           /\ \A o \in engine'.ops : o.live => o \in engine.ops
           /\ \A o \in engine'.ops : o \in engine.ops \/ o.id = NewOp
           /\ engine.ops \subseteq engine'.ops
BY NewOpIsNew DEF Ops, OneEach, Queues

\* What is sent is either new or the drain's, and nothing was under way for it.
LEMMA SendsNew ==
    ASSUME Shaped, Ops, Drains, NEW j \in jobs, NEW op, SendEffect(j, op), j.step = "load"
    PROVE  /\ ~IsLive(op) /\ (HasOp(op) \/ ~IsDone(op))
           /\ op = NewOp \/ (j.does = "drain" /\ HasOp(op))
<1>1. CASE j.does = "drain"
      BY <1>1 DEF Drains, SendEffect
<1>2. CASE j.does # "drain"
      BY <1>2, NewOpIsNew DEF SendEffect
<1>   QED
      BY <1>1, <1>2

\* The log: one entry each, and nothing in flight without a connection.
LEMMA OpsNext ==
    ASSUME Shaped, Shaped', Ops, Drains, Sent, Effect
    PROVE  Ops'
<1>1. /\ OneEach(engine.ops) /\ OneEach(doc.ops) /\ \A o \in doc.ops : ~o.live
      /\ conn.at \in {"down", "open"} => \A o \in engine.ops : ~o.live
      BY DEF Ops
<1>2. ASSUME Sends
      PROVE  /\ OneEach(engine'.ops) /\ conn'.at \notin {"down", "open"}
             /\ \A o \in engine'.ops : HasOp(o.id) \/ o.id = NewOp
  <2>0. PICK j \in jobs : \E op : UploadEffect(j) /\ SendEffect(j, op)
        BY <1>2 DEF Sends
  <2>1. PICK op : UploadEffect(j) /\ SendEffect(j, op)
        BY <2>0
  <2>2. op = NewOp \/ HasOp(op)
        BY <2>1, SendsNew DEF UploadEffect
  <2>3. PICK o : o.id = op /\ engine'.ops = {p \in engine.ops : p.id # op} \cup {o}
        BY <2>1 DEF SendEffect
  <2>4. conn'.at \notin {"down", "open"}
        BY <2>1 DEF SendEffect, UploadEffect
  <2>   HIDE DEF NewOp
  <2>   QED
        BY <1>1, <2>2, <2>3, <2>4 DEF OneEach, HasOp
<1>3. OneEach(engine'.ops)
  <2>1. CASE (\E j \in jobs : AckEffect(j)) \/ (\E o \in engine.ops : DrainEffect(o))
        BY <1>1, <2>1 DEF AckEffect, DrainEffect, LogStays, OneEach
  <2>2. CASE SettleEffect \/ DropEffect \/ CrashEffect
        BY <1>1, <2>2 DEF SettleEffect, DropEffect, CrashEffect
  <2>   QED
        BY <1>2, <2>1, <2>2, LogFrame, LogGrows
<1>4. IsEngine(engine')
      BY DEF Shaped
<1>5. /\ OneEach(doc'.ops) /\ \A o \in doc'.ops : ~o.live
      /\ \A o \in doc'.ops : o \in doc.ops \/ \E p \in engine'.ops : o.id = p.id
      BY <1>1, <1>3, <1>4, WrittenIs, DocFrame
<1>6. conn'.at \in {"down", "open"} => \A o \in engine'.ops : ~o.live
  <2>1. CASE DropEffect \/ CrashEffect
        BY <1>1, <2>1 DEF DropEffect, CrashEffect
  <2>2. CASE FlowEffects
        BY <1>1, <2>2 DEF FlowEffects, ConnEffect, SettleEffect, RefreshEffect, FlowEffect
  <2>3. ASSUME conn' = conn, conn.at \in {"down", "open"}
        PROVE  \A o \in engine'.ops : ~o.live
    <3>1. CASE Queues \/ engine'.ops = engine.ops
          BY <1>1, <2>3, <3>1, LogGrows
    <3>2. CASE (\E j \in jobs : AckEffect(j)) \/ (\E o \in engine.ops : DrainEffect(o))
          BY <1>1, <2>3, <3>2 DEF AckEffect, DrainEffect, LogStays
    <3>3. CASE SettleEffect \/ DropEffect \/ CrashEffect
          BY <1>1, <2>3, <3>3 DEF SettleEffect, DropEffect, CrashEffect
    <3>   QED
          BY <1>2, <2>3, <3>1, <3>2, <3>3, LogFrame
  <2>   QED
        BY <2>1, <2>2, <2>3, ConnFrame
<1>7. \E n \in Nat : Below(n)'
  <2>1. PICK n \in Nat : Below(n)
        BY DEF Ops
  <2>   DEFINE m == n + NewOp
  <2>2. m \in Nat /\ NewOp <= m /\ \A i \in Nat : i <= n => i <= m
        BY NewOpIsNew
  <2>3. /\ \A o \in engine.ops : o.id \in Nat /\ o.id <= n
        /\ \A o \in doc.ops : o.id \in Nat /\ o.id <= n
        /\ \A d \in remote.did : d.op \in Nat /\ d.op <= n
        BY <2>1 DEF Below, Shaped, IsEngine, IsDoc, IsOp, IsRemote
  <2>   HIDE DEF m
  <2>4. /\ \A o \in engine.ops : o.id <= m
        /\ \A o \in doc.ops : o.id <= m
        /\ \A d \in remote.did : d.op <= m
        BY <2>2, <2>3
  <2>   HIDE DEF NewOp
  <2>5. \A o \in engine'.ops : o.id <= m
    <3>1. CASE Queues \/ engine'.ops = engine.ops
          BY <2>2, <2>4, <3>1, LogGrows
    <3>2. CASE Sends
          BY <1>2, <2>2, <2>4, <3>2 DEF HasOp
    <3>3. CASE (\E j \in jobs : AckEffect(j)) \/ (\E o \in engine.ops : DrainEffect(o))
          BY <2>4, <3>3 DEF AckEffect, DrainEffect, LogStays
    <3>4. CASE SettleEffect
          BY <2>2, <2>4, <3>4 DEF SettleEffect
    <3>5. CASE DropEffect \/ CrashEffect
          BY <2>4, <3>5 DEF DropEffect, CrashEffect
    <3>   QED
          BY <3>1, <3>2, <3>3, <3>4, <3>5, LogFrame
  <2>6. \A o \in doc'.ops : o.id <= m
        BY <1>5, <2>4, <2>5
  <2>7. \A d \in remote'.did : d.op <= m
    <3>1. CASE TakeEffect
      <4>1. 1 \in DOMAIN asks
            BY <3>1 DEF TakeEffect, Shaped
      <4>2. IsLive(asks[1].op) \/ IsDone(asks[1].op)
            BY <4>1 DEF Sent, Comes
      <4>3. asks[1].op <= m
            BY <2>4, <4>2 DEF IsLive, IsDone
      <4>   QED
            BY <2>4, <3>1, <4>3 DEF TakeEffect
    <3>   QED
          BY <2>4, <3>1, WireFrame DEF TheirEffect
  <2>   QED
        BY <2>2, <2>5, <2>6, <2>7 DEF Below
<1>   QED
      BY <1>3, <1>5, <1>6, <1>7 DEF Ops

HasNext(n) == \E o \in engine'.ops : o.id = n
LiveNext(n) == \E o \in engine'.ops : o.live /\ o.id = n
Acked(n) == \E j \in jobs : AckEffect(j) /\ j.op = n
SentNow(n) == \E j \in jobs : UploadEffect(j) /\ SendEffect(j, n)
\* An operation in flight stays so until its answer, a drop or a crash;
LEMMA LivesOn ==
    ASSUME Shaped, Ops, Effect, NEW n, IsLive(n)
    PROVE  LiveNext(n) \/ Acked(n) \/ DropEffect \/ CrashEffect
<1>1. PICK p \in engine.ops : p.live /\ p.id = n
      BY DEF IsLive
<1>2. CASE Queues \/ engine'.ops = engine.ops
      BY <1>1, <1>2, LogGrows DEF LiveNext
<1>3. CASE Sends
  <2>0. PICK j \in jobs : \E op : SendEffect(j, op)
        BY <1>3 DEF Sends
  <2>1. PICK op : SendEffect(j, op)
        BY <2>0
  <2>2. PICK o : o.id = op /\ o.live /\ engine'.ops = {q \in engine.ops : q.id # op} \cup {o}
        BY <2>1 DEF SendEffect
  <2>   QED
        BY <1>1, <2>2 DEF LiveNext
<1>4. CASE \E j \in jobs : AckEffect(j)
      BY <1>1, <1>4 DEF AckEffect, LiveNext, Acked
<1>5. CASE \E o \in engine.ops : DrainEffect(o)
  <2>1. PICK o \in engine.ops : DrainEffect(o)
        BY <1>5
  <2>2. o.id # p.id
        BY <1>1, <2>1 DEF DrainEffect, Ops, OneEach
  <2>   QED
        BY <1>1, <2>1, <2>2 DEF DrainEffect, LogStays, LiveNext
<1>6. CASE SettleEffect
      BY <1>1, <1>6 DEF SettleEffect, Ops
<1>   QED
      BY <1>2, <1>3, <1>4, <1>5, <1>6, LogFrame
\* one not in the log comes into it as a new one, or by a restart;
LEMMA NewOnly ==
    ASSUME Shaped, Ops, Drains, Effect, NEW n, HasNext(n)
    PROVE  HasOp(n) \/ n = NewOp \/ CrashEffect
<1>1. PICK o \in engine'.ops : o.id = n
      BY DEF HasNext
<1>   HIDE DEF NewOp
<1>2. CASE Queues \/ engine'.ops = engine.ops
      BY <1>1, <1>2, LogGrows DEF HasOp
<1>3. CASE Sends
  <2>0. PICK j \in jobs : \E op : UploadEffect(j) /\ SendEffect(j, op)
        BY <1>3 DEF Sends
  <2>1. PICK op : UploadEffect(j) /\ SendEffect(j, op)
        BY <2>0
  <2>2. PICK q : q.id = op /\ engine'.ops = {p \in engine.ops : p.id # op} \cup {q}
        BY <2>1 DEF SendEffect
  <2>3. op = NewOp \/ HasOp(op)
        BY <2>1, SendsNew DEF UploadEffect
  <2>   QED
        BY <1>1, <2>2, <2>3 DEF HasOp
<1>4. CASE (\E j \in jobs : AckEffect(j)) \/ (\E p \in engine.ops : DrainEffect(p))
      BY <1>1, <1>4 DEF AckEffect, DrainEffect, LogStays, HasOp
<1>5. CASE SettleEffect \/ DropEffect
      BY <1>1, <1>5 DEF SettleEffect, DropEffect, HasOp
<1>   QED
      BY <1>2, <1>3, <1>4, <1>5, LogFrame
\* and one in flight was so before, or goes out now.
LEMMA LivedBefore ==
    ASSUME Shaped, Ops, Effect, NEW n, LiveNext(n)
    PROVE  IsLive(n) \/ SentNow(n)
<1>1. PICK o \in engine'.ops : o.live /\ o.id = n
      BY DEF LiveNext
<1>   HIDE DEF NewOp
<1>2. CASE Queues \/ engine'.ops = engine.ops
      BY <1>1, <1>2, LogGrows DEF IsLive
<1>3. CASE Sends
  <2>0. PICK j \in jobs : \E op : UploadEffect(j) /\ SendEffect(j, op)
        BY <1>3 DEF Sends
  <2>1. PICK op : UploadEffect(j) /\ SendEffect(j, op)
        BY <2>0
  <2>2. PICK q : q.id = op /\ engine'.ops = {p \in engine.ops : p.id # op} \cup {q}
        BY <2>1 DEF SendEffect
  <2>   QED
        BY <1>1, <2>1, <2>2 DEF IsLive, SentNow
<1>4. CASE (\E j \in jobs : AckEffect(j)) \/ (\E p \in engine.ops : DrainEffect(p))
      BY <1>1, <1>4 DEF AckEffect, DrainEffect, LogStays, IsLive
<1>5. CASE SettleEffect \/ DropEffect \/ CrashEffect
      BY <1>1, <1>5 DEF SettleEffect, DropEffect, CrashEffect, Ops, IsLive
<1>   QED
      BY <1>2, <1>3, <1>4, <1>5, LogFrame

\* Each waits for an operation of its own.
LEMMA WaitsNext ==
    ASSUME Shaped, Ops, Drains, Waits, Effect
    PROVE  Waits'
<1>1. CASE Sends
  <2>0. PICK j \in jobs : \E op : UploadEffect(j) /\ SendEffect(j, op)
        BY <1>1 DEF Sends
  <2>1. PICK op : UploadEffect(j) /\ SendEffect(j, op)
        BY <2>0
  <2>2. ~IsLive(op)
        BY <2>1, SendsNew DEF UploadEffect
  <2>3. PICK k : k.op = op /\ jobs' = (jobs \ {j}) \cup {k}
        BY <2>1 DEF SendEffect, Becomes
  <2>4. LiveNext(op)
        BY <2>1 DEF SendEffect, LiveNext
  <2>5. \A l \in jobs : l.step = "wait" => l.op # op /\ LiveNext(l.op)
    <3>   SUFFICES ASSUME NEW l \in jobs, l.step = "wait" PROVE l.op # op /\ LiveNext(l.op)
          OBVIOUS
    <3>1. IsLive(l.op)
          BY DEF Waits
    <3>2. PICK p \in engine.ops : p.live /\ p.id = l.op /\ p.id # op
          BY <2>2, <3>1 DEF IsLive
    <3>   QED
          BY <2>1, <3>2 DEF SendEffect, LiveNext
  <2>   QED
        BY <2>3, <2>4, <2>5 DEF Waits, IsLive, LiveNext
<1>2. CASE ~Sends
  <2>1. \A k \in jobs' : k.step = "wait" => k \in jobs
        BY <1>2, WaitFrame
  <2>2. ASSUME NEW k \in jobs', k.step = "wait"
        PROVE  LiveNext(k.op)
    <3>1. k \in jobs /\ IsLive(k.op)
          BY <2>1, <2>2 DEF Waits
    <3>2. ~DropEffect /\ ~CrashEffect
          BY <2>2 DEF DropEffect, CrashEffect
    <3>3. ~Acked(k.op)
      <4>1. ASSUME NEW j \in jobs, AckEffect(j), j.op = k.op
            PROVE  FALSE
        <5>1. j = k
              BY <2>2, <3>1, <4>1 DEF Waits, AckEffect
        <5>   QED
              BY <2>2, <4>1, <5>1 DEF AckEffect, Ending
      <4>   QED
            BY <4>1 DEF Acked
    <3>   QED
          BY <3>1, <3>2, <3>3, LivesOn
  <2>   QED
        BY <2>1, <2>2 DEF Waits, IsLive, LiveNext
<1>   QED
      BY <1>1, <1>2

\* An operation stays in the log until its answer, or the drain finds nothing to send.
LEMMA StaysIn ==
    ASSUME Shaped, Ops, Effect, NEW n, HasOp(n)
    PROVE  \/ HasNext(n) \/ Acked(n) \/ SettleEffect \/ CrashEffect
           \/ \E o \in engine.ops : DrainEffect(o)
<1>1. PICK p \in engine.ops : p.id = n
      BY DEF HasOp
<1>2. CASE Queues \/ engine'.ops = engine.ops
      BY <1>1, <1>2, LogGrows DEF HasNext
<1>3. CASE Sends
  <2>0. PICK j \in jobs : \E op : SendEffect(j, op)
        BY <1>3 DEF Sends
  <2>1. PICK op : SendEffect(j, op)
        BY <2>0
  <2>2. PICK o : o.id = op /\ engine'.ops = {q \in engine.ops : q.id # op} \cup {o}
        BY <2>1 DEF SendEffect
  <2>   QED
        BY <1>1, <2>2 DEF HasNext
<1>4. CASE \E j \in jobs : AckEffect(j)
      BY <1>1, <1>4 DEF AckEffect, HasNext, Acked
<1>5. CASE DropEffect
      BY <1>1, <1>5 DEF DropEffect, HasNext
<1>   QED
      BY <1>2, <1>3, <1>4, <1>5, LogFrame

\* One drain at most, of an operation that is in the log.
LEMMA DrainsNext ==
    ASSUME Shaped, Ops, Drains, Waits, Effect
    PROVE  Drains'
<1>   DEFINE Holds(k) == /\ conn'.at = "up" /\ HasNext(k.op)
                         /\ (k.step = "load" /\ ~LiveNext(k.op)) \/ k.step = "wait"
<1>1. \A k \in jobs' : k.step = "look" => k.does = "save"
      BY DrainFrame
<1>2. ASSUME NEW k \in jobs', k \in jobs, k.does = "drain"
      PROVE  Holds(k)
  <2>1. /\ conn.at = "up" /\ HasOp(k.op)
        /\ (k.step = "load" /\ ~IsLive(k.op)) \/ k.step = "wait"
        BY <1>2 DEF Drains
  <2>2. ~DropEffect /\ ~CrashEffect /\ ~FlowEffects
    <3>1. ~FlowEffects
          BY <2>1 DEF FlowEffects, ConnEffect, SettleEffect, RefreshEffect, FlowEffect
    <3>   QED
          BY <1>2, <3>1 DEF DropEffect, CrashEffect
  <2>3. conn' = conn
        BY <2>2, ConnFrame
  <2>4. ~SettleEffect /\ \A o \in engine.ops : ~DrainEffect(o)
        BY <1>2, <2>1 DEF SettleEffect, DrainEffect
  <2>5. ~Acked(k.op)
    <3>1. ASSUME NEW j \in jobs, AckEffect(j), j.op = k.op
          PROVE  FALSE
      <4>1. j.step = "wait" /\ j # k
            BY <1>2, <3>1 DEF AckEffect, Ending
      <4>2. IsLive(k.op)
            BY <3>1, <4>1 DEF Waits
      <4>   QED
            BY <1>2, <2>1, <3>1, <4>1, <4>2 DEF Waits
    <3>   QED
          BY <3>1 DEF Acked
  <2>6. HasNext(k.op)
        BY <2>1, <2>2, <2>4, <2>5, StaysIn
  <2>7. ASSUME k.step = "load", LiveNext(k.op)
        PROVE  FALSE
    <3>1. ~IsLive(k.op)
          BY <2>1, <2>7
    <3>2. PICK j \in jobs : UploadEffect(j) /\ SendEffect(j, k.op)
          BY <2>7, <3>1, LivedBefore DEF SentNow
    <3>3. j.does = "drain"
          BY <2>1, <3>2, NewOpIsNew DEF SendEffect
    <3>4. j = k
          BY <1>2, <3>3 DEF Drains
    <3>   QED
          BY <1>2, <2>7, <3>2, <3>4 DEF SendEffect, Becomes
  <2>   QED
        BY <2>1, <2>3, <2>6, <2>7
<1>3. CASE Sends
  <2>0. PICK j \in jobs : \E op : UploadEffect(j) /\ SendEffect(j, op)
        BY <1>3 DEF Sends
  <2>1. PICK op : UploadEffect(j) /\ SendEffect(j, op)
        BY <2>0
  <2>2. PICK k : Becomes(j, k, "wait") /\ k.op = op
        BY <2>1 DEF SendEffect
  <2>3. jobs' = (jobs \ {j}) \cup {k} /\ k.does = j.does /\ k.step = "wait"
        BY <2>2 DEF Becomes
  <2>4. HasNext(op)
        BY <2>1 DEF SendEffect, HasNext
  <2>5. j.does = "drain" => conn'.at = "up"
        BY <2>1 DEF UploadEffect, Drains
  <2>6. k.does = "drain" => Holds(k)
        BY <2>2, <2>3, <2>4, <2>5
  <2>7. \A l, m \in jobs' : l.does = "drain" /\ m.does = "drain" => l = m
        BY <2>3 DEF Drains
  <2>8. \A l \in jobs' : l.does = "drain" => Holds(l)
        BY <1>2, <2>3, <2>6
  <2>   QED
        BY <1>1, <2>7, <2>8 DEF Drains, HasNext, HasOp, LiveNext, IsLive
<1>4. CASE \E o \in engine.ops : DrainEffect(o)
  <2>1. PICK o \in engine.ops : DrainEffect(o)
        BY <1>4
  <2>2. ~o.live /\ conn'.at = "up" /\ \A j \in jobs : j.does # "drain"
        BY <2>1 DEF DrainEffect
  <2>3. CASE jobs' = jobs
        BY <1>1, <2>2, <2>3 DEF Drains
  <2>4. CASE LogStays /\ \E k : Starts(k, "drain", "load") /\ k.v = copy /\ k.op = o.id
    <3>1. PICK k : Starts(k, "drain", "load") /\ k.op = o.id
          BY <2>4
    <3>2. HasNext(o.id) /\ ~LiveNext(o.id)
          BY <2>1, <2>4 DEF DrainEffect, LogStays, HasNext, LiveNext, Ops, OneEach
    <3>3. jobs' = jobs \cup {k} /\ k.step = "load"
          BY <3>1 DEF Starts
    <3>4. \A l \in jobs' : l.does = "drain" => l = k
          BY <2>2, <3>3
    <3>   QED
          BY <1>1, <2>2, <3>1, <3>2, <3>3, <3>4 DEF Drains, HasNext, HasOp, LiveNext, IsLive
  <2>   QED
        BY <2>1, <2>3, <2>4 DEF DrainEffect
<1>5. CASE ~Sends /\ ~(\E o \in engine.ops : DrainEffect(o))
  <2>1. \A k \in jobs' : k.does = "drain" => k \in jobs
        BY <1>5, DrainFrame
  <2>2. \A k \in jobs' : k.does = "drain" => Holds(k)
        BY <1>2, <2>1
  <2>3. \A l, m \in jobs' : l.does = "drain" /\ m.does = "drain" => l = m
        BY <2>1 DEF Drains
  <2>   QED
        BY <1>1, <2>2, <2>3 DEF Drains, HasNext, HasOp, LiveNext, IsLive
<1>   QED
      BY <1>3, <1>4, <1>5

DoneNext(n) == \E d \in remote'.did : d.op = n
ComesNext(n, v) ==
    /\ LiveNext(n) \/ (DoneNext(n) /\ ~HasNext(n))
    /\ \A j \in jobs' : j.step = "wait" /\ j.op = n => j.v = v
\* What is under way for a handler that waits is of the version it sent.
LEMMA SentNext ==
    ASSUME Shaped, Ops, Drains, Waits, Sent, Effect
    PROVE  Sent'
<1>2. \A n : IsDone(n) => DoneNext(n)
  <2>1. remote.did \subseteq remote'.did
        BY WireFrame DEF TakeEffect, TheirEffect
  <2>   QED
        BY <2>1 DEF IsDone, DoneNext
<1>3. ASSUME NEW n, NEW v, Comes(n, v), ~DropEffect, ~CrashEffect, Acked(n) => IsDone(n)
      PROVE  ComesNext(n, v)
  <2>1. LiveNext(n) \/ (DoneNext(n) /\ ~HasNext(n))
    <3>1. CASE IsLive(n) /\ ~Acked(n)
          BY <1>3, <3>1, LivesOn
    <3>2. CASE Acked(n)
      <4>1. ~HasNext(n)
            BY <3>2 DEF Acked, AckEffect, HasNext
      <4>   QED
            BY <1>2, <1>3, <3>2, <4>1
    <3>3. CASE IsDone(n) /\ ~HasOp(n)
          BY <1>2, <1>3, <3>3, NewOnly, NewOpIsNew
    <3>   QED
          BY <1>3, <3>1, <3>2, <3>3 DEF Comes
  <2>2. \A j \in jobs' : j.step = "wait" /\ j.op = n => j.v = v
    <3>1. CASE Sends
      <4>0. PICK j \in jobs : \E op : UploadEffect(j) /\ SendEffect(j, op)
            BY <3>1 DEF Sends
      <4>1. PICK op : UploadEffect(j) /\ SendEffect(j, op)
            BY <4>0
      <4>2. n # op
            BY <1>3, <4>1, SendsNew DEF UploadEffect, Comes
      <4>3. PICK k : k.op = op /\ jobs' = (jobs \ {j}) \cup {k}
            BY <4>1 DEF SendEffect, Becomes
      <4>   QED
            BY <1>3, <4>2, <4>3 DEF Comes
    <3>2. CASE ~Sends
          BY <1>3, <3>2, WaitFrame DEF Comes
    <3>   QED
          BY <3>1, <3>2
  <2>   QED
        BY <2>1, <2>2 DEF ComesNext
<1>4. asks \in Seq(Packet) /\ answers \in Seq(Answer)
      BY DEF Shaped
<1>5. ASSUME NEW n, Acked(n)
      PROVE  IsDone(n)
  <2>1. answers[1].what = "ack" /\ answers[1].op = n /\ 1 \in DOMAIN answers
        BY <1>4, <1>5 DEF Acked, AckEffect
  <2>   QED
        BY <2>1 DEF Sent
<1>6. ASSUME NEW n, NEW v, Comes(n, v), ~DropEffect, ~CrashEffect
      PROVE  ComesNext(n, v)
      BY <1>3, <1>5, <1>6
<1>   DEFINE A(n) == ComesNext(asks'[n].op, asks'[n].v)
             B(n) == answers'[n].what = "ack" =>
                        ComesNext(answers'[n].op, answers'[n].v) /\ DoneNext(answers'[n].op)
<1>7. CASE DropEffect \/ CrashEffect
  <2>1. asks' = <<>> /\ answers' = <<>>
        BY <1>7 DEF DropEffect, CrashEffect
  <2>2. DOMAIN asks' = {} /\ DOMAIN answers' = {}
        BY <2>1
  <2>   QED
        BY <2>2 DEF Sent
<1>8. CASE ~DropEffect /\ ~CrashEffect
  <2>1. \A n \in DOMAIN asks : ComesNext(asks[n].op, asks[n].v)
        BY <1>6, <1>8 DEF Sent
  <2>2. \A n \in DOMAIN answers : answers[n].what = "ack" =>
            ComesNext(answers[n].op, answers[n].v) /\ DoneNext(answers[n].op)
        BY <1>2, <1>6, <1>8 DEF Sent
  <2>3. \A n \in DOMAIN asks' : A(n)
    <3>1. CASE asks' = asks \/ asks' = <<>>
          BY <2>1, <3>1
    <3>2. CASE TakeEffect
      <4>1. asks # <<>> /\ asks' = Tail(asks)
            BY <3>2 DEF TakeEffect
      <4>   QED
            BY <1>4, <2>1, <4>1
    <3>3. ASSUME NEW j \in jobs, UploadEffect(j), NEW op, SendEffect(j, op)
          PROVE  \A n \in DOMAIN asks' : A(n)
      <4>1. PICK p \in Packet : p.op = op /\ p.v = j.v /\ asks' = Append(asks, p)
            BY <3>3 DEF SendEffect
      <4>2. ComesNext(op, j.v)
        <5>1. PICK k : k.op = op /\ k.v = j.v /\ jobs' = (jobs \ {j}) \cup {k}
              BY <3>3 DEF SendEffect, Becomes
        <5>2. LiveNext(op)
              BY <3>3 DEF SendEffect, LiveNext
        <5>3. ~IsLive(op)
              BY <3>3, SendsNew DEF UploadEffect
        <5>   QED
              BY <5>1, <5>2, <5>3 DEF ComesNext, Waits
      <4>   HIDE DEF ComesNext
      <4>   QED
            BY <1>4, <2>1, <4>1, <4>2
    <3>   QED
          BY <3>1, <3>2, <3>3, WireFrame
  <2>4. \A n \in DOMAIN answers' : B(n)
    <3>1. CASE answers' = answers \/ answers' = <<>>
          BY <2>2, <3>1
    <3>2. CASE answers # <<>> /\ answers' = Tail(answers)
          BY <1>4, <2>2, <3>2
    <3>3. CASE TakeEffect
      <4>1. PICK a \in Answer : /\ a.op = asks[1].op /\ a.v = asks[1].v
                                /\ answers' = Append(answers, a)
            BY <3>3 DEF TakeEffect
      <4>2. 1 \in DOMAIN asks
            BY <1>4, <3>3 DEF TakeEffect
      <4>3. ComesNext(asks[1].op, asks[1].v)
            BY <2>1, <4>2
      <4>4. DoneNext(asks[1].op)
            BY <3>3 DEF TakeEffect, DoneNext
      <4>   QED
            BY <1>4, <2>2, <4>1, <4>3, <4>4
    <3>4. CASE TheirEffect
      <4>1. CASE \E a \in Answer : a.what = "updated" /\ answers' = Append(answers, a)
        <5>1. PICK a \in Answer : a.what = "updated" /\ answers' = Append(answers, a)
              BY <4>1
        <5>   QED
              BY <1>4, <2>2, <5>1
      <4>   QED
            BY <3>1, <3>4, <4>1 DEF TheirEffect
    <3>   QED
          BY <3>1, <3>2, <3>3, <3>4, WireFrame DEF UpdateEffect, AckEffect
  <2>   QED
        BY <2>3, <2>4
           DEF Sent, Comes, ComesNext, IsLive, LiveNext, IsDone, DoneNext, HasOp, HasNext
<1>   QED
      BY <1>7, <1>8
-----------------------------------------------------------------------------
SafeNext == tale'.mine \in {0} \cup tale'.had \cup aside'
\* What is safe stays so until the next save.
LEMMA SafeStays ==
    ASSUME Shaped, Effect, ~SaveEffect
    PROVE  /\ tale'.mine = tale.mine \/ tale'.mine = 0
           /\ Safe => SafeNext
           /\ tale.windows \subseteq tale'.windows
<1>1. /\ tale'.mine = tale.mine \/ tale'.mine = 0
      /\ tale.had \subseteq tale'.had /\ tale.windows \subseteq tale'.windows
      BY TaleFrame DEF TaleStays, AnswerEffect, TakeEffect, TheirEffect, GiveUp
<1>2. aside \subseteq aside'
  <2>1. ASSUME NEW j \in jobs, CommitEffect(j) \/ PutEffect(j)
        PROVE  aside \subseteq aside'
        BY <2>1 DEF CommitEffect, PutEffect
  <2>   QED
        BY <2>1, CopyFrame
<1>   QED
      BY <1>1, <1>2 DEF Safe, SafeNext

\* Handlers that write, and what they are to write over, stay but for three steps.
LEMMA WriteFrame ==
    ASSUME Effect
    PROVE  \/ \E j \in jobs : CompareEffect(j) \/ AnswerEffect(j) \/ CommitEffect(j)
           \/ \A k \in jobs' : k.step \in {"write", "put"} =>
                \E j \in jobs : k.step = j.step /\ k.saw = j.saw /\ k.park = j.park
<1>   DEFINE Kept == \A k \in jobs' : k.step \in {"write", "put"} =>
                        \E j \in jobs : k.step = j.step /\ k.saw = j.saw /\ k.park = j.park
<1>1. /\ \A j : Ending(j) => Kept
      /\ \A k, does, step : Starts(k, does, step) /\ step \notin {"write", "put"} => Kept
      /\ \A j, k, step : Becomes(j, k, step) /\ step \notin {"write", "put"} => Kept
      /\ FetchBegins => Kept
      BY DEF Ending, Starts, Becomes, FetchBegins
<1>2. jobs' = jobs \/ jobs' = {} => Kept
      OBVIOUS
<1>3. DropEffect => Kept
      BY DEF DropEffect
<1>   HIDE DEF Kept
<1>4. ASSUME NEW j \in jobs, HandlerEffect(j)
      PROVE  CompareEffect(j) \/ AnswerEffect(j) \/ CommitEffect(j) \/ Kept
      BY <1>1, <1>4 DEF HandlerEffect, LookEffect, UploadEffect, SendEffect, AckEffect,
         FetchEffect, PutEffect
<1>5. FlowEffects => Kept
      BY <1>1, <1>2 DEF FlowEffects, ConnEffect, SettleEffect, RefreshEffect, FlowEffect
<1>6. (\E o \in engine.ops : DrainEffect(o)) => Kept
      BY <1>1, <1>2 DEF DrainEffect
<1>7. Kept \/ \E j \in jobs : CompareEffect(j) \/ AnswerEffect(j) \/ CommitEffect(j)
      BY <1>1, <1>2, <1>3, <1>4, <1>5, <1>6 DEF Effect, SaveEffect, TellEffect, UpdateEffect,
         TakeEffect, TheirEffect, PersistEffect, CrashEffect, avars
<1>   QED
      BY <1>7 DEF Kept

\* No handler is to write over a version that is not safe,
WatchedNext == tale'.windows \cap {"overlooked", "twice"} = {}
GivenUpNext ==
    \A k \in jobs' : k.step \in {"write", "put"} /\ k.saw = tale'.mine =>
        SafeNext \/ (k.park /\ k.step = "write")
\* No handler comes to write over a version that is not safe.
LEMMA GivenUpHolds ==
    ASSUME Shaped, Drawn, Recorded, Effect, GivenUp, Standing, WatchedNext
    PROVE  GivenUpNext
<1>1. CASE SaveEffect
  <2>1. CASE copy' = engine.record
    <3>1. SafeNext
          BY <1>1, <2>1 DEF SaveEffect, Recorded, SafeNext
    <3>   QED
          BY <3>1 DEF GivenUpNext
  <2>2. CASE copy' = tale.drawn + 1
    <3>1. ASSUME NEW k \in jobs', k.saw = tale'.mine
          PROVE  FALSE
      <4>1. k \in jobs /\ k.saw = tale.drawn + 1
            BY <1>1, <2>2, <3>1 DEF SaveEffect
      <4>2. k.saw \in Nat /\ k.saw <= tale.drawn /\ tale.drawn \in Nat
            BY <4>1 DEF Shaped, IsJob, IsTale, Drawn
      <4>   QED
            BY <4>1, <4>2
    <3>   QED
          BY <3>1 DEF GivenUpNext
  <2>   QED
        BY <1>1, <2>1, <2>2 DEF SaveEffect
<1>2. CASE ~SaveEffect
  <2>1. /\ tale'.mine = tale.mine \/ SafeNext
        /\ Safe => SafeNext
        BY <1>2, SafeStays DEF SafeNext
  <2>2. ASSUME ~SafeNext
        PROVE  /\ tale'.mine = tale.mine /\ ~Safe /\ copy = tale.mine
               /\ \A j \in jobs : j.step \in {"write", "put"} /\ j.saw = tale.mine =>
                     j.park /\ j.step = "write"
        BY <2>1, <2>2 DEF GivenUp, Standing
  <2>3. ASSUME NEW j \in jobs, CompareEffect(j)
        PROVE  GivenUpNext
    <3>1. PICK k : /\ Becomes(j, k, "ask") \/ Becomes(j, k, "write")
                   /\ k.saw = copy
                   /\ \/ copy = 0 \/ copy = j.v \/ copy = engine.known[j.meta] \/ k.step = "ask"
                      \/ "twice" \in tale'.windows
          BY <2>3 DEF CompareEffect
    <3>2. j.v \in tale.had /\ engine.known[j.meta] \in tale.had
          BY <2>3 DEF CompareEffect, Recorded, Shaped, IsJob
    <3>3. ~Safe /\ copy = tale.mine => k.step # "write"
          BY <3>1, <3>2 DEF Safe, WatchedNext, Becomes
    <3>4. jobs' = (jobs \ {j}) \cup {k} /\ k.step \in {"ask", "write"}
          BY <3>1 DEF Becomes
    <3>   QED
          BY <2>2, <3>3, <3>4 DEF GivenUpNext
  <2>4. ASSUME NEW j \in jobs, AnswerEffect(j)
        PROVE  GivenUpNext
    <3>1. ASSUME NEW k \in jobs', k.step \in {"write", "put"}, k.saw = tale'.mine, ~SafeNext
          PROVE  k.park /\ k.step = "write"
      <4>1. tale'.mine = tale.mine /\ tale'.mine # 0
            BY <2>2, <3>1 DEF SafeNext
      <4>2. CASE k \in jobs
            BY <2>2, <3>1, <4>1, <4>2
      <4>3. CASE k \notin jobs
        <5>1. \/ tale'.mine = GiveUp(tale, j.saw) /\ k.saw = j.saw
              \/ k.step = "write" /\ k.park
              BY <2>4, <3>1, <4>3 DEF AnswerEffect, Becomes, Ending
        <5>2. ~(tale'.mine = GiveUp(tale, j.saw) /\ k.saw = j.saw)
              BY <3>1, <4>1 DEF GiveUp
        <5>   QED
              BY <5>1, <5>2
      <4>   QED
            BY <4>2, <4>3
    <3>   QED
          BY <3>1 DEF GivenUpNext
  <2>5. ASSUME NEW j \in jobs, CommitEffect(j)
        PROVE  GivenUpNext
    <3>1. CASE Ending(j)
          BY <2>2, <3>1 DEF GivenUpNext, Ending
    <3>2. CASE /\ IF j.park THEN copy' = 0 /\ aside' = aside \cup {copy}
                          ELSE UNCHANGED <<copy, aside>>
               /\ \E k : Becomes(j, k, "put") /\ k.saw = j.saw
      <4>1. PICK k : Becomes(j, k, "put") /\ k.saw = j.saw
            BY <3>2
      <4>2. jobs' = (jobs \ {j}) \cup {k}
            BY <4>1 DEF Becomes
      <4>3. ~SafeNext => k.saw # tale'.mine
            BY <2>2, <2>5, <3>2, <4>1 DEF CommitEffect, SafeNext
      <4>   QED
            BY <2>2, <4>2, <4>3 DEF GivenUpNext
    <3>   QED
          BY <2>5, <3>1, <3>2 DEF CommitEffect
  <2>6. CASE \A k \in jobs' : k.step \in {"write", "put"} =>
                \E j \in jobs : k.step = j.step /\ k.saw = j.saw /\ k.park = j.park
        BY <2>2, <2>6 DEF GivenUpNext
  <2>   QED
        BY <2>3, <2>4, <2>5, <2>6, WriteFrame
<1>   QED
      BY <1>1, <1>2

\* and one that is not safe is the copy's.
LEMMA StandingHolds ==
    ASSUME Shaped, Recorded, Effect, GivenUp, Standing, WatchedNext
    PROVE  SafeNext \/ copy' = tale'.mine
<1>1. CASE SaveEffect
      BY <1>1 DEF SaveEffect
<1>2. CASE ~SaveEffect
  <2>   SUFFICES ASSUME ~SafeNext PROVE copy' = tale'.mine
        OBVIOUS
  <2>1. tale'.mine = tale.mine /\ ~Safe /\ copy = tale.mine
        BY <1>2, SafeStays DEF SafeNext, Standing
  <2>2. ASSUME NEW j \in jobs, CommitEffect(j)
        PROVE  copy' = copy
        BY <2>1, <2>2 DEF CommitEffect, SafeNext
  <2>3. ASSUME NEW j \in jobs, PutEffect(j)
        PROVE  FALSE
    <3>1. j.step = "put" /\ copy \in {0, j.saw, j.v}
          BY <2>3 DEF PutEffect, WatchedNext
    <3>2. j.v \in tale.had
          BY <3>1 DEF Recorded
    <3>3. copy = j.saw
          BY <2>1, <3>1, <3>2 DEF Safe
    <3>   QED
          BY <2>1, <3>1, <3>3 DEF GivenUp
  <2>   QED
        BY <1>2, <2>1, <2>2, <2>3, CopyFrame
<1>   QED
      BY <1>1, <1>2

\* Who is to bring a version to the server goes on to.
LEMMA ToldFrame ==
    ASSUME Effect
    PROVE  told' = told \/ SaveEffect \/ TellEffect \/ CrashEffect
<1>1. ASSUME NEW j \in jobs, HandlerEffect(j)
      PROVE  told' = told
      BY <1>1 DEF HandlerEffect, LookEffect, UploadEffect, AckEffect, FetchEffect, CompareEffect,
         AnswerEffect, CommitEffect, PutEffect
<1>2. FlowEffects => told' = told
      BY DEF FlowEffects, ConnEffect, SettleEffect, RefreshEffect, FlowEffect
<1>   QED
      BY <1>1, <1>2 DEF Effect, UpdateEffect, DrainEffect, TakeEffect, TheirEffect, DropEffect,
         PersistEffect, avars
\* A handler that looks, sends or waits goes on until its own next step, a drop or a crash.
LEMMA CareFrame ==
    ASSUME Effect, NEW j \in jobs, j.step \in {"look", "load", "wait"}
    PROVE  \/ j \in jobs' \/ LookEffect(j) \/ UploadEffect(j) \/ AckEffect(j)
           \/ DropEffect \/ CrashEffect
<1>1. /\ \A i : Ending(i) /\ i # j => j \in jobs'
      /\ \A i, k, step : Becomes(i, k, step) /\ i # j => j \in jobs'
      /\ \A k, does, step : Starts(k, does, step) => j \in jobs'
      /\ FetchBegins => j \in jobs'
      /\ jobs' = jobs => j \in jobs'
      BY DEF Ending, Becomes, Starts, FetchBegins
<1>2. ASSUME NEW i \in jobs, HandlerEffect(i)
      PROVE  j \in jobs' \/ LookEffect(j) \/ UploadEffect(j) \/ AckEffect(j)
  <2>1. CASE i # j
        BY <1>1, <1>2, <2>1 DEF HandlerEffect, LookEffect, UploadEffect, SendEffect, AckEffect,
           FetchEffect, CompareEffect, AnswerEffect, CommitEffect, PutEffect
  <2>2. CASE i = j
        BY <1>2, <2>2 DEF HandlerEffect, FetchEffect, CompareEffect, AnswerEffect, CommitEffect,
           PutEffect
  <2>   QED
        BY <2>1, <2>2
<1>3. FlowEffects => j \in jobs'
      BY <1>1 DEF FlowEffects, ConnEffect, SettleEffect, RefreshEffect, FlowEffect
<1>   QED
      BY <1>1, <1>2, <1>3 DEF Effect, SaveEffect, TellEffect, UpdateEffect, DrainEffect,
         TakeEffect, TheirEffect, PersistEffect, avars

CaredNext ==
    \/ told'
    \/ \E k \in jobs' : k.step = "look"
    \/ \E k \in jobs' : k.step \in {"load", "wait"} /\ k.v = tale'.mine
    \/ \E o \in engine'.ops : ~o.live /\ \A k \in jobs' : k.does = "drain" => k.op # o.id
\* A version that is not safe is cared for.
LEMMA CaredHolds ==
    ASSUME Shaped, Recorded, Ops, Drains, Waits, Sent, Effect,
           Standing, Safe \/ Cared, "untold" \notin tale'.windows
    PROVE  SafeNext \/ CaredNext
<1>1. SaveEffect => CaredNext
      BY DEF SaveEffect, CaredNext
<1>   SUFFICES ASSUME ~SafeNext, ~SaveEffect PROVE CaredNext
      BY <1>1
<1>2. tale'.mine = tale.mine /\ ~Safe /\ copy = tale.mine /\ Cared
      BY SafeStays DEF SafeNext, Standing
<1>3. CASE CrashEffect
  <2>1. copy = doc.record \/ doc.ops # {}
        BY <1>3 DEF CrashEffect
  <2>2. copy # doc.record
        BY <1>2 DEF Safe, Recorded
  <2>   QED
        BY <1>3, <2>1, <2>2 DEF CrashEffect, CaredNext, Ops
<1>4. ASSUME Queues
      PROVE  \E o \in engine'.ops : ~o.live /\ o.id = NewOp
      BY <1>4 DEF Queues
<1>5. \A k \in jobs : k.does = "drain" => k.op # NewOp
      BY NewOpIsNew DEF Drains
<1>6. ASSUME Queues, NEW j, Ending(j)
      PROVE  CaredNext
      BY <1>4, <1>5, <1>6 DEF CaredNext, Ending
<1>7. CASE DropEffect
  <2>1. ASSUME NEW n, HasOp(n)
        PROVE  CaredNext
    <3>1. PICK o \in engine'.ops : o.id = n /\ ~o.live
          BY <1>7, <2>1 DEF DropEffect, HasOp
    <3>   QED
          BY <1>7, <3>1 DEF DropEffect, CaredNext
  <2>2. CASE told
        BY <1>7, <2>2 DEF DropEffect, CaredNext
  <2>3. ASSUME NEW j \in jobs, j.step = "look" \/ (j.step \in {"load", "wait"} /\ j.v = tale.mine)
        PROVE  CaredNext
    <3>1. CASE j.step = "wait" \/ j.does = "drain"
      <4>1. HasOp(j.op)
            BY <3>1 DEF Waits, Drains, IsLive, HasOp
      <4>   QED
            BY <2>1, <4>1
    <3>2. CASE j.step # "wait" /\ j.does # "drain"
      <4>1. PICK k \in jobs' : k.step = j.step /\ k.v = j.v
            BY <1>7, <3>2 DEF DropEffect
      <4>   QED
            BY <1>2, <2>3, <3>2, <4>1 DEF CaredNext
    <3>   QED
          BY <3>1, <3>2
  <2>4. ASSUME NEW o \in engine.ops
        PROVE  CaredNext
        BY <2>1 DEF HasOp
  <2>   QED
        BY <1>2, <2>2, <2>3, <2>4 DEF Cared
<1>8. CASE ~CrashEffect /\ ~DropEffect
  <2>1. CASE told
    <3>1. TellEffect => CaredNext
          BY DEF TellEffect, Starts, CaredNext
    <3>   QED
          BY <1>8, <2>1, <3>1, ToldFrame DEF CaredNext
  <2>2. ASSUME NEW j \in jobs, j.step = "look"
        PROVE  CaredNext
    <3>1. CASE j \in jobs'
          BY <2>2, <3>1 DEF CaredNext
    <3>2. CASE LookEffect(j)
      <4>1. copy \notin {0, engine.known[j.meta]}
            BY <1>2 DEF Safe, Recorded, Shaped, IsJob
      <4>2. ASSUME NEW k, Becomes(j, k, "load"), k.v = copy
            PROVE  CaredNext
            BY <1>2, <4>2 DEF Becomes, CaredNext
      <4>   QED
            BY <1>6, <3>2, <4>1, <4>2 DEF LookEffect
    <3>   QED
          BY <1>8, <2>2, <3>1, <3>2, CareFrame DEF UploadEffect, AckEffect
  <2>3. ASSUME NEW j \in jobs, j.step \in {"load", "wait"}, j.v = tale.mine
        PROVE  CaredNext
    <3>1. CASE j \in jobs'
          BY <1>2, <2>3, <3>1 DEF CaredNext
    <3>2. CASE UploadEffect(j)
      <4>1. ASSUME NEW op, SendEffect(j, op)
            PROVE  CaredNext
        <5>1. PICK k : Becomes(j, k, "wait") /\ k.v = j.v
              BY <4>1 DEF SendEffect
        <5>   QED
              BY <1>2, <2>3, <5>1 DEF Becomes, CaredNext
      <4>   QED
            BY <1>6, <3>2, <4>1 DEF UploadEffect
    <3>3. ~AckEffect(j)
          BY <1>2, <2>3, AnswerIs DEF Safe
    <3>   QED
          BY <1>8, <2>3, <3>1, <3>2, <3>3, CareFrame DEF LookEffect
  <2>4. ASSUME NEW o \in engine.ops, ~o.live, \A j \in jobs : j.does = "drain" => j.op # o.id
        PROVE  CaredNext
    <3>1. ASSUME o \in engine'.ops, \A k \in jobs' : k.does = "drain" => k \in jobs
          PROVE  CaredNext
          BY <2>4, <3>1 DEF CaredNext
    <3>2. CASE Sends
      <4>0. PICK j \in jobs : \E op : UploadEffect(j) /\ SendEffect(j, op)
            BY <3>2 DEF Sends
      <4>1. PICK op : UploadEffect(j) /\ SendEffect(j, op)
            BY <4>0
      <4>2. op # o.id
            BY <2>4, <4>1, NewOpIsNew DEF SendEffect, HasOp
      <4>3. o \in engine'.ops
            BY <4>1, <4>2 DEF SendEffect
      <4>4. PICK k : k.op = op /\ jobs' = (jobs \ {j}) \cup {k}
            BY <4>1 DEF SendEffect, Becomes
      <4>   QED
            BY <2>4, <4>2, <4>3, <4>4 DEF CaredNext
    <3>3. ASSUME NEW p \in engine.ops, DrainEffect(p)
          PROVE  CaredNext
      <4>1. copy \notin {0, engine.known[Indexed]}
        <5>1. Indexed \in DOMAIN engine.known
              BY DEF Indexed, Shaped, IsEngine
        <5>   QED
              BY <1>2, <5>1 DEF Safe, Recorded
      <4>2. PICK k : Starts(k, "drain", "load") /\ k.v = copy
            BY <3>3, <4>1 DEF DrainEffect
      <4>   QED
            BY <1>2, <4>2 DEF Starts, CaredNext
    <3>4. CASE SettleEffect
      <4>1. \E p \in engine'.ops : ~p.live
            BY <2>4, <3>4 DEF SettleEffect
      <4>2. jobs' = jobs /\ \A j \in jobs : j.does # "drain"
            BY <3>4 DEF SettleEffect, Drains
      <4>   QED
            BY <4>1, <4>2 DEF CaredNext
    <3>5. ASSUME ~Sends, ~(\E p \in engine.ops : DrainEffect(p)), ~SettleEffect
          PROVE  o \in engine'.ops
      <4>1. CASE Queues \/ engine'.ops = engine.ops
            BY <4>1, LogGrows
      <4>2. ASSUME NEW j \in jobs, AckEffect(j)
            PROVE  o \in engine'.ops
        <5>1. IsLive(j.op)
              BY <4>2 DEF AckEffect, Waits
        <5>2. o.id # j.op
              BY <2>4, <5>1 DEF IsLive, Ops, OneEach
        <5>   QED
              BY <4>2, <5>2 DEF AckEffect
      <4>   QED
            BY <1>8, <3>5, <4>1, <4>2, LogFrame
    <3>   QED
          BY <3>1, <3>2, <3>3, <3>4, <3>5, DrainFrame
  <2>   QED
        BY <1>2, <2>1, <2>2, <2>3, <2>4 DEF Cared
<1>   QED
      BY <1>3, <1>7, <1>8

-----------------------------------------------------------------------------
\* All of it holds to begin with,
LEMMA InitHolds == AttachmentsInit => AInv
<1>   SUFFICES ASSUME AttachmentsInit PROVE AInv
      OBVIOUS
<1>1. /\ copy = 1 /\ aside = {} /\ jobs = {} /\ asks = <<>> /\ answers = <<>>
      /\ doc = [record |-> 1, taken |-> 0, ops |-> {}] /\ engine = Loaded(doc) /\ conn = Offline
      /\ remote = [v |-> 1, count |-> 0, last |-> 0, did |-> {}]
      /\ tale = [drawn |-> 1, mine |-> 0, had |-> {1}, chosen |-> {}, unasked |-> FALSE,
                 windows |-> {}]
      BY DEF AttachmentsInit
<1>2. IsDoc(doc) /\ doc.ops = {} /\ doc.record = 1
      BY <1>1 DEF IsDoc
<1>3. /\ IsEngine(engine) /\ engine.known = <<1>> /\ engine.record = 1 /\ engine.ops = {}
      BY <1>1, <1>2, LoadedIs
<1>4. IsConn(conn) /\ IsRemote(remote) /\ IsTale(tale)
      BY <1>1 DEF Offline, IsConn, IsRemote, IsTale
<1>5. Shaped
      BY <1>1, <1>2, <1>3, <1>4 DEF Shaped
<1>6. Drawn /\ Recorded
      BY <1>1, <1>2, <1>3 DEF Drawn, Recorded
<1>7. Below(0)
      BY <1>1, <1>2, <1>3 DEF Below
<1>8. Ops /\ Drains /\ Waits /\ Sent
      BY <1>1, <1>2, <1>3, <1>7 DEF Ops, OneEach, Drains, Waits, Sent
<1>9. Safe /\ GivenUp /\ Standing
      BY <1>1 DEF Safe, GivenUp, Standing
<1>   QED
      BY <1>5, <1>6, <1>8, <1>9 DEF AInv

\* and every step keeps it.
LEMMA StepHolds == AInv /\ [AttachmentsNext]_avars => AInv'
<1>   SUFFICES ASSUME AInv, [AttachmentsNext]_avars PROVE AInv'
      OBVIOUS
<1>1. Shaped /\ Drawn /\ Recorded /\ Ops /\ Drains /\ Waits /\ Sent
      BY DEF AInv
<1>2. Effect
      BY <1>1, NextIs
<1>3. Shaped' /\ Drawn' /\ Recorded' /\ Drains' /\ Waits' /\ Sent'
      BY <1>1, <1>2, ShapedNext, DrawnNext, RecordedNext, DrainsNext, WaitsNext, SentNext
<1>4. Ops'
      BY <1>1, <1>2, <1>3, OpsNext
<1>5. tale.windows \subseteq tale'.windows
      BY <1>1, <1>2, SafeStays DEF SaveEffect
<1>6. ASSUME Watched'
      PROVE  GivenUp' /\ Standing'
  <2>1. WatchedNext /\ Watched
        BY <1>5, <1>6 DEF WatchedNext, Watched
  <2>2. GivenUp /\ Standing
        BY <2>1 DEF AInv
  <2>3. GivenUpNext /\ (SafeNext \/ copy' = tale'.mine)
        BY <1>1, <1>2, <2>1, <2>2, GivenUpHolds, StandingHolds
  <2>   QED
        BY <2>3 DEF GivenUpNext, GivenUp, SafeNext, Safe, Standing
<1>7. ASSUME Watched', Remembered'
      PROVE  Safe' \/ Cared'
  <2>1. Watched /\ Remembered /\ "untold" \notin tale'.windows
        BY <1>5, <1>7 DEF Watched, Remembered
  <2>2. Standing /\ (Safe \/ Cared)
        BY <2>1 DEF AInv
  <2>3. SafeNext \/ CaredNext
        BY <1>1, <1>2, <2>1, <2>2, CaredHolds
  <2>   QED
        BY <2>3 DEF SafeNext, Safe, CaredNext, Cared
<1>   QED
      BY <1>3, <1>4, <1>6, <1>7 DEF AInv

\* What is true of the versions of an attachment in every state: what the index, the
\* log and the server hold has been the server's, an operation is waited for by one
\* handler at most, and a version saved here that is not safe stands in the vault and
\* is cared for.
THEOREM AttachmentsInvariant == AttachmentsSpec => []AInv
<1>   QED
      BY InitHolds, StepHolds, PTL DEF AttachmentsSpec

\* Whatever the saves, teammates' versions, answers to the prompt, drops and crashes, a
\* version saved here is kept until the user gives it up (sendLocalBinaryUpdate,
\* applyServerUpdateBinary, the drain), but for the three windows the model names.
THEOREM VersionKeptAlways == AttachmentsSpec => []VersionKept
<1>1. AInv => VersionKept
  <2>   SUFFICES ASSUME AInv, tale.windows \cap {"overlooked", "twice", "untold"} = {}
                 PROVE  tale.mine \in {0} \cup tale.had \cup aside
                                        \cup (IF AttachmentsAtRest THEN {} ELSE {copy})
        BY DEF VersionKept
  <2>1. (Safe \/ Cared) /\ (Safe \/ copy = tale.mine)
        BY DEF AInv, Watched, Remembered, Standing
  <2>2. AttachmentsAtRest => ~Cared
        BY DEF AttachmentsAtRest, Cared
  <2>   QED
        BY <2>1, <2>2 DEF Safe
<1>   QED
      BY <1>1, AttachmentsInvariant, PTL
-----------------------------------------------------------------------------
(***************************************************************************)
(* What a catch-up reports, and what the queue sends after it.             *)
(***************************************************************************)
Asking == {"compare", "ask", "write", "put"}
\* A teammate's last version is the server's, and was not sent from here.
Owed ==
    /\ tale.windows \cap {"outlived", "unchecked"} = {}
    /\ remote.last # 0 /\ remote.v = remote.last /\ \A d \in remote.did : d.v # remote.last
\* It is what is recorded here, or the user chose the copy over it.
Dealt == engine.record = remote.last \/ remote.last \in tale.chosen
\* The clock covers it, or this connection's catch-up does and its rows are being looked
\* at, or a handler of an earlier one's will have it covered.
RowsOf == conn.at \in {"rows", "up"} /\ conn.covers = remote.count
Caught == engine.taken = remote.count \/ RowsOf \/ \E j \in jobs : j.covers = remote.count
Joined == conn.at = "joined" /\ conn.covers = remote.count

\* Counts of teammates' updates, and versions other than none.
Counts ==
    /\ budget \in [Kinds -> Nat]
    /\ remote.count \in Nat /\ (remote.last # 0 => remote.count # 0)
    /\ engine.taken \in 0 .. remote.count /\ engine.logged \in 0 .. engine.taken
    /\ doc.taken \in 0 .. engine.taken
    /\ conn.covers \in 0 .. remote.count /\ \A j \in jobs : j.covers \in 0 .. remote.count
Versions ==
    /\ 0 \notin tale.had /\ remote.last \in {0} \cup tale.had
    /\ \A j \in jobs : /\ j.step \in {"load", "wait"} => j.v # 0
                       /\ j.step = "ask" => j.saw # 0
                       /\ j.park => j.step \in {"write", "put"}
    /\ \A n \in DOMAIN asks : asks[n].v # 0
\* What the last catch-up reported is the teammates' last version, or has been replaced.
Reported ==
    conn.at \in {"joined", "rows", "up"} =>
       /\ conn.top \in {0} \cup tale.had
       /\ conn.covers = remote.count => conn.top = remote.last
       /\ conn.covers # remote.count /\ conn.top # 0 =>
             remote.v # conn.top \/ \E d \in remote.did : d.v = conn.top
\* What an operation is over was chosen against; what has landed went out, and its answer
\* is on the way or its connection is gone.
Landing ==
    /\ \A o \in engine.ops \cup doc.ops : o.over \in {0} \cup tale.chosen
    /\ \A j \in jobs : j.over \in {0} \cup tale.chosen
    /\ \A o \in engine.ops : o.live \/ IsDone(o.id) => o.sent
    /\ budget.crash > 0 => \A o \in doc.ops : IsLive(o.id) \/ IsDone(o.id) => o.sent
    /\ conn.at \notin {"down", "open"} =>
          \A o \in engine.ops : IsDone(o.id) =>
             \E n \in DOMAIN answers : answers[n].what = "ack" /\ answers[n].op = o.id
\* The handler the connect flow waits for, and the drain's.
Flowing ==
    \A j \in jobs :
       /\ j.flow => conn.at = "rows" /\ j.meta = Indexed /\ j.covers = conn.covers
                    /\ j.does = "apply" /\ j.step # "look"
       /\ j.does = "drain" => j.meta = Indexed

\* Nothing of what was sent before it is still to be answered.
Answered ==
    /\ \A n \in DOMAIN answers : answers[n].what # "ack"
    /\ \A o \in engine.ops : ~IsDone(o.id)
\* Handlers with the index's entry have it; once one has put the copy aside for it, it is recorded.
Meant ==
    \A j \in jobs : j.meta = Indexed =>
       /\ j.step \in Asking => j.v = remote.last
       /\ copy = 0 /\ (j.step = "ask" \/ (j.step = "write" /\ j.park)) => Dealt
\* And so have those that will have it covered.
Covering ==
    \A j \in jobs : j.covers = remote.count =>
       /\ j.step # "look" /\ (j.step \in Asking => j.v = remote.last)
       /\ j.step \in {"load", "wait"} => remote.last \in tale.chosen
       /\ j.step = "put" \/ engine.known[j.meta] = remote.last => Dealt
\* How far the catch-up is with it.
Rows ==
    /\ Joined /\ ~conn.cut => engine.taken = remote.count \/ conn.todo = <<remote.last>>
    /\ RowsOf => engine.known[Indexed] = engine.record
    /\ RowsOf => Dealt \/ (conn.at = "rows" /\ (conn.todo = <<remote.last>> \/ \E j \in jobs : j.flow))
\* What the clock covers is dealt with; but of a catch-up cut short the listing is checked first.
Clock ==
    /\ engine.taken = remote.count => Dealt \/ (conn.cut /\ conn.at = "rows" /\ RowsOf)
    /\ doc.taken = remote.count =>
          /\ Dealt
          /\ budget.crash > 0 => /\ doc.record = remote.last \/ remote.last \in tale.chosen
                                 /\ \A o \in doc.ops : ~IsDone(o.id)
\* What the queue sends says what it is over.
Bases ==
    \A n \in DOMAIN asks : asks[n].drain =>
       conn.at = "up" /\ (Owed /\ RowsOf => asks[n].base = remote.last \/ remote.last \in tale.chosen)

Minded ==
    /\ Caught \/ Joined => Answered
    /\ Caught => Meant
    /\ Covering /\ Rows /\ Clock
CInv ==
    /\ Counts /\ Versions /\ Reported /\ Landing /\ Flowing /\ Bases
    /\ Owed => Minded
    /\ TheirsAsked

-----------------------------------------------------------------------------
\* The clock, of an update or of a row that is through.
LEMMA CoveredTakes ==
    ASSUME NEW g, IsEngine(g), g.taken \in Nat, NEW n \in Nat
    PROVE  LET h == Covered(g, n) IN
           /\ h.taken \in {g.taken, n} /\ g.taken <= h.taken /\ n <= h.taken
           /\ h.logged = g.logged
<1>   DEFINE m == Max({g.taken, n})
<1>1. m \in {g.taken, n} /\ g.taken <= m /\ n <= m
      BY LargerOfTwo
<1>2. Covered(g, n).taken = m /\ Covered(g, n).logged = g.logged
      BY DEF Covered, IsEngine
<1>   HIDE DEF m
<1>   QED
      BY <1>1, <1>2
\* The log's clock.
LEMMA LoggedTakes ==
    ASSUME NEW g, IsEngine(g)
    PROVE  Logged(g).taken = g.taken /\ Logged(g).logged = g.taken
BY DEF Logged, IsEngine
\* A handler as it begins.
LEMMA HandlerFresh ==
    ASSUME Shaped, NEW does, NEW step, NEW v
    PROVE  LET k == Handler(does, step, v) IN
           /\ k.meta = Indexed /\ k.over = 0 /\ k.covers = 0 /\ ~k.flow
           /\ k.step = step /\ k.does = does /\ k.v = v /\ ~k.park
BY DEF Handler, Indexed

\* What the steps do to the index's entries, to the clock and to the log.
IndexSame == engine'.known = engine.known /\ engine'.record = engine.record
ClockTo(n) ==
    /\ engine'.taken \in {engine.taken, n} /\ engine.taken <= engine'.taken /\ n <= engine'.taken
    /\ engine'.logged = engine.logged
LogGets(over) ==
    \E o : /\ o.id = NewOp /\ o.over = over /\ ~o.live /\ ~o.sent
           /\ engine'.ops = engine.ops \cup {o}
\* The history, but for what was saved here.
HistoryGrows ==
    /\ tale'.had = tale.had /\ tale.chosen \subseteq tale'.chosen
    /\ tale.windows \subseteq tale'.windows /\ tale'.unasked = tale.unasked

\* What is queued, with the clock that goes with it.
LEMMA EnqueuedGets ==
    ASSUME Shaped, Ops, Counts, NEW over, NEW n \in Nat, engine' = Covered(Enqueued(over), n)
    PROVE  IndexSame /\ ClockTo(n) /\ LogGets(over)
<1>   DEFINE o == Operation(NewOp, over)
<1>1. IsOp(o) /\ o.id = NewOp /\ o.over = over /\ ~o.live /\ ~o.sent
      BY NewOpIsNew, OperationIs DEF Operation
<1>2. /\ IsEngine(Enqueued(over)) /\ Enqueued(over).known = engine.known
      /\ Enqueued(over).record = engine.record
      /\ Enqueued(over).ops = engine.ops \cup {o}
      BY <1>1, AddedIs DEF Shaped, Enqueued
<1>3. Enqueued(over).taken = engine.taken /\ Enqueued(over).logged = engine.logged
      BY DEF Enqueued, Shaped, IsEngine
<1>4. engine.taken \in Nat
      BY DEF Counts
<1>   HIDE DEF o
<1>5. IndexSame /\ engine'.ops = engine.ops \cup {o}
      BY <1>2, CoveredIs DEF IndexSame
<1>6. ClockTo(n)
      BY <1>2, <1>3, <1>4, CoveredTakes DEF ClockTo
<1>   QED
      BY <1>1, <1>5, <1>6 DEF LogGets
\* The same without a row.
LEMMA EnqueuedAlone ==
    ASSUME Shaped, Ops, Counts, NEW over, engine' = Enqueued(over)
    PROVE  IndexSame /\ ClockTo(0) /\ LogGets(over)
<1>   DEFINE o == Operation(NewOp, over)
<1>1. IsOp(o) /\ o.id = NewOp /\ o.over = over /\ ~o.live /\ ~o.sent
      BY NewOpIsNew, OperationIs DEF Operation
<1>2. IndexSame /\ engine'.ops = engine.ops \cup {o}
      BY <1>1, AddedIs DEF Shaped, Enqueued, IndexSame
<1>3. engine'.taken = engine.taken /\ engine'.logged = engine.logged /\ engine.taken \in Nat
      BY DEF Enqueued, Shaped, IsEngine, Counts
<1>   QED
      BY <1>1, <1>2, <1>3 DEF LogGets, ClockTo
\* A row that is through.
LEMMA CoveredKeeps ==
    ASSUME Shaped, Counts, NEW n \in Nat, engine' = Covered(engine, n)
    PROVE  IndexSame /\ ClockTo(n) /\ engine'.ops = engine.ops
<1>1. IsEngine(engine) /\ engine.taken \in Nat
      BY DEF Shaped, Counts
<1>   QED
      BY <1>1, CoveredIs, CoveredTakes DEF IndexSame, ClockTo
\* An index and a log that stay.
LEMMA SameEngine ==
    ASSUME Counts, engine' = engine
    PROVE  IndexSame /\ ClockTo(0) /\ engine'.ops = engine.ops
BY DEF IndexSame, ClockTo, Counts
\* A window met, in a history that stays.
LEMMA MeetsGrows ==
    ASSUME Shaped, NEW cond, NEW window, tale' = Meets(tale, cond, window)
    PROVE  HistoryGrows /\ tale'.chosen = tale.chosen /\ (cond => window \in tale'.windows)
BY DEF Shaped, HistoryGrows, Meets, IsTale
\* What is owed was.
LEMMA OwedBefore ==
    ASSUME remote' = remote, tale.windows \subseteq tale'.windows, Owed'
    PROVE  Owed
BY DEF Owed

\* A handler is through: what it had queued says what it is over, and what it has covered
\* is dealt with.
LEMMA EndsKeeps ==
    ASSUME AInv, CInv, NEW j \in jobs, jobs' = jobs \ {j}, NEW n \in {0, j.covers},
           IndexSame, ClockTo(n),
           engine'.ops = engine.ops \/ (\E over \in {0} \cup tale'.chosen : LogGets(over)),
           HistoryGrows, copy' = copy \/ copy' # 0,
           UNCHANGED <<doc, conn, asks, answers, remote, budget>>,
           Owed' /\ n = remote.count /\ engine.taken # remote.count => Dealt',
           Owed' /\ RowsOf /\ j.flow => Dealt'
    PROVE  CInv'
<1>1. /\ Counts /\ Versions /\ Reported /\ Landing /\ Flowing /\ Bases /\ TheirsAsked
      /\ Owed => Minded
      BY DEF CInv
<1>2. Shaped /\ Ops /\ Shaped
      BY DEF AInv
<1>3. Counts'
      BY <1>1 DEF Counts, ClockTo
<1>4. Versions' /\ Reported' /\ TheirsAsked'
      BY <1>1 DEF Versions, Reported, TheirsAsked, HistoryGrows
<1>5. \A o \in engine'.ops : \/ o \in engine.ops
                             \/ /\ o.over \in {0} \cup tale'.chosen /\ ~o.live
                                /\ ~\E d \in remote.did : d.op = o.id
      BY <1>2, NewOpIsNew DEF LogGets, IsDone
<1>6. Landing'
      BY <1>1, <1>5 DEF Landing, IsLive, IsDone, HistoryGrows
<1>7. Flowing'
      BY <1>1 DEF Flowing, IndexSame, Indexed
<1>8. ASSUME Owed' PROVE Owed
      BY <1>8, OwedBefore DEF HistoryGrows
<1>9. Bases'
      BY <1>1, <1>8 DEF Bases, RowsOf, HistoryGrows
<1>10. ASSUME Owed' PROVE Minded'
  <2>1. Owed /\ Minded /\ remote.last # 0 /\ remote.count \in Nat /\ remote.count # 0
        BY <1>1, <1>8, <1>10 DEF Owed, Counts
  <2>2. Dealt => Dealt'
        BY DEF Dealt, IndexSame, HistoryGrows
  <2>3. engine.taken = remote.count => engine'.taken = remote.count
        BY <1>1, <1>3 DEF Counts, ClockTo
  <2>4. engine'.taken = remote.count => engine.taken = remote.count \/ n = remote.count
        BY DEF ClockTo
  <2>5. (Caught' => Caught) /\ (Joined' => Joined) /\ (RowsOf' => RowsOf)
        BY <2>1, <2>4 DEF Caught, Joined, RowsOf
  <2>6. Caught' \/ Joined' => Answered'
        BY <2>1, <2>5, <1>5 DEF Minded, Answered, IsDone
  <2>7. Caught' => Meant'
        BY <2>1, <2>2, <2>5 DEF Minded, Meant, IndexSame, Indexed
  <2>8. Covering'
        BY <2>1, <2>2 DEF Minded, Covering, IndexSame, HistoryGrows
  <2>9. Rows'
        BY <2>1, <2>2, <2>3, <2>5, <1>10 DEF Minded, Rows, IndexSame, Indexed, Joined
  <2>10. Clock'
        BY <2>1, <2>2, <2>4, <1>10 DEF Minded, Clock, RowsOf, IsDone, HistoryGrows
  <2>   QED
        BY <2>6, <2>7, <2>8, <2>9, <2>10 DEF Minded
<1>   QED
      BY <1>3, <1>4, <1>6, <1>7, <1>9, <1>10 DEF CInv

\* Of a handler that goes on: what it keeps.
SameHandler(j, k) ==
    k.does = j.does /\ k.meta = j.meta /\ k.covers = j.covers /\ k.flow = j.flow

\* A handler goes on, as the invariant has it.
LEMMA GoesKeeps ==
    ASSUME AInv, CInv, NEW j \in jobs, NEW k, jobs' = (jobs \ {j}) \cup {k}, SameHandler(j, k),
           k.step \in {"load", "wait"} => k.v # 0,
           k.step = "ask" => k.saw # 0,
           k.park => k.step \in {"write", "put"},
           k.over \in {0} \cup tale'.chosen, k.step # "look",
           Owed' /\ Caught /\ j.meta = Indexed =>
               /\ k.step \in Asking => k.v = remote.last
               /\ copy = 0 /\ (k.step = "ask" \/ (k.step = "write" /\ k.park)) => Dealt',
           Owed' /\ j.covers = remote.count =>
               /\ k.step \in Asking => k.v = remote.last
               /\ k.step \in {"load", "wait"} => remote.last \in tale'.chosen
               /\ k.step = "put" => Dealt',
           HistoryGrows, UNCHANGED <<copy, engine, doc, conn, asks, answers, remote, budget>>
    PROVE  CInv'
<1>1. /\ Counts /\ Versions /\ Reported /\ Landing /\ Flowing /\ Bases /\ TheirsAsked
      /\ Owed => Minded
      BY DEF CInv
<1>2. Shaped
      BY DEF AInv
<1>3. Counts'
      BY <1>1 DEF Counts, SameHandler
<1>4. Versions' /\ Reported' /\ TheirsAsked'
      BY <1>1 DEF Versions, Reported, TheirsAsked, HistoryGrows
<1>5. Landing'
      BY <1>1 DEF Landing, IsLive, IsDone, HistoryGrows
<1>6. Flowing'
      BY <1>1 DEF Flowing, SameHandler, Indexed
<1>7. ASSUME Owed' PROVE Owed
      BY <1>7, OwedBefore DEF HistoryGrows
<1>8. Bases'
      BY <1>1, <1>7 DEF Bases, RowsOf, HistoryGrows
<1>9. ASSUME Owed' PROVE Minded'
  <2>1. Owed /\ Minded
        BY <1>1, <1>7, <1>9
  <2>2. Dealt => Dealt'
        BY DEF Dealt, HistoryGrows
  <2>3. (Caught' => Caught) /\ (Joined' => Joined) /\ (RowsOf' => RowsOf)
        BY DEF Caught, Joined, RowsOf, SameHandler
  <2>4. Caught' \/ Joined' => Answered'
        BY <2>1, <2>3 DEF Minded, Answered, IsDone
  <2>5. Caught' => Meant'
        BY <2>1, <2>2, <2>3, <1>9 DEF Minded, Meant, Indexed, SameHandler
  <2>6. Covering'
        BY <2>1, <2>2, <1>9 DEF Minded, Covering, SameHandler, HistoryGrows
  <2>7. Rows'
        BY <2>1, <2>2, <2>3 DEF Minded, Rows, Indexed, Joined, SameHandler
  <2>8. Clock'
        BY <2>1, <2>2 DEF Minded, Clock, RowsOf, IsDone, HistoryGrows
  <2>   QED
        BY <2>4, <2>5, <2>6, <2>7, <2>8 DEF Minded
<1>   QED
      BY <1>3, <1>4, <1>5, <1>6, <1>8, <1>9 DEF CInv

\* Answers that go stay as they are until then,
LEMMA AnswersShrink ==
    ASSUME Shaped, answers' = answers \/ (answers # <<>> /\ answers' = Tail(answers))
    PROVE  \A n \in DOMAIN answers' : \E m \in DOMAIN answers : answers'[n] = answers[m]
<1>1. CASE answers' = answers
      BY <1>1
<1>2. CASE answers # <<>> /\ answers' = Tail(answers)
  <2>1. \A n \in DOMAIN answers' : n + 1 \in DOMAIN answers /\ answers'[n] = answers[n + 1]
        BY <1>2 DEF Shaped
  <2>   QED
        BY <2>1
<1>   QED
      BY <1>1, <1>2
\* and only the first one goes.
LEMMA AckStays ==
    ASSUME Shaped,
           answers' = answers \/ (answers # <<>> /\ answers' = Tail(answers) /\ answers[1].what # "ack")
    PROVE  \A n \in DOMAIN answers : answers[n].what = "ack" =>
              \E m \in DOMAIN answers' : answers'[m] = answers[n]
<1>1. CASE answers' = answers
      BY <1>1
<1>2. CASE answers # <<>> /\ answers' = Tail(answers) /\ answers[1].what # "ack"
  <2>1. \A n \in DOMAIN answers : n # 1 => n - 1 \in DOMAIN answers' /\ answers'[n - 1] = answers[n]
        BY <1>2 DEF Shaped
  <2>   QED
        BY <1>2, <2>1
<1>   QED
      BY <1>1, <1>2

\* A handler begins, for a row or for none.
LEMMA BeginsKeeps ==
    ASSUME AInv, CInv, NEW k, jobs' \in {jobs, jobs \cup {k}},
           k.meta = Indexed, k.step \in {"look", "fetch", "load"}, ~k.park,
           k.step = "load" => k.v # 0,
           k.over \in {0} \cup tale.chosen,
           k.covers = 0 /\ ~k.flow,
           answers' = answers \/ (answers # <<>> /\ answers' = Tail(answers) /\ answers[1].what # "ack"),
           UNCHANGED <<copy, engine, doc, conn, asks, remote, budget, tale>>
    PROVE  CInv'
<1>1. /\ Counts /\ Versions /\ Reported /\ Landing /\ Flowing /\ Bases /\ TheirsAsked
      /\ Owed => Minded
      BY DEF CInv
<1>2. Shaped
      BY DEF AInv
<1>3. Counts'
      BY <1>1 DEF Counts
<1>4. Versions' /\ Reported' /\ TheirsAsked'
      BY <1>1 DEF Versions, Reported, TheirsAsked
<1>5. \A n \in DOMAIN answers : answers[n].what = "ack" =>
         \E m \in DOMAIN answers' : answers'[m] = answers[n]
      BY <1>2, AckStays
<1>6. \A n \in DOMAIN answers' : \E m \in DOMAIN answers : answers'[n] = answers[m]
      BY <1>2, AnswersShrink
<1>7. Landing'
      BY <1>1, <1>5 DEF Landing, IsLive, IsDone
<1>8. Flowing'
      BY <1>1 DEF Flowing, Indexed
<1>9. Bases'
      BY <1>1 DEF Bases, RowsOf, Owed
<1>10. ASSUME Owed' PROVE Minded'
  <2>1. Owed /\ Minded /\ remote.count # 0
        BY <1>1, <1>10 DEF Owed, Counts
  <2>2. (Caught' => Caught) /\ (Joined' => Joined) /\ (RowsOf' => RowsOf)
        BY <2>1 DEF Caught, Joined, RowsOf
  <2>3. Caught' \/ Joined' => Answered'
        BY <2>1, <2>2, <1>6 DEF Minded, Answered, IsDone
  <2>4. Caught' => Meant'
        BY <2>1, <2>2 DEF Minded, Meant, Indexed, Asking, Dealt
  <2>5. Covering'
        BY <2>1 DEF Minded, Covering, Dealt
  <2>6. Rows'
        BY <2>1, <2>2 DEF Minded, Rows, Indexed, Joined, Dealt
  <2>7. Clock'
        BY <2>1 DEF Minded, Clock, RowsOf, IsDone, Dealt
  <2>   QED
        BY <2>3, <2>4, <2>5, <2>6, <2>7 DEF Minded
<1>   QED
      BY <1>3, <1>4, <1>7, <1>8, <1>9, <1>10 DEF CInv

\* Of a history that stays.
LEMMA SameTale ==
    ASSUME tale' = tale
    PROVE  HistoryGrows
BY DEF HistoryGrows
\* What is owed is a version, of some save.
LEMMA OwedIs ==
    ASSUME CInv, remote' = remote, tale.windows \subseteq tale'.windows, Owed'
    PROVE  /\ Owed /\ Minded /\ remote.last # 0 /\ remote.v = remote.last
           /\ remote.count \in Nat /\ remote.count # 0
BY OwedBefore DEF CInv, Owed, Counts

\* A look at a save,
LEMMA LookAtSaveMinds ==
    ASSUME AInv, CInv, NEW j \in jobs, LookAtSave(j)
    PROVE  CInv'
<1>1. /\ Shaped /\ Ops /\ Counts /\ Landing /\ Flowing /\ IsJob(j)
      BY DEF AInv, CInv, Shaped
<1>2. /\ j.step = "look" /\ ~j.flow /\ j.over \in {0} \cup tale.chosen
      /\ UNCHANGED <<copy, doc, conn, asks, answers, remote, budget, tale>>
      BY <1>1 DEF LookAtSave, Flowing, Landing
<1>3. HistoryGrows
      BY <1>2, SameTale
<1>4. CASE Ending(j) /\ engine' = engine
  <2>1. IndexSame /\ ClockTo(0) /\ engine'.ops = engine.ops /\ jobs' = jobs \ {j}
        BY <1>1, <1>4, SameEngine DEF Ending
  <2>2. ASSUME Owed' PROVE remote.count # 0
        BY <1>2, <2>2, OwedIs
  <2>   QED
        BY <1>2, <1>3, <2>1, <2>2, EndsKeeps
<1>5. CASE Ending(j) /\ engine' = Enqueued(0)
  <2>1. IndexSame /\ ClockTo(0) /\ LogGets(0) /\ jobs' = jobs \ {j}
        BY <1>1, <1>5, EnqueuedAlone DEF Ending
  <2>2. ASSUME Owed' PROVE remote.count # 0
        BY <1>2, <2>2, OwedIs
  <2>   QED
        BY <1>2, <1>3, <2>1, <2>2, EndsKeeps
<1>6. CASE /\ Continues(j, [j EXCEPT !.step = "load", !.v = copy]) /\ engine' = engine
           /\ copy # 0
  <2>   DEFINE k == [j EXCEPT !.step = "load", !.v = copy]
  <2>1. /\ k.step = "load" /\ k.v = copy /\ k.over = j.over /\ k.park = j.park
        /\ SameHandler(j, k)
        BY <1>1 DEF IsJob, SameHandler
  <2>2. jobs' = (jobs \ {j}) \cup {k}
        BY <1>6 DEF Continues
  <2>3. ASSUME Owed' PROVE j.covers # remote.count
        BY <1>2, <2>3, OwedIs DEF Minded, Covering
  <2>4. ~j.park
        BY <1>2 DEF CInv, Versions
  <2>   HIDE DEF k
  <2>   QED
        BY <1>2, <1>3, <1>6, <2>1, <2>2, <2>3, <2>4, GoesKeeps DEF Asking
<1>   QED
      BY <1>4, <1>5, <1>6 DEF LookAtSave

\* a fetch,
LEMMA FetchMinds ==
    ASSUME AInv, CInv, NEW j \in jobs, Fetch(j)
    PROVE  CInv'
<1>1. /\ Shaped /\ Ops /\ Counts /\ Landing /\ Flowing /\ Versions /\ IsJob(j)
      /\ j.covers \in Nat
      BY DEF AInv, CInv, Shaped, Counts
<1>2. /\ j.step = "fetch" /\ j.over \in {0} \cup tale.chosen /\ ~j.park
      /\ UNCHANGED <<copy, doc, conn, asks, answers, remote, budget, tale>>
      BY <1>1 DEF Fetch, Landing, Versions
<1>3. HistoryGrows
      BY <1>2, SameTale
<1>4. CASE conn.at = "down" /\ Ending(j) /\ engine' = engine
  <2>1. IndexSame /\ ClockTo(0) /\ engine'.ops = engine.ops /\ jobs' = jobs \ {j}
        BY <1>1, <1>4, SameEngine DEF Ending
  <2>2. ASSUME Owed' PROVE remote.count # 0
        BY <1>2, <2>2, OwedIs
  <2>3. ~RowsOf
        BY <1>4 DEF RowsOf
  <2>   QED
        BY <1>2, <1>3, <2>1, <2>2, <2>3, EndsKeeps
<1>5. CASE /\ remote.v = engine.known[j.meta] \/ KeptOver(remote.v)
           /\ Ending(j) /\ engine' = Covered(engine, j.covers)
  <2>1. /\ IndexSame /\ ClockTo(j.covers) /\ engine'.ops = engine.ops /\ jobs' = jobs \ {j}
        BY <1>1, <1>5, CoveredKeeps DEF Ending
  <2>2. ASSUME Owed', j.covers = remote.count PROVE Dealt
    <3>1. Minded /\ remote.v = remote.last /\ remote.last # 0
          BY <1>2, <2>2, OwedIs
    <3>2. CASE remote.v = engine.known[j.meta]
          BY <2>2, <3>1, <3>2 DEF Minded, Covering
    <3>3. CASE KeptOver(remote.v)
          BY <1>1, <3>1, <3>3 DEF KeptOver, Landing, Dealt
    <3>   QED
          BY <1>5, <3>2, <3>3
  <2>3. Dealt => Dealt'
        BY <1>2, <2>1 DEF Dealt, IndexSame
  <2>4. RowsOf /\ j.flow => j.covers = remote.count
        BY <1>1 DEF RowsOf, Flowing
  <2>   QED
        BY <1>2, <1>3, <2>1, <2>2, <2>3, <2>4, EndsKeeps
<1>6. CASE Continues(j, [j EXCEPT !.step = "compare", !.v = remote.v]) /\ engine' = engine
  <2>   DEFINE k == [j EXCEPT !.step = "compare", !.v = remote.v]
  <2>1. /\ k.step = "compare" /\ k.v = remote.v /\ k.over = j.over /\ k.park = j.park
        /\ SameHandler(j, k)
        BY <1>1 DEF IsJob, SameHandler
  <2>2. jobs' = (jobs \ {j}) \cup {k}
        BY <1>6 DEF Continues
  <2>3. ASSUME Owed' PROVE remote.v = remote.last
        BY <1>2, <2>3, OwedIs
  <2>   HIDE DEF k
  <2>   QED
        BY <1>2, <1>3, <1>6, <2>1, <2>2, <2>3, GoesKeeps
<1>   QED
      BY <1>4, <1>5, <1>6 DEF Fetch

\* a comparison,
LEMMA CompareMinds ==
    ASSUME AInv, CInv, NEW j \in jobs, Compare(j)
    PROVE  CInv'
<1>1. /\ Shaped /\ Landing /\ Flowing /\ Versions /\ IsJob(j)
      BY DEF AInv, CInv, Shaped
<1>2. /\ j.step = "compare" /\ j.over \in {0} \cup tale.chosen /\ ~j.park
      /\ UNCHANGED <<copy, engine, doc, conn, asks, answers, remote, budget>>
      BY <1>1 DEF Compare, Landing, Versions
<1>3. HistoryGrows
      BY <1>1, MeetsGrows DEF Compare
<1>   DEFINE asked == copy # 0 /\ Conflict(engine.known[j.meta], copy, j.v)
             k == [j EXCEPT !.saw = copy, !.step = IF asked THEN "ask" ELSE "write"]
<1>4. jobs' = (jobs \ {j}) \cup {k}
      BY DEF Compare, Continues
<1>5. /\ k.step \in {"ask", "write"} /\ k.v = j.v /\ k.over = j.over /\ k.park = j.park
      /\ SameHandler(j, k) /\ (k.step = "ask" => copy # 0 /\ k.saw # 0)
      BY <1>1 DEF IsJob, SameHandler
<1>6. ASSUME Owed', (Caught /\ j.meta = Indexed) \/ j.covers = remote.count
      PROVE  j.v = remote.last
      BY <1>2, <1>3, <1>6, OwedIs DEF HistoryGrows, Minded, Meant, Covering, Asking
<1>   HIDE DEF k
<1>   QED
      BY <1>2, <1>3, <1>4, <1>5, <1>6, GoesKeeps, SMTT(30) DEF HistoryGrows

\* an answer to the prompt,
LEMMA AnswerConflictMinds ==
    ASSUME AInv, CInv, NEW j \in jobs, AnswerConflict(j)
    PROVE  CInv'
<1>1. /\ Shaped /\ Ops /\ Counts /\ Landing /\ Flowing /\ Versions /\ IsJob(j) /\ IsTale(tale)
      /\ j.covers \in Nat
      BY DEF AInv, CInv, Shaped, Counts
<1>2. /\ j.step = "ask" /\ j.over \in {0} \cup tale.chosen /\ ~j.park /\ j.saw # 0
      /\ UNCHANGED <<copy, doc, conn, asks, answers, remote, budget>>
      BY <1>1 DEF AnswerConflict, Landing, Versions
<1>3. HistoryGrows
      BY <1>1 DEF AnswerConflict, KeepLocal, KeepServer, KeepBoth, HistoryGrows, IsTale
<1>4. ASSUME Owed', (Caught /\ j.meta = Indexed) \/ j.covers = remote.count
      PROVE  j.v = remote.last
      BY <1>2, <1>3, <1>4, OwedIs DEF HistoryGrows, Minded, Meant, Covering, Asking
<1>5. CASE KeepLocal(j) /\ ~CanSend
  <2>1. tale'.chosen = tale.chosen \cup {j.v}
        BY <1>1, <1>5 DEF KeepLocal, IsTale
  <2>2. /\ IndexSame /\ ClockTo(j.covers) /\ LogGets(j.v) /\ jobs' = jobs \ {j}
        BY <1>1, <1>5, EnqueuedGets DEF Ending, KeepLocal
  <2>3. ASSUME Owed', j.covers = remote.count PROVE Dealt'
        BY <1>2, <1>4, <2>1, <2>3 DEF Dealt
  <2>4. ~RowsOf
        BY <1>5 DEF RowsOf, CanSend
  <2>   QED
        BY <1>2, <1>3, <2>1, <2>2, <2>3, <2>4, EndsKeeps
<1>6. CASE KeepLocal(j) /\ CanSend
  <2>   DEFINE k == [j EXCEPT !.step = "load", !.v = j.saw, !.over = j.v]
  <2>1. /\ k.step = "load" /\ k.v = j.saw /\ k.over = j.v /\ k.park = j.park
        /\ SameHandler(j, k)
        BY <1>1 DEF IsJob, SameHandler
  <2>2. jobs' = (jobs \ {j}) \cup {k} /\ engine' = engine
        BY <1>6 DEF KeepLocal, Continues
  <2>3. tale'.chosen = tale.chosen \cup {j.v}
        BY <1>1, <1>6 DEF KeepLocal, IsTale
  <2>   HIDE DEF k
  <2>   QED
        BY <1>2, <1>3, <1>4, <2>1, <2>2, <2>3, GoesKeeps DEF Asking
<1>7. CASE KeepServer(j)
  <2>   DEFINE k == [j EXCEPT !.step = "write"]
  <2>1. /\ k.step = "write" /\ k.v = j.v /\ k.over = j.over /\ k.park = j.park
        /\ SameHandler(j, k)
        BY <1>1 DEF IsJob, SameHandler
  <2>2. jobs' = (jobs \ {j}) \cup {k} /\ engine' = engine
        BY <1>7 DEF KeepServer, Continues
  <2>   HIDE DEF k
  <2>   QED
        BY <1>2, <1>3, <1>4, <2>1, <2>2, GoesKeeps DEF HistoryGrows
<1>8. CASE KeepBoth(j)
  <2>   DEFINE k == [j EXCEPT !.step = "write", !.park = TRUE]
  <2>1. /\ k.step = "write" /\ k.v = j.v /\ k.over = j.over /\ k.park
        /\ SameHandler(j, k)
        BY <1>1 DEF IsJob, SameHandler
  <2>2. jobs' = (jobs \ {j}) \cup {k} /\ engine' = engine /\ tale' = tale
        BY <1>8 DEF KeepBoth, Continues
  <2>3. ASSUME Owed', Caught, j.meta = Indexed, copy = 0 PROVE Dealt'
        BY <1>2, <1>3, <2>2, <2>3, OwedIs DEF HistoryGrows, Minded, Meant, Dealt
  <2>   HIDE DEF k
  <2>   QED
        BY <1>2, <1>3, <1>4, <2>1, <2>2, <2>3, GoesKeeps DEF HistoryGrows
<1>   QED
      BY <1>5, <1>6, <1>7, <1>8 DEF AnswerConflict

\* and a write.
LEMMA PutCopyMinds ==
    ASSUME AInv, CInv, NEW j \in jobs, PutCopy(j)
    PROVE  CInv'
<1>1. /\ Shaped /\ Recorded /\ Counts /\ Flowing /\ Versions /\ j.covers \in Nat
      BY DEF AInv, CInv, Counts
<1>2. /\ j.step = "put" /\ copy' = j.v /\ j.v # 0
      /\ UNCHANGED <<doc, conn, asks, answers, remote, budget>>
      BY <1>1 DEF PutCopy, Recorded, Versions
<1>3. HistoryGrows /\ tale'.chosen = tale.chosen
      BY <1>1, MeetsGrows DEF PutCopy
<1>4. IndexSame /\ ClockTo(j.covers) /\ engine'.ops = engine.ops /\ jobs' = jobs \ {j}
      BY <1>1, CoveredKeeps DEF PutCopy, Ending
<1>5. ASSUME Owed', j.covers = remote.count PROVE Dealt'
      BY <1>2, <1>3, <1>4, <1>5, OwedIs DEF HistoryGrows, IndexSame, Minded, Covering, Dealt
<1>6. RowsOf /\ j.flow => j.covers = remote.count
      BY <1>1 DEF RowsOf, Flowing
<1>   QED
      BY <1>2, <1>3, <1>4, <1>5, <1>6, EndsKeeps

\* What state.json gets of the log.
LEMMA WrittenKeeps ==
    ASSUME NEW g, IsEngine(g)
    PROVE  /\ Written(g).taken = g.logged /\ Written(g).record = g.record
           /\ \A o \in Written(g).ops : \E p \in g.ops : o.id = p.id /\ o.over = p.over /\ o.sent = p.sent
<1>   DEFINE f(o) == [o EXCEPT !.live = FALSE]
<1>1. /\ Written(g).ops = {f(o) : o \in g.ops} /\ Written(g).record = g.record
      /\ Written(g).taken = g.logged
      BY DEF Written
<1>2. \A o \in g.ops : f(o).id = o.id /\ f(o).over = o.over /\ f(o).sent = o.sent
      BY DEF IsEngine, IsOp
<1>   HIDE DEF f
<1>   QED
      BY <1>1, <1>2
\* A write of state.json: what it says of the clock is dealt with, unless its check of the
\* listing is still under way.
LEMMA WritesKeep ==
    ASSUME Counts', Counts, Minded, Answered' \/ ~Caught, NEW d, d.taken = engine'.logged,
           d.record = engine'.record, engine'.logged = engine.logged,
           IndexSame, tale'.chosen = tale.chosen, UNCHANGED remote,
           \A o \in d.ops : \E p \in engine'.ops : o.id = p.id,
           doc' = d, d.taken # doc.taken => ~Unchecked, d.taken = remote.count
    PROVE  /\ Dealt' /\ (d.record = remote.last \/ remote.last \in tale.chosen)
           /\ \A o \in d.ops : ~IsDone(o.id)
<1>1. engine.taken = remote.count /\ Caught
      BY DEF Counts, Caught
<1>2. Dealt \/ Unchecked
      BY <1>1 DEF Minded, Clock, Unchecked
<1>3. Dealt
      BY <1>1, <1>2 DEF Minded, Clock
<1>4. \A o \in engine'.ops : ~IsDone(o.id)
      BY <1>1 DEF Answered, IsDone
<1>   QED
      BY <1>3, <1>4 DEF Dealt, IndexSame

\* An upload that is sent: what it is over is what its handler holds.
LEMMA UploadSends ==
    ASSUME AInv, AInv', CInv, NEW j \in jobs, Upload(j), CanSend
    PROVE  CInv'
<1>   DEFINE op == IF j.does = "drain" THEN j.op ELSE NewOp
             o == [Operation(op, j.over) EXCEPT !.sent = TRUE, !.live = TRUE]
             g == [Closed(engine, op) EXCEPT !.ops = @ \cup {o}]
             k == [j EXCEPT !.step = "wait", !.op = op]
             p == [op |-> op, v |-> j.v, base |-> engine.known[j.meta], drain |-> j.does = "drain"]
<1>1. /\ Counts /\ Versions /\ Reported /\ Landing /\ Flowing /\ Bases /\ TheirsAsked
      /\ Owed => Minded
      BY DEF CInv
<1>2. /\ Shaped /\ Ops /\ Drains /\ IsJob(j) /\ IsEngine(engine) /\ OneEach(engine'.ops)
      BY DEF AInv, Shaped, Ops
<1>3. op \in Nat
      BY <1>2, NewOpIsNew DEF Shaped, IsJob
<1>4. IsOp(o) /\ o.id = op /\ o.live /\ o.sent /\ o.over = j.over
      BY <1>3 DEF IsOp, Operation
<1>5. /\ IsEngine(g) /\ g.known = engine.known /\ g.record = engine.record
      /\ g.ops = {q \in engine.ops : q.id # op} \cup {o}
      BY <1>2, <1>3, <1>4, ClosedIs, AddedIs
<1>6. g.taken = engine.taken /\ g.logged = engine.logged
      BY <1>2 DEF Closed, IsEngine
<1>7. k.step = "wait" /\ k.v = j.v /\ k.over = j.over /\ k.park = j.park /\ SameHandler(j, k)
      BY <1>2 DEF IsJob, SameHandler
<1>8. /\ j.step = "load" /\ engine' = g /\ asks' = Append(asks, p) /\ jobs' = (jobs \ {j}) \cup {k}
      /\ doc' = IF budget.crash = 0 THEN doc ELSE Written(g)
      /\ tale' = Meets(tale, doc'.taken # doc.taken /\ Unchecked, "unchecked")
      /\ UNCHANGED <<copy, aside, conn, told, answers, remote, budget>>
      BY DEF Upload, Continues
<1>9. /\ HistoryGrows /\ tale'.chosen = tale.chosen
      /\ (doc'.taken # doc.taken /\ Unchecked => "unchecked" \in tale'.windows)
      BY <1>2, <1>8, MeetsGrows
<1>10. ~IsDone(op) \/ (j.does = "drain" /\ HasOp(op))
      BY <1>2, NewOpIsNew DEF Drains
<1>11. p.v = j.v /\ p.base = engine.known[j.meta] /\ (p.drain <=> j.does = "drain")
      OBVIOUS
<1>   HIDE DEF op, o, g, k, p
<1>12. /\ Written(g).taken = g.logged /\ Written(g).record = g.record
       /\ \A q \in Written(g).ops : \E r \in g.ops : q.id = r.id /\ q.over = r.over /\ q.sent = r.sent
      BY <1>5, WrittenKeeps
<1>13. Counts'
      BY <1>1, <1>6, <1>7, <1>8, <1>12 DEF Counts, SameHandler
<1>14. j.v # 0 /\ asks \in Seq(Packet)
      BY <1>1, <1>2, <1>8 DEF Versions, Shaped
<1>15. \A n \in DOMAIN asks' : (n \in DOMAIN asks /\ asks'[n] = asks[n]) \/ asks'[n] = p
      BY <1>8, <1>14
<1>16. Versions' /\ Reported' /\ TheirsAsked'
  <2>1. Versions'
        BY <1>1, <1>7, <1>8, <1>9, <1>11, <1>14, <1>15 DEF Versions, HistoryGrows
  <2>   QED
        BY <2>1, <1>1, <1>8, <1>9 DEF Reported, TheirsAsked, HistoryGrows
<1>17. Landing'
  <2>1. j.over \in {0} \cup tale.chosen
        BY <1>1 DEF Landing
  <2>2. \A q \in engine'.ops : q.over \in {0} \cup tale.chosen /\ (q.live \/ IsDone(q.id) => q.sent)
        BY <1>1, <1>4, <1>5, <1>8, <2>1 DEF Landing
  <2>3. \A q \in doc'.ops : q.over \in {0} \cup tale.chosen
        BY <1>1, <1>8, <1>12, <2>2 DEF Landing
  <2>4. budget.crash > 0 => \A q \in doc'.ops : \E r \in engine'.ops : q.id = r.id /\ q.sent = r.sent
        BY <1>1, <1>8, <1>12 DEF Counts, Kinds
  <2>5. ASSUME budget.crash > 0, NEW q \in doc'.ops, IsLive(q.id)' \/ IsDone(q.id) PROVE q.sent
    <3>1. PICK r \in engine'.ops : q.id = r.id /\ q.sent = r.sent
          BY <2>4, <2>5
    <3>2. r.live \/ IsDone(r.id)
          BY <1>2, <2>5, <3>1 DEF IsLive, OneEach
    <3>   QED
          BY <2>2, <3>1, <3>2
  <2>6. ASSUME conn.at \notin {"down", "open"}, NEW q \in engine'.ops, IsDone(q.id)
        PROVE  \E n \in DOMAIN answers : answers[n].what = "ack" /\ answers[n].op = q.id
    <3>1. \E r \in engine.ops : r.id = q.id
          BY <1>4, <1>5, <1>8, <1>10, <2>6 DEF HasOp
    <3>   QED
          BY <1>1, <2>6, <3>1 DEF Landing
  <2>7. \A i \in jobs' : i.over \in {0} \cup tale.chosen
        BY <1>1, <1>7, <1>8, <2>1 DEF Landing
  <2>   QED
        BY <1>8, <1>9, <2>2, <2>3, <2>5, <2>6, <2>7 DEF Landing, IsDone
<1>18. Flowing'
      BY <1>1, <1>5, <1>7, <1>8 DEF Flowing, SameHandler, Indexed
<1>19. ASSUME Owed' PROVE Owed /\ Minded /\ remote.last # 0 /\ remote.count # 0
      BY <1>8, <1>9, <1>19, OwedIs DEF HistoryGrows
<1>20. Bases'
  <2>1. p.drain => conn.at = "up" /\ j.meta = Indexed
        BY <1>1, <1>2, <1>11 DEF Flowing, Drains
  <2>2. ASSUME Owed', RowsOf, p.drain PROVE p.base = remote.last \/ remote.last \in tale.chosen
        BY <1>11, <1>19, <2>1, <2>2 DEF Minded, Rows, Dealt
  <2>   QED
        BY <1>1, <1>8, <1>9, <1>15, <1>19, <2>1, <2>2 DEF Bases, RowsOf
<1>21. ASSUME Owed' PROVE Minded'
  <2>1. IndexSame /\ engine'.taken = engine.taken /\ engine'.logged = engine.logged
        BY <1>5, <1>6, <1>8 DEF IndexSame
  <2>2. (Dealt => Dealt')
        BY <1>8, <1>9, <2>1 DEF Dealt, IndexSame
  <2>3. (Caught' => Caught) /\ (Joined' => Joined) /\ (RowsOf' <=> RowsOf)
        BY <1>7, <1>8, <2>1 DEF Caught, Joined, RowsOf, SameHandler
  <2>4. Caught \/ Joined => Answered'
    <3>1. ASSUME Caught \/ Joined PROVE Answered /\ ~IsDone(op)
          BY <1>10, <1>19, <1>21, <3>1 DEF Minded, Answered, HasOp
    <3>   QED
          BY <1>4, <1>5, <1>8, <3>1 DEF Answered, IsDone
  <2>5. Caught' => Meant'
        BY <1>7, <1>8, <1>19, <1>21, <2>1, <2>2, <2>3 DEF Minded, Meant, IndexSame, Indexed, Asking, SameHandler
  <2>6. Covering'
        BY <1>7, <1>8, <1>9, <1>19, <1>21, <2>1, <2>2 DEF Minded, Covering, IndexSame, Asking, SameHandler
  <2>7. Rows'
        BY <1>7, <1>8, <1>19, <1>21, <2>1, <2>2, <2>3 DEF Minded, Rows, IndexSame, Indexed, Joined, SameHandler
  <2>8. Clock'
    <3>1. engine'.taken = remote.count => Dealt' \/ (conn.cut /\ conn.at = "rows" /\ RowsOf)
          BY <1>19, <1>21, <2>1, <2>2 DEF Minded, Clock
    <3>2. CASE doc' = doc
      <4>1. doc.taken = remote.count => Dealt'
            BY <1>19, <1>21, <2>2, <3>2 DEF Minded, Clock
      <4>   QED
            BY <1>8, <1>9, <1>19, <1>21, <2>3, <3>1, <3>2, <4>1 DEF Minded, Clock, IsDone
    <3>3. CASE doc' = Written(g)
      <4>1. doc'.taken # doc.taken => ~Unchecked
            BY <1>9, <1>21 DEF Owed
      <4>2. ASSUME doc'.taken = remote.count
            PROVE  /\ Dealt' /\ (doc'.record = remote.last \/ remote.last \in tale.chosen)
                   /\ \A q \in doc'.ops : ~IsDone(q.id)
        <5>1. /\ Written(g).taken = engine'.logged /\ Written(g).record = engine'.record
              /\ \A q \in Written(g).ops : \E r \in engine'.ops : q.id = r.id
              BY <1>8, <1>12
        <5>   QED
              BY <1>1, <1>8, <1>9, <1>13, <1>19, <1>21, <2>1, <2>4, <3>3, <4>1, <4>2, <5>1, WritesKeep
      <4>   QED
            BY <1>8, <1>9, <2>3, <3>1, <4>2 DEF Clock, IsDone
    <3>   QED
          BY <1>8, <3>2, <3>3
  <2>   QED
        BY <2>3, <2>4, <2>5, <2>6, <2>7, <2>8 DEF Minded
<1>   QED
      BY <1>13, <1>16, <1>17, <1>18, <1>20, <1>21 DEF CInv

\* An upload,
LEMMA UploadMinds ==
    ASSUME AInv, AInv', CInv, NEW j \in jobs, Upload(j)
    PROVE  CInv'
<1>1. CASE CanSend
      BY <1>1, UploadSends
<1>2. CASE ~CanSend
  <2>1. /\ Shaped /\ Ops /\ Counts /\ Landing /\ j.covers \in Nat
        /\ j.over \in {0} \cup tale.chosen
        BY DEF AInv, CInv, Counts, Landing
  <2>2. /\ j.step = "load" /\ engine' = Covered(Enqueued(j.over), j.covers) /\ jobs' = jobs \ {j}
        /\ UNCHANGED <<copy, doc, conn, asks, answers, remote, budget>>
        BY <1>2 DEF Upload, Ending
  <2>3. IndexSame /\ ClockTo(j.covers) /\ LogGets(j.over)
        BY <2>1, <2>2, EnqueuedGets
  <2>4. HistoryGrows /\ tale'.chosen = tale.chosen
        BY <2>1, MeetsGrows DEF Upload
  <2>5. ASSUME Owed', j.covers = remote.count PROVE Dealt'
        BY <2>2, <2>4, <2>5, OwedIs DEF HistoryGrows, Minded, Covering, Dealt
  <2>6. ~RowsOf
        BY <1>2 DEF RowsOf, CanSend
  <2>   QED
        BY <2>1, <2>2, <2>3, <2>4, <2>5, <2>6, EndsKeeps
<1>   QED
      BY <1>1, <1>2

\* the local phase,
LEMMA CommitMinds ==
    ASSUME AInv, CInv, NEW j \in jobs, Commit(j)
    PROVE  CInv'
<1>1. /\ Counts /\ Versions /\ Reported /\ Landing /\ Flowing /\ Bases /\ TheirsAsked
      /\ Owed => Minded
      BY DEF CInv
<1>2. /\ Shaped /\ IsJob(j) /\ IsEngine(engine) /\ j.covers \in Nat
      BY <1>1 DEF AInv, Shaped, Counts
<1>3. j.step = "write" /\ UNCHANGED <<doc, conn, asks, answers, remote, budget>>
      BY DEF Commit
<1>4. RowsOf /\ j.flow => j.covers = remote.count
      BY <1>1 DEF RowsOf, Flowing
<1>5. CASE /\ j.meta # Indexed \/ (j.park /\ copy = 0)
           /\ Ending(j) /\ UNCHANGED <<copy, aside>>
           /\ engine' = Covered(engine, IF j.meta # Indexed THEN j.covers ELSE 0)
           /\ tale' = Meets(tale, j.meta # Indexed /\ j.covers > engine.taken, "outlived")
  <2>   DEFINE n == IF j.meta # Indexed THEN j.covers ELSE 0
  <2>1. IndexSame /\ ClockTo(n) /\ engine'.ops = engine.ops /\ jobs' = jobs \ {j}
        BY <1>1, <1>2, <1>5, CoveredKeeps DEF Ending
  <2>2. /\ HistoryGrows /\ tale'.chosen = tale.chosen
        /\ (j.meta # Indexed /\ j.covers > engine.taken => "outlived" \in tale'.windows)
        BY <1>2, <1>5, MeetsGrows
  <2>3. ASSUME Owed' PROVE n # remote.count \/ engine.taken = remote.count
    <3>1. remote.count \in Nat /\ remote.count # 0 /\ engine.taken \in 0 .. remote.count
          BY <1>1, <1>3, <2>2, <2>3, OwedIs DEF HistoryGrows, Counts
    <3>2. "outlived" \notin tale'.windows
          BY <2>3 DEF Owed
    <3>   QED
          BY <1>2, <2>2, <3>1, <3>2
  <2>4. ASSUME Owed', RowsOf, j.flow PROVE Dealt'
    <3>1. j.meta = Indexed /\ Caught /\ Minded
          BY <1>1, <1>3, <2>2, <2>4, OwedIs DEF Flowing, Caught, HistoryGrows
    <3>2. Dealt
          BY <1>3, <1>5, <3>1 DEF Minded, Meant
    <3>   QED
          BY <1>3, <2>1, <2>2, <3>2 DEF Dealt, IndexSame
  <2>5. n \in {0, j.covers}
        OBVIOUS
  <2>   HIDE DEF n
  <2>   QED
        BY <1>3, <1>5, <2>1, <2>2, <2>3, <2>4, <2>5, EndsKeeps
<1>6. CASE /\ j.meta = Indexed /\ tale' = tale
           /\ copy' = copy \/ (j.park /\ copy' = 0)
           /\ engine' = Updated(engine, j.meta, j.v) /\ Continues(j, [j EXCEPT !.step = "put"])
  <2>   DEFINE k == [j EXCEPT !.step = "put"]
  <2>1. /\ k.step = "put" /\ k.v = j.v /\ k.over = j.over /\ k.park = j.park
        /\ SameHandler(j, k)
        BY <1>2 DEF IsJob, SameHandler
  <2>2. jobs' = (jobs \ {j}) \cup {k}
        BY <1>6 DEF Continues
  <2>3. j.meta \in DOMAIN engine.known /\ j.v \in Nat /\ engine.known \in Seq(Nat)
        BY <1>2 DEF IsJob, IsEngine
  <2>4. /\ engine'.known = [engine.known EXCEPT ![Indexed] = j.v] /\ engine'.record = j.v
        /\ engine'.ops = engine.ops
        BY <1>2, <1>6, <2>3, UpdatedIs
  <2>5. engine'.taken = engine.taken /\ engine'.logged = engine.logged
        BY <1>2, <1>6 DEF Updated, IsEngine
  <2>   HIDE DEF k
  <2>6. Indexed' = Indexed /\ engine'.known[Indexed] = j.v
        BY <1>6, <2>3, <2>4 DEF Indexed
  <2>7. Counts'
        BY <1>1, <1>3, <2>1, <2>2, <2>5 DEF Counts, SameHandler
  <2>8. Versions' /\ Reported' /\ TheirsAsked'
        BY <1>1, <1>3, <1>6, <2>1, <2>2 DEF Versions, Reported, TheirsAsked
  <2>9. Landing'
        BY <1>1, <1>3, <1>6, <2>1, <2>2, <2>4 DEF Landing, IsLive, IsDone
  <2>10. Flowing'
        BY <1>1, <1>3, <2>1, <2>2, <2>6 DEF Flowing, SameHandler
  <2>11. Bases'
        BY <1>1, <1>3, <1>6 DEF Bases, RowsOf, Owed
  <2>12. ASSUME Owed' PROVE Minded'
    <3>1. Owed /\ Minded
          BY <1>1, <1>3, <1>6, <2>12 DEF Owed
    <3>2. (Caught' => Caught) /\ (Joined' => Joined) /\ (RowsOf' <=> RowsOf) /\ (RowsOf => Caught)
          BY <1>3, <2>1, <2>2, <2>5 DEF Caught, Joined, RowsOf, SameHandler
    <3>3. Caught => Dealt'
          BY <1>3, <1>6, <2>4, <3>1 DEF Minded, Meant, Asking, Dealt
    <3>4. Caught' \/ Joined' => Answered'
          BY <1>3, <2>4, <3>1, <3>2 DEF Minded, Answered, IsDone
    <3>5. Caught' => Meant'
          BY <1>3, <2>1, <2>2, <2>6, <3>1, <3>2, <3>3 DEF Minded, Meant, Asking, SameHandler
    <3>6. Covering'
      <4>1. ASSUME NEW i \in jobs', i.covers = remote.count
            PROVE  /\ i.step # "look" /\ (i.step \in Asking => i.v = remote.last)
                   /\ i.step \in {"load", "wait"} => remote.last \in tale.chosen
        <5>1. CASE i \in jobs
              BY <3>1, <4>1, <5>1 DEF Minded, Covering
        <5>2. CASE i = k
              BY <1>3, <2>1, <3>1, <4>1, <5>2 DEF Minded, Covering, Asking, SameHandler
        <5>   QED
              BY <2>2, <5>1, <5>2
      <4>2. (\E i \in jobs' : i.covers = remote.count) => Dealt'
            BY <1>3, <3>2, <3>3 DEF Caught
      <4>   QED
            BY <1>3, <1>6, <4>1, <4>2 DEF Covering
    <3>7. Rows'
          BY <1>3, <2>4, <2>5, <2>6, <3>1, <3>2, <3>3 DEF Minded, Rows, Joined
    <3>8. Clock'
      <4>1. doc.taken = remote.count => engine.taken = remote.count
            BY <1>1 DEF Counts
      <4>2. engine.taken = remote.count => Dealt'
            BY <3>3 DEF Caught
      <4>   QED
            BY <1>3, <1>6, <2>5, <3>1, <4>1, <4>2 DEF Minded, Clock, IsDone
    <3>   QED
          BY <3>2, <3>4, <3>5, <3>6, <3>7, <3>8 DEF Minded
  <2>   QED
        BY <2>7, <2>8, <2>9, <2>10, <2>11, <2>12 DEF CInv
<1>   QED
      BY <1>5, <1>6 DEF Commit

\* the answer to an update,
LEMMA AckComesMinds ==
    ASSUME AInv, CInv, AckComes
    PROVE  CInv'
<1>1. /\ Counts /\ Versions /\ Reported /\ Landing /\ Flowing /\ Bases /\ TheirsAsked
      /\ Owed => Minded
      BY DEF CInv
<1>2. Shaped /\ IsEngine(engine) /\ answers \in Seq(Answer)
      BY DEF AInv, Shaped
<1>3. PICK j \in jobs :
        /\ j.step = "wait" /\ j.op = Head(answers).op
        /\ LET i == IF j.does = "drain" THEN Indexed ELSE j.meta
           IN engine' = Covered(Logged(Updated(Closed(engine, j.op), i, j.v)), j.covers)
        /\ jobs' = jobs \ {j}
      BY DEF AckComes, Ending
<1>4. /\ answers # <<>> /\ answers[1].what = "ack" /\ answers' = Tail(answers) /\ j.op = answers[1].op
      /\ UNCHANGED <<copy, aside, doc, conn, told, asks, remote, budget, tale>>
      BY <1>3 DEF AckComes
<1>   DEFINE i == IF j.does = "drain" THEN Indexed ELSE j.meta
             c == Closed(engine, j.op)
             u == Updated(c, i, j.v)
<1>5. IsJob(j) /\ i \in DOMAIN engine.known /\ j.v \in Nat /\ j.covers \in Nat
      /\ j.covers \in 0 .. remote.count
      BY <1>1, <1>2 DEF Shaped, IsJob, Indexed, IsEngine, Counts
<1>6. /\ IsEngine(c) /\ c.known = engine.known /\ c.ops = {o \in engine.ops : o.id # j.op}
      /\ c.taken = engine.taken
      BY <1>2, ClosedIs DEF Closed, IsEngine
<1>   HIDE DEF i, c
<1>7. /\ IsEngine(u) /\ u.known = [engine.known EXCEPT ![i] = j.v]
      /\ u.ops = {o \in engine.ops : o.id # j.op} /\ u.taken = engine.taken
  <2>1. u.taken = c.taken
        BY <1>6 DEF Updated, IsEngine
  <2>   QED
        BY <1>5, <1>6, <2>1, UpdatedIs
<1>   HIDE DEF u
<1>8. /\ IsEngine(Logged(u)) /\ Logged(u).known = u.known /\ Logged(u).ops = u.ops
      /\ Logged(u).taken = u.taken /\ Logged(u).logged = u.taken
      BY <1>7, LoggedIs, LoggedTakes
<1>9. engine' = Covered(Logged(u), j.covers) /\ engine.taken \in Nat
      BY <1>1, <1>3 DEF i, c, u, Counts
<1>10. /\ engine'.known = [engine.known EXCEPT ![i] = j.v]
       /\ engine'.ops = {o \in engine.ops : o.id # j.op}
       /\ engine'.taken \in {engine.taken, j.covers} /\ engine.taken <= engine'.taken
       /\ engine'.logged = engine.taken
       BY <1>5, <1>7, <1>8, <1>9, CoveredIs, CoveredTakes
<1>11. Indexed' = Indexed
       BY <1>2, <1>10 DEF Indexed, IsEngine
<1>12. Counts'
       BY <1>1, <1>3, <1>4, <1>5, <1>10 DEF Counts
<1>13. Versions' /\ Reported' /\ TheirsAsked'
       BY <1>1, <1>3, <1>4 DEF Versions, Reported, TheirsAsked
<1>14. Landing'
  <2>1. ASSUME NEW o \in engine'.ops, conn.at \notin {"down", "open"}, IsDone(o.id)
        PROVE  \E n \in DOMAIN answers' : answers'[n].what = "ack" /\ answers'[n].op = o.id
    <3>1. PICK n \in DOMAIN answers : answers[n].what = "ack" /\ answers[n].op = o.id
          BY <1>1, <1>10, <2>1 DEF Landing
    <3>2. n # 1
          BY <1>4, <1>10, <3>1
    <3>3. n - 1 \in DOMAIN answers' /\ answers'[n - 1] = answers[n]
          BY <1>2, <1>4, <3>2
    <3>   QED
          BY <3>1, <3>3
  <2>   QED
        BY <1>1, <1>3, <1>4, <1>10, <2>1 DEF Landing, IsLive, IsDone
<1>15. Flowing'
       BY <1>1, <1>3, <1>4, <1>11 DEF Flowing
<1>16. Bases'
       BY <1>1, <1>4 DEF Bases, RowsOf, Owed
<1>17. ASSUME Owed' PROVE Minded'
  <2>1. Owed /\ Minded
        BY <1>1, <1>4, <1>17 DEF Owed
  <2>2. ~Caught /\ ~Joined
        BY <1>2, <1>4, <2>1 DEF Minded, Answered
  <2>3. ~Caught' /\ ~Joined' /\ ~RowsOf' /\ doc.taken # remote.count
        BY <1>1, <1>3, <1>4, <1>10, <2>2 DEF Caught, Joined, RowsOf, Counts
  <2>4. (\A k \in jobs' : k.covers # remote.count) /\ engine'.taken # remote.count
        BY <1>4, <2>3 DEF Caught
  <2>   QED
        BY <1>4, <2>3, <2>4 DEF Minded, Covering, Rows, Clock
<1>   QED
      BY <1>12, <1>13, <1>14, <1>15, <1>16, <1>17 DEF CInv

\* a save,
LEMMA SaveCopyMinds ==
    ASSUME AInv, CInv, SaveCopy
    PROVE  CInv'
<1>1. /\ Counts /\ Versions /\ Reported /\ Landing /\ Flowing /\ Bases /\ TheirsAsked
      /\ Owed => Minded
      BY DEF CInv
<1>2. /\ Shaped /\ Recorded
      BY DEF AInv
<1>3. PICK v \in {tale.drawn + 1} \cup ({engine.record} \ {copy}) :
          copy' = v /\ tale' = [tale EXCEPT !.mine = v, !.drawn = Max({tale.drawn, v})]
      BY DEF SaveCopy
<1>4. copy' # 0
      BY <1>1, <1>2, <1>3 DEF Shaped, IsTale, Recorded, Versions
<1>5. /\ tale'.had = tale.had /\ tale'.chosen = tale.chosen /\ tale'.windows = tale.windows
      /\ tale'.unasked = tale.unasked
      BY <1>2, <1>3 DEF Shaped, IsTale
<1>6. /\ budget' \in [Kinds -> Nat] /\ budget'.crash = budget.crash
      /\ UNCHANGED <<aside, engine, doc, jobs, conn, asks, answers, remote>>
      BY <1>1 DEF SaveCopy, Happens, Counts, Kinds
<1>7. Counts' /\ Versions' /\ Reported' /\ TheirsAsked' /\ Flowing'
      BY <1>1, <1>5, <1>6 DEF Counts, Versions, Reported, TheirsAsked, Flowing, Indexed
<1>8. Landing' /\ Bases'
      BY <1>1, <1>5, <1>6 DEF Landing, Bases, IsLive, IsDone, RowsOf, Owed
<1>9. ASSUME Owed' PROVE Minded'
  <2>1. Minded
        BY <1>1, <1>5, <1>6, <1>9 DEF Owed
  <2>2. (Caught' <=> Caught) /\ (Joined' <=> Joined) /\ (RowsOf' <=> RowsOf) /\ (Dealt' <=> Dealt)
        BY <1>5, <1>6 DEF Caught, Joined, RowsOf, Dealt
  <2>3. Answered => Answered'
        BY <1>6 DEF Answered, IsDone
  <2>4. Meant => Meant'
        BY <1>4, <1>6 DEF Meant, Indexed
  <2>5. Covering' /\ Rows' /\ Clock'
        BY <1>5, <1>6, <2>1, <2>2 DEF Minded, Covering, Rows, Clock, Indexed, IsDone
  <2>   QED
        BY <2>1, <2>2, <2>3, <2>4, <2>5 DEF Minded
<1>   QED
      BY <1>7, <1>8, <1>9 DEF CInv

\* and what is told of it.
LEMMA TellSaveMinds ==
    ASSUME AInv, CInv, TellSave
    PROVE  CInv'
<1>   DEFINE k == Handler("save", "look", 0)
<1>1. /\ k.meta = Indexed /\ k.over = 0 /\ k.covers = 0 /\ ~k.flow /\ k.step = "look" /\ ~k.park
      /\ k.does = "save"
      BY HandlerFresh DEF AInv
<1>2. jobs' = jobs \cup {k}
      BY DEF TellSave, Begins
<1>3. UNCHANGED <<copy, engine, doc, conn, asks, answers, remote, budget, tale>>
      BY DEF TellSave
<1>   HIDE DEF k
<1>   QED
      BY <1>1, <1>2, <1>3, BeginsKeeps

\* A teammate's version that comes,
LEMMA UpdateComesMinds ==
    ASSUME AInv, CInv, UpdateComes
    PROVE  CInv'
<1>   DEFINE k == Handler("apply", "fetch", 0)
<1>1. /\ k.meta = Indexed /\ k.over = 0 /\ k.covers = 0 /\ ~k.flow /\ k.step = "fetch" /\ ~k.park
      BY HandlerFresh DEF AInv
<1>2. jobs' \in {jobs, jobs \cup {k}}
      BY DEF UpdateComes, Begins
<1>3. UNCHANGED <<copy, engine, doc, conn, asks, remote, budget, tale>>
      BY DEF UpdateComes
<1>4. answers # <<>> /\ answers' = Tail(answers) /\ answers[1].what # "ack"
  <2>1. Head(answers) = answers[1]
        BY DEF AInv, Shaped
  <2>   QED
        BY <2>1 DEF UpdateComes
<1>   HIDE DEF k
<1>   QED
      BY <1>1, <1>2, <1>3, <1>4, BeginsKeeps

\* an operation the drain closes, or sends,
LEMMA DrainMinds ==
    ASSUME AInv, CInv, DrainAttachments
    PROVE  CInv'
<1>1. /\ Counts /\ Versions /\ Reported /\ Landing /\ Flowing /\ Bases /\ TheirsAsked
      /\ Owed => Minded
      BY DEF CInv
<1>2. Shaped /\ IsEngine(engine)
      BY DEF AInv, Shaped
<1>3. PICK o \in engine.ops :
         \/ engine' = Closed(engine, o.id) /\ UNCHANGED jobs
         \/ /\ copy # 0 /\ UNCHANGED engine
            /\ Begins([Handler("drain", "load", copy) EXCEPT !.op = o.id, !.over = o.over])
      BY DEF DrainAttachments
<1>4. UNCHANGED <<copy, aside, doc, conn, told, asks, answers, remote, budget, tale>>
      BY DEF DrainAttachments
<1>5. CASE engine' = Closed(engine, o.id) /\ UNCHANGED jobs
  <2>1. IndexSame /\ engine'.ops \subseteq engine.ops
        BY <1>2, <1>5, ClosedIs DEF IndexSame
  <2>2. engine'.taken = engine.taken /\ engine'.logged = engine.logged
        BY <1>2, <1>5 DEF Closed, IsEngine
  <2>3. Counts' /\ Versions' /\ Reported' /\ TheirsAsked' /\ Flowing'
        BY <1>1, <1>4, <1>5, <2>1, <2>2
           DEF Counts, Versions, Reported, TheirsAsked, Flowing, Indexed, IndexSame
  <2>4. Landing' /\ Bases'
        BY <1>1, <1>4, <1>5, <2>1 DEF Landing, Bases, IsLive, IsDone, RowsOf, Owed
  <2>5. ASSUME Owed' PROVE Minded'
    <3>1. Minded
          BY <1>1, <1>4, <2>5 DEF Owed
    <3>2. (Caught' <=> Caught) /\ (Joined' <=> Joined) /\ (RowsOf' <=> RowsOf) /\ (Dealt' <=> Dealt)
          BY <1>4, <1>5, <2>1, <2>2 DEF Caught, Joined, RowsOf, Dealt, IndexSame
    <3>3. Answered => Answered'
          BY <1>4, <2>1 DEF Answered, IsDone
    <3>4. Meant => Meant'
          BY <1>4, <1>5, <2>1, <3>2 DEF Meant, Indexed, IndexSame
    <3>5. Covering' /\ Rows' /\ Clock'
          BY <1>4, <1>5, <2>1, <2>2, <3>1, <3>2
             DEF Minded, Covering, Rows, Clock, Indexed, IsDone, IndexSame
    <3>   QED
          BY <3>1, <3>2, <3>3, <3>4, <3>5 DEF Minded
  <2>   QED
        BY <2>3, <2>4, <2>5 DEF CInv
<1>6. CASE /\ copy # 0 /\ UNCHANGED engine
           /\ Begins([Handler("drain", "load", copy) EXCEPT !.op = o.id, !.over = o.over])
  <2>   DEFINE h == Handler("drain", "load", copy)
               k == [h EXCEPT !.op = o.id, !.over = o.over]
  <2>1. /\ h.meta = Indexed /\ h.covers = 0 /\ ~h.flow /\ h.step = "load" /\ ~h.park
        /\ h.v = copy
        BY <1>2, HandlerFresh
  <2>2. IsJob(h)
        BY <1>2, HandlerIs DEF Shaped
  <2>3. jobs' = jobs \cup {k}
        BY <1>6 DEF Begins
  <2>   HIDE DEF h
  <2>4. /\ k.meta = Indexed /\ k.over = o.over /\ k.covers = 0 /\ ~k.flow /\ k.step = "load"
        /\ ~k.park /\ k.v = copy
        BY <2>1, <2>2 DEF IsJob
  <2>5. o.over \in {0} \cup tale.chosen
        BY <1>1 DEF Landing
  <2>   HIDE DEF k
  <2>   QED
        BY <1>4, <1>6, <2>3, <2>4, <2>5, BeginsKeeps
<1>   QED
      BY <1>3, <1>5, <1>6

\* A connect begins.
LEMMA ConnectMinds ==
    ASSUME AInv, CInv, ConnectAttachments
    PROVE  CInv'
<1>1. /\ Counts /\ Versions /\ Reported /\ Landing /\ Flowing /\ Bases /\ TheirsAsked
      /\ Owed => Minded
      BY DEF CInv
<1>2. /\ conn.at = "down" /\ conn'.at = "open" /\ conn'.covers = 0
      /\ UNCHANGED <<copy, aside, engine, doc, jobs, told, asks, answers, remote, budget, tale>>
      BY DEF ConnectAttachments, Offline
<1>3. Counts' /\ Versions' /\ Reported' /\ TheirsAsked' /\ Flowing'
      BY <1>1, <1>2 DEF Counts, Versions, Reported, TheirsAsked, Flowing, Indexed
<1>4. Landing' /\ Bases'
      BY <1>1, <1>2 DEF Landing, Bases, IsLive, IsDone
<1>5. ASSUME Owed' PROVE Minded'
  <2>1. Minded
        BY <1>1, <1>2, <1>5 DEF Owed
  <2>2. (Caught' <=> Caught) /\ ~Joined' /\ ~RowsOf' /\ (Dealt' <=> Dealt)
        BY <1>2 DEF Caught, Joined, RowsOf, Dealt
  <2>3. (Answered => Answered') /\ (Meant => Meant')
        BY <1>2 DEF Answered, IsDone, Meant, Indexed, Dealt
  <2>4. Covering' /\ Rows' /\ Clock'
        BY <1>2, <2>1, <2>2 DEF Minded, Covering, Rows, Clock, IsDone
  <2>   QED
        BY <2>1, <2>2, <2>3, <2>4 DEF Minded
<1>   QED
      BY <1>3, <1>4, <1>5 DEF CInv

\* The catch-up is asked for: its rows are what the clock does not cover.
LEMMA JoinMinds ==
    ASSUME AInv, CInv, JoinAttachments
    PROVE  CInv'
<1>1. /\ Counts /\ Versions /\ Reported /\ Landing /\ Flowing /\ Bases /\ TheirsAsked
      /\ Owed => Minded
      BY DEF CInv
<1>2. Shaped /\ IsConn(conn) /\ answers \in Seq(Answer)
      BY DEF AInv, Shaped
<1>3. /\ conn.at = "settled" /\ answers = <<>>
      /\ UNCHANGED <<copy, aside, engine, doc, jobs, told, asks, answers, remote, budget, tale>>
      BY DEF JoinAttachments
<1>4. /\ conn'.at = "joined" /\ conn'.covers = remote.count /\ conn'.top = remote.last
      /\ conn'.cut \/ conn'.todo = <<remote.last>> \/ remote.count <= engine.taken
  <2>1. PICK cut \in BOOLEAN :
           conn' = [conn EXCEPT !.at = "joined", !.covers = remote.count, !.top = remote.last, !.cut = cut,
                      !.todo = IF cut \/ remote.count <= engine.taken THEN <<>> ELSE <<remote.last>>]
        BY DEF JoinAttachments
  <2>   QED
        BY <1>2, <2>1 DEF IsConn
<1>5. Counts' /\ Versions' /\ Reported' /\ TheirsAsked' /\ Flowing'
      BY <1>1, <1>3, <1>4 DEF Counts, Versions, Reported, TheirsAsked, Flowing, Indexed
<1>6. Landing' /\ Bases'
      BY <1>1, <1>3, <1>4 DEF Landing, Bases, IsLive, IsDone
<1>7. ASSUME Owed' PROVE Minded'
  <2>1. Minded
        BY <1>1, <1>3, <1>7 DEF Owed
  <2>2. (Caught' <=> Caught) /\ ~RowsOf' /\ (Dealt' <=> Dealt)
        BY <1>3, <1>4 DEF Caught, RowsOf, Dealt
  <2>3. Answered'
        BY <1>1, <1>3 DEF Landing, Answered, IsDone
  <2>4. Meant => Meant'
        BY <1>3 DEF Meant, Indexed, Dealt
  <2>5. engine.taken \in Nat /\ engine.taken <= remote.count /\ remote.count \in Nat
        BY <1>1 DEF Counts
  <2>6. Covering' /\ Rows' /\ Clock'
        BY <1>3, <1>4, <2>1, <2>2, <2>5 DEF Minded, Covering, Rows, Clock, IsDone
  <2>   QED
        BY <2>1, <2>2, <2>3, <2>4, <2>6 DEF Minded
<1>   QED
      BY <1>5, <1>6, <1>7 DEF CInv

\* The index is made anew: no handler has its entry yet.
LEMMA RefreshMinds ==
    ASSUME AInv, CInv, RefreshAttachments
    PROVE  CInv'
<1>   DEFINE n == IF conn.cut THEN conn.covers ELSE 0
             g == Covered(engine, n)
<1>1. /\ Counts /\ Versions /\ Reported /\ Landing /\ Flowing /\ Bases /\ TheirsAsked
      /\ Owed => Minded
      BY DEF CInv
<1>2. Shaped /\ Drains /\ IsConn(conn) /\ IsEngine(engine) /\ engine.taken \in Nat /\ n \in Nat
      BY <1>1 DEF AInv, Shaped, Counts
<1>3. /\ conn.at = "joined" /\ engine' = [g EXCEPT !.known = Append(@, engine.record)]
      /\ conn' = [conn EXCEPT !.at = "rows", !.todo = IF conn.cut THEN <<remote.v>> ELSE @]
      /\ UNCHANGED <<copy, aside, doc, jobs, told, asks, answers, remote, budget, tale>>
      BY DEF RefreshAttachments
<1>4. /\ IsEngine(g) /\ g.known = engine.known /\ g.record = engine.record /\ g.ops = engine.ops
      /\ g.taken \in {engine.taken, n} /\ engine.taken <= g.taken /\ n <= g.taken
      /\ g.logged = engine.logged
      BY <1>2, CoveredIs, CoveredTakes
<1>   HIDE DEF g
<1>5. /\ engine'.known = Append(engine.known, engine.record)
      /\ engine'.record = engine.record /\ engine'.ops = engine.ops
      /\ engine'.taken = g.taken /\ engine'.logged = engine.logged
      BY <1>3, <1>4 DEF IsEngine
<1>6. /\ engine.known \in Seq(Nat) /\ engine.record \in Nat /\ Indexed \in Nat
      /\ Indexed' = Indexed + 1 /\ engine'.known[Indexed + 1] = engine.record
      /\ \A j \in jobs : /\ j.meta \in 1 .. Indexed
                         /\ engine'.known[j.meta] = engine.known[j.meta]
  <2>1. engine.known \in Seq(Nat) /\ engine.record \in Nat
        BY <1>2 DEF IsEngine
  <2>2. \A j \in jobs : j.meta \in 1 .. Indexed
        BY <1>2, <2>1 DEF Shaped, IsJob, Indexed
  <2>   QED
        BY <1>5, <2>1, <2>2 DEF Indexed
<1>7. /\ conn'.at = "rows" /\ conn'.covers = conn.covers /\ conn'.top = conn.top
      /\ conn'.cut = conn.cut /\ conn'.todo = (IF conn.cut THEN <<remote.v>> ELSE conn.todo)
      BY <1>2, <1>3 DEF IsConn
<1>8. Counts'
      BY <1>1, <1>3, <1>4, <1>5, <1>7 DEF Counts
<1>9. Versions' /\ Reported' /\ TheirsAsked'
      BY <1>1, <1>3, <1>7 DEF Versions, Reported, TheirsAsked
<1>10. Flowing'
      BY <1>1, <1>2, <1>3 DEF Flowing, Drains
<1>11. Landing' /\ Bases'
      BY <1>1, <1>3, <1>5, <1>7 DEF Landing, Bases, IsLive, IsDone
<1>12. ASSUME Owed' PROVE Minded'
  <2>1. Minded /\ remote.v = remote.last /\ remote.count # 0
        BY <1>1, <1>3, <1>12 DEF Owed, Counts
  <2>2. (Dealt' <=> Dealt) /\ (RowsOf' <=> Joined) /\ ~Joined'
        BY <1>3, <1>5, <1>7 DEF RowsOf, Joined, Dealt
  <2>3. engine'.taken = remote.count => engine.taken = remote.count \/ (conn.cut /\ Joined)
        BY <1>3, <1>4, <1>5, <2>1 DEF Joined
  <2>4. Caught' => Caught \/ Joined
        BY <1>3, <2>2, <2>3 DEF Caught
  <2>5. Caught' \/ Joined' => Answered'
        BY <1>3, <1>5, <2>1, <2>2, <2>4 DEF Minded, Answered, IsDone
  <2>6. Meant'
        BY <1>3, <1>6 DEF Meant
  <2>7. Covering'
        BY <1>3, <1>6, <2>1, <2>2 DEF Minded, Covering
  <2>8. engine.taken = remote.count => Dealt
        BY <1>3, <2>1 DEF Minded, Clock
  <2>9. Rows'
        BY <1>3, <1>5, <1>6, <1>7, <2>1, <2>2, <2>8 DEF Minded, Rows
  <2>10. Clock'
        BY <1>3, <1>7, <2>1, <2>2, <2>3, <2>8 DEF Minded, Clock, IsDone
  <2>   QED
        BY <2>5, <2>6, <2>7, <2>9, <2>10 DEF Minded
<1>   QED
      BY <1>8, <1>9, <1>10, <1>11, <1>12 DEF CInv

\* What is left of the connect flow: a row that is not due is dealt with,
LEMMA FlowIsUp ==
    ASSUME CInv, conn.at = "rows", \A j \in jobs : ~j.flow, Owed, RowsOf,
           conn.todo = <<>> \/ (conn.todo # <<>> /\ ~Due(Head(conn.todo)))
    PROVE  Dealt
<1>1. Minded /\ Landing /\ remote.last # 0
      BY DEF CInv, Owed
<1>2. Dealt \/ conn.todo = <<remote.last>>
      BY <1>1 DEF Minded, Rows
<1>3. CASE conn.todo = <<remote.last>>
  <2>1. Head(conn.todo) = remote.last /\ conn.todo # <<>>
        BY <1>3
  <2>2. remote.last = engine.known[Indexed] \/ KeptOver(remote.last)
        BY <2>1 DEF Due
  <2>3. engine.known[Indexed] = engine.record
        BY <1>1 DEF Minded, Rows
  <2>   QED
        BY <1>1, <2>2, <2>3 DEF KeptOver, Landing, Dealt
<1>   QED
      BY <1>2, <1>3
\* and a connection that is up has dealt with all of them,
LEMMA FlowEnds ==
    ASSUME AInv, CInv, FlowGoesOn, conn.todo = <<>>
    PROVE  CInv'
<1>1. /\ Counts /\ Versions /\ Reported /\ Landing /\ Flowing /\ Bases /\ TheirsAsked
      /\ Owed => Minded
      BY DEF CInv
<1>2. Shaped /\ IsConn(conn) /\ IsEngine(engine)
      BY DEF AInv, Shaped
<1>3. /\ conn.at = "rows" /\ (\A j \in jobs : ~j.flow) /\ engine' = Logged(engine)
      /\ conn'.at = "up" /\ conn'.covers = conn.covers /\ conn'.top = conn.top
      /\ UNCHANGED <<copy, aside, doc, jobs, told, asks, answers, remote, budget, tale>>
      BY <1>2 DEF FlowGoesOn, IsConn
<1>4. IndexSame /\ engine'.ops = engine.ops /\ engine'.taken = engine.taken
      /\ engine'.logged = engine.taken
      BY <1>2, <1>3, LoggedIs, LoggedTakes DEF IndexSame
<1>5. Counts' /\ Versions' /\ Reported' /\ TheirsAsked' /\ Flowing'
      BY <1>1, <1>3, <1>4 DEF Counts, Versions, Reported, TheirsAsked, Flowing, Indexed, IndexSame
<1>6. Landing' /\ Bases'
      BY <1>1, <1>3, <1>4 DEF Landing, Bases, IsLive, IsDone
<1>7. ASSUME Owed' PROVE Minded'
  <2>1. Minded /\ Owed
        BY <1>1, <1>3, <1>7 DEF Owed
  <2>2. RowsOf => Dealt
        BY <1>3, <2>1, FlowIsUp
  <2>3. (Caught' <=> Caught) /\ ~Joined' /\ (RowsOf' <=> RowsOf) /\ (Dealt' <=> Dealt)
        BY <1>3, <1>4 DEF Caught, Joined, RowsOf, Dealt, IndexSame
  <2>4. (Answered => Answered') /\ (Meant => Meant')
        BY <1>3, <1>4, <2>3 DEF Answered, IsDone, Meant, Indexed, IndexSame
  <2>5. Covering' /\ Rows' /\ Clock'
        BY <1>3, <1>4, <2>1, <2>2, <2>3 DEF Minded, Covering, Rows, Clock, IsDone, Indexed, IndexSame
  <2>   QED
        BY <2>1, <2>3, <2>4, <2>5 DEF Minded
<1>   QED
      BY <1>5, <1>6, <1>7 DEF CInv
\* and one that goes through its rows takes them in turn.
LEMMA FlowRows ==
    ASSUME AInv, CInv, FlowGoesOn, conn.todo # <<>>
    PROVE  CInv'
<1>   DEFINE h == Handler("apply", "fetch", 0)
             k == [h EXCEPT !.flow = TRUE, !.covers = conn.covers]
<1>1. /\ Counts /\ Versions /\ Reported /\ Landing /\ Flowing /\ Bases /\ TheirsAsked
      /\ Owed => Minded
      BY DEF CInv
<1>2. Shaped /\ IsConn(conn) /\ IsEngine(engine) /\ conn.covers \in Nat
      BY <1>1 DEF AInv, Shaped, Counts
<1>3. /\ conn.at = "rows" /\ (\A j \in jobs : ~j.flow)
      /\ conn'.at = "rows" /\ conn'.covers = conn.covers /\ conn'.top = conn.top /\ conn'.cut = conn.cut
      /\ UNCHANGED <<copy, aside, doc, told, asks, answers, remote, budget, tale>>
      BY <1>2 DEF FlowGoesOn, IsConn
<1>4. IF Due(Head(conn.todo)) THEN jobs' = jobs \cup {k} /\ UNCHANGED engine
      ELSE engine' = Covered(engine, conn.covers) /\ UNCHANGED jobs
      BY DEF FlowGoesOn, Begins
<1>5. /\ h.meta = Indexed /\ h.over = 0 /\ h.step = "fetch" /\ ~h.park /\ h.does = "apply" /\ IsJob(h)
      BY <1>2, HandlerFresh, HandlerIs
<1>   HIDE DEF h
<1>6. /\ k.meta = Indexed /\ k.over = 0 /\ k.step = "fetch" /\ ~k.park /\ k.does = "apply"
      /\ k.flow /\ k.covers = conn.covers
      BY <1>5 DEF IsJob
<1>   HIDE DEF k
<1>7. /\ IndexSame /\ engine'.ops = engine.ops /\ ClockTo(IF Due(Head(conn.todo)) THEN 0 ELSE conn.covers)
      BY <1>1, <1>2, <1>4, SameEngine, CoveredKeeps
<1>8. \A j \in jobs' : j \in jobs \/ (j = k /\ Due(Head(conn.todo)))
      BY <1>4
<1>9. Counts' /\ Versions' /\ Reported' /\ TheirsAsked'
  <2>1. Counts'
        BY <1>1, <1>3, <1>6, <1>7, <1>8 DEF Counts, ClockTo
  <2>   QED
        BY <2>1, <1>1, <1>3, <1>6, <1>8 DEF Versions, Reported, TheirsAsked
<1>10. Flowing'
       BY <1>1, <1>3, <1>6, <1>7, <1>8 DEF Flowing, Indexed, IndexSame
<1>11. Landing' /\ Bases'
       BY <1>1, <1>3, <1>6, <1>7, <1>8 DEF Landing, Bases, IsLive, IsDone
<1>12. ASSUME Owed' PROVE Minded'
  <2>1. Minded /\ Owed /\ remote.count # 0
        BY <1>1, <1>3, <1>12 DEF Owed, Counts
  <2>2. RowsOf /\ ~Due(Head(conn.todo)) => Dealt
        BY <1>3, <2>1, FlowIsUp
  <2>3. ~Joined' /\ (RowsOf' <=> RowsOf) /\ (Dealt' <=> Dealt)
        BY <1>3, <1>7 DEF Joined, RowsOf, Dealt, IndexSame
  <2>4. engine'.taken = remote.count =>
           engine.taken = remote.count \/ (RowsOf /\ ~Due(Head(conn.todo)))
        BY <1>3, <1>7, <2>1 DEF ClockTo, RowsOf
  <2>5. Caught' => Caught
        BY <1>3, <1>6, <1>8, <2>3, <2>4 DEF Caught, RowsOf
  <2>6. Caught' => Answered'
        BY <1>3, <1>7, <2>1, <2>5 DEF Minded, Answered, IsDone
  <2>7. Caught' => Meant'
        BY <1>3, <1>6, <1>7, <1>8, <2>1, <2>3, <2>5 DEF Minded, Meant, Indexed, IndexSame, Asking
  <2>8. Covering'
    <3>1. k.covers = remote.count /\ engine.known[Indexed] = remote.last => Dealt
          BY <1>3, <1>6, <2>1 DEF Minded, Rows, RowsOf, Dealt
    <3>   QED
          BY <1>3, <1>6, <1>7, <1>8, <2>1, <2>3, <3>1 DEF Minded, Covering, IndexSame, Asking
  <2>9. Rows'
        BY <1>3, <1>4, <1>6, <1>7, <2>1, <2>2, <2>3 DEF Minded, Rows, Indexed, IndexSame
  <2>10. Clock'
        BY <1>3, <2>1, <2>2, <2>3, <2>4 DEF Minded, Clock, IsDone
  <2>   QED
        BY <2>3, <2>6, <2>7, <2>8, <2>9, <2>10 DEF Minded
<1>   QED
      BY <1>9, <1>10, <1>11, <1>12 DEF CInv
\* Either way.
LEMMA FlowMinds ==
    ASSUME AInv, CInv, FlowGoesOn
    PROVE  CInv'
BY FlowEnds, FlowRows

\* What landed is recorded and no operation of the log has landed any more.
LEMMA SettleMinds ==
    ASSUME AInv, CInv, SettleAttachment
    PROVE  CInv'
<1>   DEFINE landed == {d \in remote.did : \E o \in engine.ops : o.id = d.op /\ o.sent}
             stay == {p \in engine.ops : \A d \in landed : d.op # p.id}
             f(o) == [o EXCEPT !.sent = FALSE]
             left == [engine EXCEPT !.ops = {f(o) : o \in stay}]
             last == CHOOSE d \in landed : \A x \in landed : x.op <= d.op
             n == Operation(NewOp, 0)
             u == [left EXCEPT !.known = [@ EXCEPT ![Indexed] = last.v], !.record = last.v]
             w == [u EXCEPT !.ops = @ \cup {n}]
<1>1. /\ Counts /\ Versions /\ Reported /\ Landing /\ Flowing /\ Bases /\ TheirsAsked
      /\ Owed => Minded
      BY DEF CInv
<1>2. Shaped /\ Ops /\ IsConn(conn) /\ IsEngine(engine)
      BY DEF AInv, Shaped
<1>3. /\ conn.at = "open" /\ conn'.at = "settled" /\ conn'.covers = conn.covers
      /\ UNCHANGED <<copy, aside, doc, jobs, told, asks, answers, remote, budget, tale>>
      BY <1>2 DEF SettleAttachment, IsConn
<1>4. engine' = IF landed = {} THEN left ELSE Logged(w)
      BY DEF SettleAttachment, recheckAttachment, Updated
<1>5. \A o \in engine.ops : /\ f(o).id = o.id /\ f(o).over = o.over /\ f(o).live = o.live
                            /\ ~f(o).sent
      BY <1>2 DEF IsEngine, IsOp
<1>6. \A o \in stay : o \in engine.ops /\ ~IsDone(o.id) /\ ~o.live
      BY <1>1, <1>2, <1>3 DEF Ops, Landing, IsDone
<1>7. n.id = NewOp /\ n.over = 0 /\ ~n.live /\ ~n.sent /\ ~IsDone(NewOp)
      BY <1>2, NewOpIsNew DEF Operation
<1>8. /\ engine'.taken = engine.taken /\ engine'.logged \in {engine.logged, engine.taken}
      /\ landed = {} => IndexSame
      /\ Len(engine'.known) = Len(engine.known)
      /\ engine'.ops \in {{f(o) : o \in stay}, {f(o) : o \in stay} \cup {n}}
  <2>1. engine.known \in Seq(Nat)
        BY <1>2 DEF IsEngine
  <2>   HIDE DEF landed, stay, f, last, n
  <2>2. /\ left.taken = engine.taken /\ left.logged = engine.logged /\ left.known = engine.known
        /\ left.record = engine.record /\ left.ops = {f(o) : o \in stay}
        BY <1>2 DEF IsEngine
  <2>3. /\ w.taken = engine.taken /\ w.logged = engine.logged
        /\ w.known = [engine.known EXCEPT ![Indexed] = last.v]
        /\ w.ops = {f(o) : o \in stay} \cup {n}
        BY <1>2 DEF IsEngine
  <2>4. /\ Logged(w).taken = w.taken /\ Logged(w).logged = w.taken /\ Logged(w).known = w.known
        /\ Logged(w).ops = w.ops
        BY <1>2 DEF IsEngine, Logged
  <2>5. Len([engine.known EXCEPT ![Indexed] = last.v]) = Len(engine.known)
        BY <2>1
  <2>   HIDE DEF left, u, w
  <2>   QED
        BY <1>4, <2>2, <2>3, <2>4, <2>5 DEF IndexSame
<1>9. \A o \in engine'.ops : o.over \in {0} \cup tale.chosen /\ ~o.live /\ ~IsDone(o.id)
  <2>   HIDE DEF landed, stay, f, left, n, u, w, last
  <2>   QED
        BY <1>1, <1>5, <1>6, <1>7, <1>8 DEF Landing
<1>10. Answered => landed = {}
      BY DEF Answered, IsDone
<1>   HIDE DEF landed, stay, f, left, n, u, w, last
<1>11. Indexed' = Indexed
      BY <1>8 DEF Indexed
<1>12. Counts' /\ Versions' /\ Reported' /\ TheirsAsked' /\ Flowing'
      BY <1>1, <1>3, <1>8, <1>11 DEF Counts, Versions, Reported, TheirsAsked, Flowing
<1>13. Landing' /\ Bases'
      BY <1>1, <1>3, <1>9 DEF Landing, Bases, IsLive, IsDone
<1>14. ASSUME Owed' PROVE Minded'
  <2>1. Minded
        BY <1>1, <1>3, <1>14 DEF Owed
  <2>2. (Caught' <=> Caught) /\ ~Joined' /\ ~RowsOf'
        BY <1>3, <1>8 DEF Caught, Joined, RowsOf
  <2>3. Caught => IndexSame
        BY <1>8, <1>10, <2>1 DEF Minded
  <2>4. Caught => (Dealt' <=> Dealt)
        BY <1>3, <2>3 DEF Dealt, IndexSame
  <2>5. Caught' => Answered'
        BY <1>3, <1>9, <2>1, <2>2 DEF Minded, Answered, IsDone
  <2>6. Caught' => Meant'
        BY <1>3, <1>11, <2>1, <2>2, <2>4 DEF Minded, Meant
  <2>7. Covering'
    <3>1. (\E j \in jobs : j.covers = remote.count) => Caught
          BY DEF Caught
    <3>   QED
          BY <1>3, <2>1, <2>3, <2>4, <3>1 DEF Minded, Covering, IndexSame
  <2>8. Rows'
        BY <2>2 DEF Rows
  <2>9. Clock'
    <3>1. doc.taken = remote.count \/ engine.taken = remote.count => Caught
          BY <1>1 DEF Caught, Counts
    <3>   QED
          BY <1>3, <1>8, <2>1, <2>4, <3>1 DEF Minded, Clock, IsDone
  <2>   QED
        BY <2>2, <2>5, <2>6, <2>7, <2>8, <2>9 DEF Minded
<1>   QED
      BY <1>12, <1>13, <1>14 DEF CInv

\* The server takes an update: what it replaces was not owed a question.
LEMMA TakeMinds ==
    ASSUME AInv, CInv, ServerTakesUpdate
    PROVE  CInv'
<1>   DEFINE p == asks[1]
             a == [what |-> "ack", op |-> p.op, v |-> p.v]
             d == [op |-> p.op, v |-> p.v]
             unasked == /\ p.drain /\ conn.top # 0 /\ remote.v = conn.top /\ p.v # conn.top
                        /\ p.base # conn.top /\ conn.top \notin tale.chosen
                        /\ \A e \in remote.did : e.v # conn.top
<1>1. /\ Counts /\ Versions /\ Reported /\ Landing /\ Flowing /\ Bases /\ TheirsAsked
      /\ Owed => Minded
      BY DEF CInv
<1>2. Shaped /\ Ops /\ Sent /\ IsRemote(remote) /\ IsTale(tale) /\ answers \in Seq(Answer)
      BY DEF AInv, Shaped
<1>3. asks # <<>> /\ asks' = Tail(asks) /\ Head(asks) = p /\ p \in Packet /\ 1 \in DOMAIN asks
      /\ \A n \in DOMAIN asks' : n + 1 \in DOMAIN asks /\ asks'[n] = asks[n + 1]
      BY DEF ServerTakesUpdate, AInv, Shaped
<1>4. /\ answers' = Append(answers, a) /\ remote' = [remote EXCEPT !.v = p.v, !.did = @ \cup {d}]
      /\ tale' = [tale EXCEPT !.had = @ \cup {p.v}, !.unasked = @ \/ unasked]
      /\ UNCHANGED <<copy, aside, engine, doc, jobs, conn, told, budget>>
      BY <1>3 DEF ServerTakesUpdate
<1>5. a.what = "ack" /\ a.op = p.op /\ d.op = p.op /\ d.v = p.v
      OBVIOUS
<1>6. /\ p.v # 0 /\ (IsLive(p.op) \/ (IsDone(p.op) /\ ~HasOp(p.op)))
      /\ p.drain => conn.at = "up"
      /\ Owed /\ RowsOf /\ p.drain => p.base = remote.last \/ remote.last \in tale.chosen
      BY <1>1, <1>2, <1>3 DEF Versions, Sent, Comes, Bases
<1>7. unasked => ~(tale.windows \cap {"outlived", "unchecked"} = {})
  <2>   SUFFICES ASSUME unasked, tale.windows \cap {"outlived", "unchecked"} = {} PROVE FALSE
        OBVIOUS
  <2>1. conn.at = "up"
        BY <1>6
  <2>2. conn.covers = remote.count /\ conn.top = remote.last
        BY <1>1, <2>1 DEF Reported
  <2>3. Owed /\ RowsOf
        BY <2>1, <2>2 DEF Owed, RowsOf
  <2>   QED
        BY <1>6, <2>2, <2>3
<1>   HIDE DEF p, a, d, unasked
<1>8. /\ remote'.v = p.v /\ remote'.did = remote.did \cup {d} /\ remote'.last = remote.last
      /\ remote'.count = remote.count
      BY <1>2, <1>4 DEF IsRemote
<1>9. /\ tale'.had = tale.had \cup {p.v} /\ tale'.unasked = (tale.unasked \/ unasked)
      /\ tale'.windows = tale.windows /\ tale'.chosen = tale.chosen
      BY <1>2, <1>4 DEF IsTale
<1>10. Counts' /\ Flowing'
      BY <1>1, <1>4, <1>8 DEF Counts, Flowing, Indexed
<1>11. Versions'
      BY <1>1, <1>3, <1>4, <1>6, <1>8, <1>9 DEF Versions
<1>12. Reported'
      BY <1>1, <1>4, <1>5, <1>8, <1>9 DEF Reported
<1>13. Landing'
  <2>1. ASSUME NEW o \in engine.ops, \E e \in remote'.did : e.op = o.id
        PROVE  o.sent /\ (o.id = p.op \/ IsDone(o.id))
    <3>1. CASE IsDone(o.id)
          BY <1>1, <3>1 DEF Landing
    <3>2. CASE o.id = p.op
          BY <1>1, <1>2, <1>6, <3>2 DEF Landing, IsLive, HasOp, Ops, OneEach
    <3>   QED
          BY <1>5, <1>8, <2>1, <3>1, <3>2 DEF IsDone
  <2>2. ASSUME budget.crash > 0, NEW o \in doc.ops, \E e \in remote'.did : e.op = o.id
        PROVE  o.sent
        BY <1>1, <1>5, <1>6, <1>8, <2>2 DEF Landing, IsDone
  <2>3. ASSUME conn.at \notin {"down", "open"}, NEW o \in engine.ops, \E e \in remote'.did : e.op = o.id
        PROVE  \E n \in DOMAIN answers' : answers'[n].what = "ack" /\ answers'[n].op = o.id
    <3>1. /\ \A n \in DOMAIN answers : n \in DOMAIN answers' /\ answers'[n] = answers[n]
          /\ \E n \in DOMAIN answers' : answers'[n] = a
          BY <1>2, <1>4
    <3>2. CASE o.id = p.op
          BY <1>5, <3>1, <3>2
    <3>3. CASE IsDone(o.id)
          BY <1>1, <2>3, <3>1, <3>3 DEF Landing
    <3>   QED
          BY <2>1, <2>3, <3>2, <3>3
  <2>   QED
        BY <1>1, <1>4, <1>9, <2>1, <2>2, <2>3 DEF Landing, IsLive, IsDone
<1>14. ~Owed'
      BY <1>5, <1>8 DEF Owed
<1>15. Bases'
      BY <1>1, <1>3, <1>4, <1>14 DEF Bases
<1>16. TheirsAsked'
      BY <1>1, <1>7, <1>9 DEF TheirsAsked
<1>   QED
      BY <1>10, <1>11, <1>12, <1>13, <1>14, <1>15, <1>16 DEF CInv

\* A teammate saves: nothing covers the version yet.
LEMMA TheirSaveMinds ==
    ASSUME AInv, CInv, TheirSave
    PROVE  CInv'
<1>   DEFINE v == tale.drawn + 1
<1>1. /\ Counts /\ Versions /\ Reported /\ Landing /\ Flowing /\ Bases /\ TheirsAsked
      BY DEF CInv
<1>2. /\ Shaped /\ IsRemote(remote) /\ IsTale(tale) /\ answers \in Seq(Answer)
      /\ \A x \in tale.had : x \in Nat /\ x <= tale.drawn
      BY DEF AInv, Shaped, IsTale, Drawn
<1>3. /\ remote'.v = v /\ remote'.last = v /\ remote'.count = remote.count + 1
      /\ remote'.did = remote.did
      BY <1>2 DEF TheirSave, IsRemote
<1>4. /\ tale'.had = tale.had \cup {v} /\ tale'.unasked = tale.unasked
      /\ tale'.windows = tale.windows /\ tale'.chosen = tale.chosen
      BY <1>2 DEF TheirSave, IsTale
<1>5. /\ budget' \in [Kinds -> Nat] /\ budget'.crash = budget.crash
      /\ UNCHANGED <<copy, aside, engine, doc, jobs, conn, told, asks>>
      BY <1>1 DEF TheirSave, Happens, Counts, Kinds
<1>6. v \in Nat /\ v # 0 /\ v \notin tale.had /\ remote.count \in Nat /\ v > tale.drawn
      BY <1>1, <1>2 DEF Counts, IsTale
<1>7. answers' = answers \/ answers' = Append(answers, [what |-> "updated", v |-> v])
      BY DEF TheirSave
<1>   HIDE DEF v
<1>8. Counts'
      BY <1>1, <1>3, <1>5, <1>6 DEF Counts
<1>9. Versions' /\ TheirsAsked' /\ Flowing'
      BY <1>1, <1>3, <1>4, <1>5, <1>6 DEF Versions, TheirsAsked, Flowing, Indexed
<1>10. conn.covers # remote'.count /\ engine.taken # remote'.count /\ doc.taken # remote'.count
       /\ \A j \in jobs : j.covers # remote'.count
      BY <1>1, <1>3 DEF Counts
<1>11. Reported'
      BY <1>1, <1>3, <1>4, <1>5, <1>6, <1>10 DEF Reported
<1>12. \A n \in DOMAIN answers : n \in DOMAIN answers' /\ answers'[n] = answers[n]
      BY <1>2, <1>7
<1>13. Landing'
      BY <1>1, <1>3, <1>4, <1>5, <1>12 DEF Landing, IsLive, IsDone
<1>14. Bases'
      BY <1>1, <1>5, <1>10 DEF Bases, RowsOf
<1>15. Minded'
      BY <1>5, <1>10 DEF Minded, Caught, Joined, RowsOf, Covering, Rows, Clock
<1>   QED
      BY <1>8, <1>9, <1>11, <1>13, <1>14, <1>15 DEF CInv

\* The connection drops: what waits for an answer was chosen, and a listing that is not
\* through has its window.
LEMMA DropMinds ==
    ASSUME AInv, CInv, AttachmentsDrop
    PROVE  CInv'
<1>   DEFINE waiting == {j \in jobs : j.step = "wait"}
             S == {0} \cup {j.covers : j \in waiting}
             n == Max(S)
             f(o) == [o EXCEPT !.live = FALSE]
             h(j) == [j EXCEPT !.flow = FALSE]
             stay == {j \in jobs : j.step # "wait" /\ j.does # "drain"}
             g == Covered(engine, n)
<1>1. /\ Counts /\ Versions /\ Reported /\ Landing /\ Flowing /\ Bases /\ TheirsAsked
      /\ Owed => Minded
      BY DEF CInv
<1>2. Shaped /\ IsEngine(engine) /\ engine.taken \in Nat /\ \A j \in jobs : IsJob(j)
      BY <1>1 DEF AInv, Shaped, Counts
<1>3. /\ conn' = Offline /\ asks' = <<>> /\ answers' = <<>>
      /\ engine' = [g EXCEPT !.ops = {f(o) : o \in @}]
      /\ tale' = Meets(tale, Unchecked, "unchecked")
      /\ jobs' = {h(j) : j \in stay}
      /\ UNCHANGED <<copy, aside, doc, told, remote>>
      BY DEF AttachmentsDrop
<1>4. /\ budget' \in [Kinds -> Nat] /\ budget'.crash = budget.crash
      BY <1>1 DEF AttachmentsDrop, Happens, Counts, Kinds
<1>5. n \in S /\ n \in Nat
  <2>1. S \in SUBSET Nat /\ S # {} /\ \A m \in S : m <= remote.count
        BY <1>1 DEF Counts
  <2>2. remote.count \in Nat
        BY <1>1 DEF Counts
  <2>   HIDE DEF S
  <2>3. PICK x \in S : \A y \in S : y <= x
        BY <2>1, <2>2, LargestExists
  <2>4. \A y \in S : x >= y
        BY <2>1, <2>3
  <2>5. Max(S) \in S
        BY <2>4 DEF Max
  <2>   QED
        BY <2>1, <2>5
<1>6. n # 0 => \E j \in jobs : j.step = "wait" /\ j.covers = n
      BY <1>5
<1>   HIDE DEF n
<1>7. /\ IsEngine(g) /\ g.known = engine.known /\ g.record = engine.record /\ g.ops = engine.ops
      /\ g.taken \in {engine.taken, n} /\ engine.taken <= g.taken /\ g.logged = engine.logged
      BY <1>2, <1>5, CoveredIs, CoveredTakes
<1>   HIDE DEF g
<1>8. \A o \in engine.ops : /\ f(o).id = o.id /\ f(o).over = o.over /\ f(o).sent = o.sent
                            /\ ~f(o).live
      BY <1>2 DEF IsEngine, IsOp
<1>9. \A j \in jobs : /\ h(j).does = j.does /\ h(j).meta = j.meta /\ h(j).covers = j.covers
                      /\ h(j).step = j.step /\ h(j).v = j.v /\ h(j).saw = j.saw /\ h(j).over = j.over
                      /\ h(j).park = j.park /\ ~h(j).flow
      BY <1>2 DEF IsJob
<1>10. /\ IndexSame /\ engine'.ops = {f(o) : o \in engine.ops}
       /\ engine'.taken = g.taken /\ engine'.logged = engine.logged
      BY <1>3, <1>7 DEF IsEngine, IndexSame
<1>   HIDE DEF f, h
<1>11. \A o \in engine'.ops : /\ ~o.live
                              /\ \E p \in engine.ops : o.id = p.id /\ o.over = p.over /\ o.sent = p.sent
      BY <1>8, <1>10
<1>12. \A k \in jobs' : /\ ~k.flow /\ k.does # "drain"
                        /\ \E j \in jobs :
                             /\ k.does = j.does /\ k.meta = j.meta /\ k.covers = j.covers
                             /\ k.step = j.step /\ k.v = j.v /\ k.saw = j.saw /\ k.over = j.over
                             /\ k.park = j.park
      BY <1>3, <1>9
<1>13. /\ HistoryGrows /\ tale'.chosen = tale.chosen /\ (Unchecked => "unchecked" \in tale'.windows)
      BY <1>2, <1>3, MeetsGrows
<1>14. conn'.at = "down" /\ conn'.covers = 0
      BY <1>3 DEF Offline
<1>15. n \in 0 .. remote.count
      BY <1>1, <1>5, <1>6 DEF Counts
<1>16. Counts'
  <2>1. /\ engine'.taken \in 0 .. remote.count /\ engine'.logged \in 0 .. engine'.taken
        /\ doc.taken \in 0 .. engine'.taken
        BY <1>1, <1>7, <1>10, <1>15 DEF Counts
  <2>2. \A k \in jobs' : k.covers \in 0 .. remote.count
        BY <1>1, <1>12 DEF Counts
  <2>   QED
        BY <1>1, <1>3, <1>4, <1>14, <2>1, <2>2 DEF Counts
<1>17. Versions'
      BY <1>1, <1>3, <1>12, <1>13 DEF Versions, HistoryGrows
<1>18. Reported' /\ TheirsAsked' /\ Flowing' /\ Bases'
      BY <1>1, <1>3, <1>12, <1>13, <1>14 DEF Reported, TheirsAsked, Flowing, Bases, HistoryGrows
<1>19. Landing'
      BY <1>1, <1>3, <1>4, <1>11, <1>12, <1>13, <1>14 DEF Landing, IsLive, IsDone
<1>20. ASSUME Owed' PROVE Minded'
  <2>1. Minded /\ Owed /\ remote.count # 0 /\ ~Unchecked
    <3>1. "unchecked" \notin tale'.windows
          BY <1>20 DEF Owed
    <3>   QED
          BY <1>1, <1>3, <1>13, <1>20, <3>1, OwedIs DEF HistoryGrows
  <2>2. (Dealt' <=> Dealt) /\ ~Joined' /\ ~RowsOf'
        BY <1>3, <1>10, <1>13, <1>14 DEF Dealt, Joined, RowsOf, IndexSame
  <2>3. engine'.taken = remote.count =>
           engine.taken = remote.count \/ \E j \in jobs : j.step = "wait" /\ j.covers = remote.count
        BY <1>6, <1>7, <1>10, <2>1
  <2>4. Caught' => Caught
        BY <1>3, <1>12, <2>2, <2>3 DEF Caught
  <2>5. Caught' => Answered'
        BY <1>3, <1>11, <2>1, <2>4 DEF Minded, Answered, IsDone
  <2>6. Caught' => Meant'
        BY <1>3, <1>10, <1>12, <2>1, <2>2, <2>4 DEF Minded, Meant, Indexed, IndexSame
  <2>7. Covering'
        BY <1>3, <1>10, <1>12, <1>13, <2>1, <2>2 DEF Minded, Covering, IndexSame
  <2>8. Rows'
        BY <2>2 DEF Rows
  <2>9. Clock'
    <3>1. engine'.taken = remote.count => Dealt
          BY <2>1, <2>3 DEF Minded, Clock, Covering, Unchecked, Dealt
    <3>   QED
          BY <1>3, <1>4, <1>13, <2>1, <2>2, <3>1 DEF Minded, Clock, IsDone
  <2>   QED
        BY <2>2, <2>5, <2>6, <2>7, <2>8, <2>9 DEF Minded
<1>   QED
      BY <1>16, <1>17, <1>18, <1>19, <1>20 DEF CInv

\* The log is written,
LEMMA PersistMinds ==
    ASSUME AInv, CInv, PersistAttachments
    PROVE  CInv'
<1>   DEFINE d == Written(engine)
<1>1. /\ Counts /\ Versions /\ Reported /\ Landing /\ Flowing /\ Bases /\ TheirsAsked
      /\ Owed => Minded
      BY DEF CInv
<1>2. Shaped /\ IsEngine(engine)
      BY DEF AInv, Shaped
<1>3. /\ budget.crash > 0 /\ doc' = d
      /\ tale' = Meets(tale, doc'.taken # doc.taken /\ Unchecked, "unchecked")
      /\ UNCHANGED <<copy, aside, engine, jobs, conn, told, asks, answers, remote, budget>>
      BY DEF PersistAttachments
<1>4. /\ d.taken = engine.logged /\ d.record = engine.record
      /\ \A o \in d.ops : \E p \in engine.ops : o.id = p.id /\ o.over = p.over /\ o.sent = p.sent
      BY <1>2, WrittenKeeps
<1>5. \A o \in engine.ops : IsLive(o.id) => o.sent
      BY <1>1 DEF Landing, AInv, Ops, OneEach, IsLive
<1>   HIDE DEF d
<1>6. /\ HistoryGrows /\ tale'.chosen = tale.chosen
      /\ (doc'.taken # doc.taken /\ Unchecked => "unchecked" \in tale'.windows)
      BY <1>2, <1>3, MeetsGrows
<1>7. Counts'
      BY <1>1, <1>3, <1>4 DEF Counts
<1>8. Versions' /\ Reported' /\ TheirsAsked' /\ Flowing'
      BY <1>1, <1>3, <1>6 DEF Versions, Reported, TheirsAsked, Flowing, Indexed, HistoryGrows
<1>9. Landing'
      BY <1>1, <1>3, <1>4, <1>5, <1>6 DEF Landing, IsLive, IsDone
<1>10. ASSUME Owed' PROVE Owed /\ Minded
      BY <1>1, <1>3, <1>6, <1>10, OwedIs DEF HistoryGrows
<1>11. Bases'
      BY <1>1, <1>3, <1>6, <1>10 DEF Bases, RowsOf
<1>12. ASSUME Owed' PROVE Minded'
  <2>1. Minded /\ (doc'.taken # doc.taken => ~Unchecked)
        BY <1>6, <1>10, <1>12 DEF Owed
  <2>2. (Caught' <=> Caught) /\ (Joined' <=> Joined) /\ (RowsOf' <=> RowsOf) /\ (Dealt' <=> Dealt)
        BY <1>3, <1>6 DEF Caught, Joined, RowsOf, Dealt
  <2>3. (Answered' <=> Answered) /\ (Meant' <=> Meant)
        BY <1>3, <2>2 DEF Answered, Meant, Indexed, IsDone
  <2>4. Covering' /\ Rows'
        BY <1>3, <1>6, <2>1, <2>2 DEF Minded, Covering, Rows, Indexed
  <2>5. Answered' \/ ~Caught
        BY <2>1, <2>3 DEF Minded
  <2>6. ASSUME d.taken = remote.count
        PROVE  /\ Dealt' /\ (d.record = remote.last \/ remote.last \in tale.chosen)
               /\ \A o \in d.ops : ~IsDone(o.id)
    <3>1. /\ IndexSame /\ engine'.logged = engine.logged /\ d.taken = engine'.logged
          /\ d.record = engine'.record
          /\ \A o \in d.ops : \E p \in engine'.ops : o.id = p.id
          BY <1>3, <1>4 DEF IndexSame
    <3>   QED
          BY <1>1, <1>3, <1>6, <1>7, <2>1, <2>5, <2>6, <3>1, WritesKeep
  <2>7. Clock'
        BY <1>3, <1>6, <2>1, <2>2, <2>6 DEF Minded, Clock, IsDone
  <2>   QED
        BY <2>1, <2>2, <2>3, <2>4, <2>7 DEF Minded
<1>   QED
      BY <1>7, <1>8, <1>9, <1>11, <1>12 DEF CInv

\* and read by a process that starts.
LEMMA CrashMinds ==
    ASSUME AInv, CInv, AttachmentsCrash
    PROVE  CInv'
<1>1. /\ Counts /\ Versions /\ Reported /\ Landing /\ Flowing /\ Bases /\ TheirsAsked
      /\ Owed => Minded
      BY DEF CInv
<1>2. Shaped /\ IsDoc(doc) /\ \A o \in doc.ops : ~o.live
      BY DEF AInv, Shaped, Ops
<1>3. /\ engine'.record = doc.record /\ engine'.ops = doc.ops /\ engine'.taken = doc.taken
      /\ engine'.logged = doc.taken
      /\ jobs' = {} /\ conn'.at = "down" /\ conn'.covers = 0 /\ asks' = <<>> /\ answers' = <<>>
      /\ UNCHANGED <<copy, aside, doc, remote>>
      BY DEF AttachmentsCrash, Loaded, Offline
<1>4. HistoryGrows /\ tale'.chosen = tale.chosen
      BY <1>2, MeetsGrows DEF AttachmentsCrash
<1>5. budget' \in [Kinds -> Nat] /\ budget.crash > 0
      BY <1>1 DEF AttachmentsCrash, Happens, Counts, Kinds
<1>6. Counts'
      BY <1>1, <1>3, <1>5 DEF Counts
<1>7. Versions' /\ Reported' /\ TheirsAsked' /\ Flowing' /\ Bases'
      BY <1>1, <1>3, <1>4 DEF Versions, Reported, TheirsAsked, Flowing, Bases, HistoryGrows
<1>8. Landing'
      BY <1>1, <1>2, <1>3, <1>4, <1>5 DEF Landing, IsLive, IsDone
<1>9. ASSUME Owed' PROVE Minded'
  <2>1. Minded
        BY <1>1, <1>3, <1>4, <1>9, OwedIs DEF HistoryGrows
  <2>2. (Caught' => doc.taken = remote.count) /\ ~Joined' /\ ~RowsOf'
        BY <1>3 DEF Caught, Joined, RowsOf
  <2>3. Caught' => Answered'
        BY <1>3, <1>5, <2>1, <2>2 DEF Minded, Clock, Answered, IsDone
  <2>4. Clock'
        BY <1>3, <1>4, <1>5, <2>1 DEF Minded, Clock, Dealt, IsDone
  <2>   QED
        BY <1>3, <2>2, <2>3, <2>4 DEF Minded, Meant, Covering, Rows
<1>   QED
      BY <1>6, <1>7, <1>8, <1>9 DEF CInv

\* The catch-up's part of the invariant holds at the start,
LEMMA CatchUpStarts == AttachmentsInit => CInv
<1>   SUFFICES ASSUME AttachmentsInit PROVE CInv
      OBVIOUS
<1>1. /\ copy = 1 /\ aside = {} /\ jobs = {} /\ asks = <<>> /\ answers = <<>>
      /\ doc = [record |-> 1, taken |-> 0, ops |-> {}] /\ engine = Loaded(doc) /\ conn = Offline
      /\ remote = [v |-> 1, count |-> 0, last |-> 0, did |-> {}] /\ budget \in [Kinds -> Nat]
      /\ tale = [drawn |-> 1, mine |-> 0, had |-> {1}, chosen |-> {}, unasked |-> FALSE,
                 windows |-> {}]
      BY AttachmentsAssumption DEF AttachmentsInit
<1>2. engine.taken = 0 /\ engine.logged = 0 /\ engine.ops = {} /\ conn.at = "down" /\ conn.covers = 0
      BY <1>1 DEF Loaded, Offline
<1>3. Counts /\ Versions /\ Reported /\ Landing /\ Flowing /\ Bases /\ TheirsAsked
      BY <1>1, <1>2 DEF Counts, Versions, Reported, Landing, Flowing, Bases, TheirsAsked
<1>4. ~Owed
      BY <1>1 DEF Owed
<1>   QED
      BY <1>3, <1>4 DEF CInv

\* and every step keeps it.
LEMMA CatchUpHolds == AInv /\ AInv' /\ CInv /\ [AttachmentsNext]_avars => CInv'
<1>   SUFFICES ASSUME AInv, AInv', CInv, [AttachmentsNext]_avars PROVE CInv'
      OBVIOUS
<1>1. CASE UNCHANGED avars
      BY <1>1 DEF avars, CInv, Counts, Versions, Reported, Landing, Flowing, Bases, TheirsAsked, Owed,
         Minded, Caught, Joined, RowsOf, Answered, Meant, Covering, Rows, Clock, Dealt, Indexed,
         IsLive, IsDone
<1>2. CASE SaveCopy \/ TellSave \/ AckComes \/ UpdateComes
      BY <1>2, SaveCopyMinds, TellSaveMinds, AckComesMinds, UpdateComesMinds
<1>3. ASSUME NEW j \in jobs, \/ LookAtSave(j) \/ Upload(j) \/ Fetch(j) \/ Compare(j)
                             \/ AnswerConflict(j) \/ Commit(j) \/ PutCopy(j)
      PROVE  CInv'
      BY <1>3, LookAtSaveMinds, UploadMinds, FetchMinds, CompareMinds, AnswerConflictMinds,
         CommitMinds, PutCopyMinds
<1>4. CASE ConnectAttachments \/ SettleAttachment \/ JoinAttachments \/ RefreshAttachments
      BY <1>4, ConnectMinds, SettleMinds, JoinMinds, RefreshMinds
<1>5. CASE FlowGoesOn \/ DrainAttachments \/ ServerTakesUpdate \/ TheirSave
      BY <1>5, FlowMinds, DrainMinds, TakeMinds, TheirSaveMinds
<1>6. CASE AttachmentsDrop \/ PersistAttachments \/ AttachmentsCrash
      BY <1>6, DropMinds, PersistMinds, CrashMinds
<1>   QED
      BY <1>1, <1>2, <1>3, <1>4, <1>5, <1>6 DEF AttachmentsNext

\* What is true of a catch-up and of what it reports, in every state: what the clock or
\* a catch-up covers is recorded here, was chosen against, or is still being looked at,
\* and no answer or operation from before it is left that could undo that.
THEOREM ReportedInvariant == AttachmentsSpec => []CInv
<1>1. AttachmentsInit => CInv
      BY CatchUpStarts
<1>2. AInv /\ AInv' /\ CInv /\ [AttachmentsNext]_avars => CInv'
      BY CatchUpHolds
<1>   QED
      BY <1>1, <1>2, AttachmentsInvariant, PTL DEF AttachmentsSpec

\* Whatever the saves, teammates' versions, answers to the prompt, drops and crashes,
\* what the queue sends after a catch-up does not replace a version that catch-up
\* reported unless it was taken here first or the user chose against it (onSocketConnect,
\* supersededOps, KEEP_OVER), but for the two windows the model names.
THEOREM TheirsAskedAlways == AttachmentsSpec => []TheirsAsked
<1>1. CInv => TheirsAsked
      BY DEF CInv
<1>   QED
      BY <1>1, ReportedInvariant, PTL
=============================================================================
