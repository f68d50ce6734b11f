---------------------------- MODULE CatchUpProofs ----------------------------
(***************************************************************************)
(* Proofs about CatchUp, for any names and any number of renames, changes, *)
(* drops, crashes and refused joins: no operation of this device's that a  *)
(* catch-up returns is applied as a teammate's (OwnNotTaken).              *)
(*                                                                         *)
(* The argument follows an operation from its record to the row a join     *)
(* returns.  While it is out it is in the log and in state.json (Carried). *)
(* When it leaves the log its counter is recorded, and the teammate's was  *)
(* there when it was sent, so the recorded clock covers its row            *)
(* (Recorded).  A join is sent with a clock that covers all but the rows   *)
(* this device recognises (Joining), so what it returns of its own is      *)
(* recognised, and stays so until the row is looked at (Shown).  A crash   *)
(* may leave state.json with less of the teammate's counters: those        *)
(* operations are past.ahead.                                              *)
(*                                                                         *)
(* First what each action does, in a form later steps can cite; then that  *)
(* it keeps the invariant.  A second proof follows: no teammate's rename   *)
(* undoes a later one of the user's (NothingUndone).                       *)
(***************************************************************************)
EXTENDS CatchUp, FiniteSetTheorems, WellFoundedInduction, TLAPS

\* Types.
Clock == Nat \X Nat
QueuedOps == [kind : {"rename", "change"}, from : FileName, to : FileName,
              st : {"queued", "writing", "sent", "answered", "resent"}]
Logs(n) == UNION {[S -> QueuedOps] : S \in SUBSET (1..n)}
Flows == [step : {"off", "ask", "settle", "gather", "again", "rows", "live"},
          asked : SUBSET Nat, half : BOOLEAN, settled : BOOLEAN, before : SUBSET Nat, renames : Nat,
          listing : {"none", "asked", "read", "done"}, read : Nat, listed : FileName, here : BOOLEAN,
          join : {"none", "joined", "refused"}, rows : SUBSET Nat, whole : BOOLEAN, todo : SUBSET Nat,
          own : SUBSET Nat, had : SUBSET Nat]
Handlers == Seq([row : Nat, count : Nat])
Rows == [id : Nat, kind : {"rename", "change"}, from : FileName, to : FileName, clock : Clock]
Requests == [type : {"op"}, id : Nat, clock : Clock] \cup [type : {"join"}, clock : Clock]
Answers ==
    [type : {"ack", "renamed"}, row : Nat] \cup [type : {"refused"}]
      \cup [type : {"joined"}, whole : BOOLEAN, rows : SUBSET Nat]

Mems(n) == [log : Logs(n), clock : Clock, recorded : Clock, applied : SUBSET Nat,
            known : SUBSET Nat, count : Nat, handlers : Handlers, flow : Flows]
Files(n) == [log : Logs(n), clock : Clock, applied : SUBSET Nat, at : FileName]
MemTypeOK == mem \in Mems(made)
FileTypeOK == file \in Files(made)
ProjectTypeOK ==
    project \in [at : FileName, journal : Seq(Rows), room : BOOLEAN, join : Clock \cup {<<>>}]
Pasts == [mistaken : SUBSET Nat, ahead : SUBSET Nat, undone : BOOLEAN, replayed : BOOLEAN,
          outdated : BOOLEAN, live : SUBSET Nat, seen : SUBSET Nat, count : Nat]
Shaped ==
    /\ at \in FileName /\ made \in Nat /\ MemTypeOK /\ FileTypeOK /\ ProjectTypeOK
    /\ up \in Seq(Requests) /\ down \in Seq(Answers) /\ past \in Pasts

\* What refers to rows of the journal, and to operations made.
RowsThere ==
    /\ mem.applied \subseteq DOMAIN project.journal
    /\ file.applied \subseteq DOMAIN project.journal
    /\ \A n \in DOMAIN mem.handlers : mem.handlers[n].row \in DOMAIN project.journal
    /\ \A n \in DOMAIN down :
          /\ down[n].type \in {"ack", "renamed"} => down[n].row \in DOMAIN project.journal
          /\ down[n].type = "joined" => down[n].rows \subseteq DOMAIN project.journal
    /\ mem.flow.rows \subseteq DOMAIN project.journal
    /\ mem.flow.todo \subseteq mem.flow.rows
    /\ mem.flow.rows # {} => mem.flow.join = "joined"
    /\ mem.flow.asked \subseteq 1..made
    /\ \A k \in DOMAIN project.journal : project.journal[k].id <= made
    /\ \A n \in DOMAIN up : up[n].type = "op" => up[n].id \in 1..made

\* Rows of this device's operations, and the operations the socket still carries.
Own == {k \in DOMAIN project.journal : project.journal[k].id # 0}
Sent == {n \in DOMAIN up : up[n].type = "op"}

\* An operation has one row, and one packet on its way.
Once ==
    /\ \A j, k \in Own : project.journal[j].id = project.journal[k].id => j = k
    /\ \A m, n \in Sent : up[m].id = up[n].id => m = n
\* A packet's operation is in the log and in state.json, and has no row yet.
Carried ==
    \A n \in Sent :
        /\ up[n].id \in DOMAIN mem.log /\ up[n].id \in DOMAIN file.log /\ ~Landed(up[n].id)
        /\ mem.log[up[n].id].st \in {"sent", "resent"} /\ up[n].clock[2] <= mem.clock[2]
\* Only until it is settled is an operation with a row queued.
Unsent ==
    \A i \in DOMAIN mem.log :
        /\ mem.log[i].st = "writing" => ~Landed(i)
        /\ mem.log[i].st = "queued" /\ Landed(i) =>
              mem.flow.step = "off" \/ (i \in mem.flow.asked /\ mem.flow.step \in {"ask", "settle"})
        /\ mem.log[i].st = "answered" => Landed(i)
Disconnected ==
    mem.flow.step = "off" =>
        up = <<>> /\ down = <<>> /\ ~project.room /\ project.join = <<>> /\ ~mem.flow.half
Stages ==
    /\ mem.flow.settled => mem.flow.step \in {"gather", "rows", "live"}
    /\ mem.flow.listing \in {"asked", "read"} => mem.flow.step = "gather"
    /\ mem.flow.step = "settle" => \A i \in mem.flow.asked : Landed(i)
    /\ mem.flow.half => /\ mem.flow.step = "settle" /\ mem.flow.asked # {}
                        /\ Earliest(mem.flow.asked) \in mem.known
\* The clocks, each at least the one before; and of the teammate's counters memory has as
\* much as what went out, but for what a crash lost.
Clocks ==
    /\ \A n \in {1, 2} : file.clock[n] <= mem.recorded[n] /\ mem.recorded[n] <= mem.clock[n]
    /\ \A k \in Own : project.journal[k].clock[2] <= mem.clock[2] \/ project.journal[k].id \in past.ahead
\* A row that a catch-up from this clock does not return, but for what a crash lost.
Within(k, c) ==
    /\ project.journal[k].clock[1] <= c[1]
    /\ project.journal[k].clock[2] <= c[2] \/ project.journal[k].id \in past.ahead
\* What has left the queue is within the recorded clock.
Recorded ==
    \A k \in Own :
        /\ project.journal[k].id \notin DOMAIN mem.log \/ project.journal[k].id \in mem.known =>
              Within(k, mem.recorded)
        /\ project.journal[k].id \notin DOMAIN file.log => Within(k, file.clock)
\* What is returned is recognised: it is queued, or was settled on this connection.
Recognised(id) == id \in mem.known \cup DOMAIN mem.log \cup past.ahead
Returns(rows) == \A k \in rows : k \in Own => Recognised(project.journal[k].id)
UpTo(c) ==
    \A k \in Own : \/ Recognised(project.journal[k].id)
                   \/ \A n \in {1, 2} : project.journal[k].clock[n] <= c[n]
Joining ==
    /\ \A n \in DOMAIN up : up[n].type = "join" => UpTo(up[n].clock)
    /\ project.join # <<>> => UpTo(project.join)
    /\ \A n \in DOMAIN down : down[n].type = "joined" => Returns(down[n].rows)
    /\ Returns(mem.flow.rows)
Shown ==
    mem.flow.step = "rows" =>
        \A k \in mem.flow.todo : k \in Own /\ k \notin mem.flow.own => project.journal[k].id \in past.ahead

CInv ==
    /\ Shaped /\ RowsThere /\ Once /\ Carried /\ Unsent /\ Disconnected /\ Stages /\ Clocks
    /\ Recorded
    /\ Joining /\ Shown /\ OwnNotTaken

-----------------------------------------------------------------------------
\* What a log is.
LEMMA LogNamed ==
    ASSUME NEW n \in Nat, NEW l
    PROVE  l \in Logs(n) <=> /\ DOMAIN l \subseteq 1..n /\ l = [i \in DOMAIN l |-> l[i]]
                             /\ \A i \in DOMAIN l : l[i] \in QueuedOps
BY DEF Logs

\* A set of operations or rows that is not empty has an earliest.
LEMMA LeastExists ==
    ASSUME NEW S \in SUBSET Nat, S # {}
    PROVE  Earliest(S) \in S /\ \A j \in S : Earliest(S) <= j
<1>   DEFINE R == OpToRel(<, Nat)
<1>1. IsWellFoundedOn(R, Nat)
      BY NatLessThanWellFounded
<1>2. \A i, j \in Nat : j < i => <<j, i>> \in R
      BY DEF OpToRel
<1>   HIDE DEF R
<1>3. \E i \in S : \A j \in S : ~(<<j, i>> \in R)
      BY <1>1, WFMin
<1>4. \A i, j \in Nat : i <= j \/ j < i
      OBVIOUS
<1>5. \E i \in S : \A j \in S : i <= j
      BY <1>2, <1>3, <1>4
<1>   QED
      BY <1>5 DEF Earliest

\* A finite one has a last.
LEMMA GreatestExists ==
    ASSUME NEW n \in Nat, NEW S \in SUBSET (1..n), S # {}
    PROVE  \E i \in S : \A j \in S : i >= j
<1>   DEFINE T == {n - i : i \in S}
<1>0. \A i \in S : n - i \in Nat
      OBVIOUS
<1>1. T \in SUBSET Nat /\ T # {}
      BY <1>0
<1>2. PICK m \in T : \A k \in T : m <= k
      BY <1>1, LeastExists
<1>3. PICK i \in S : m = n - i
      BY <1>2
<1>4. \A j \in S : n - i <= n - j
      BY <1>2, <1>3
<1>   QED
      BY <1>3, <1>4

-----------------------------------------------------------------------------
\* A log without some of its operations is a log.
LEMMA WithoutNamed ==
    ASSUME NEW n \in Nat, NEW l \in Logs(n), NEW S
    PROVE  /\ Without(l, S) \in Logs(n) /\ DOMAIN Without(l, S) = DOMAIN l \ S
           /\ \A i \in DOMAIN l \ S : Without(l, S)[i] = l[i]
BY LogNamed DEF Without

\* Log m is l with operation i in another state.
Becomes(m, l, i, st) ==
    /\ DOMAIN m = DOMAIN l /\ m[i].st = st /\ m[i].kind = l[i].kind
    /\ \A j \in DOMAIN l : j # i => m[j] = l[j]

\* So is one with an operation in another state.
LEMMA SetNamed ==
    ASSUME NEW n \in Nat, NEW l \in Logs(n), NEW i \in DOMAIN l,
           NEW st \in {"queued", "writing", "sent", "answered", "resent"}
    PROVE  [l EXCEPT ![i].st = st] \in Logs(n) /\ Becomes([l EXCEPT ![i].st = st], l, i, st)
BY LogNamed DEF QueuedOps, Becomes

\* A log of no more operations, each with the state it had.
Fewer(l, m) == /\ DOMAIN l \subseteq DOMAIN m
               /\ \A i \in DOMAIN l : l[i].st = m[i].st

\* Collapsing renames takes queued ones away only (collapseQueuedRenames).
LEMMA CollapsedNamed ==
    ASSUME NEW n \in Nat, NEW l \in Logs(n)
    PROVE  /\ Collapsed(l) \in Logs(n) /\ Fewer(Collapsed(l), l)
           /\ \A i \in DOMAIN l \ DOMAIN Collapsed(l) : l[i].st = "queued"
<1>   DEFINE chain == {i \in DOMAIN l : l[i].kind = "rename" /\ l[i].st = "queued"}
             first == CHOOSE i \in chain : \A j \in chain : i <= j
             last  == CHOOSE i \in chain : \A j \in chain : i >= j
             one   == Without(l, chain \ {first})
<1>1. /\ l = [i \in DOMAIN l |-> l[i]] /\ chain \in SUBSET (1..n)
      /\ \A i \in DOMAIN l : l[i] \in QueuedOps
      BY LogNamed
<1>2. CASE Cardinality(chain) < 2
  <2>1. Collapsed(l) = l
        BY <1>2 DEF Collapsed
  <2>   QED
        BY <2>1 DEF Fewer
<1>3. CASE ~(Cardinality(chain) < 2) /\ l[first].from = l[last].to
  <2>1. Collapsed(l) = Without(l, chain)
        BY <1>3 DEF Collapsed
  <2>2. \A i \in chain : l[i].st = "queued"
        OBVIOUS
  <2>   HIDE DEF chain
  <2>3. /\ Without(l, chain) \in Logs(n) /\ DOMAIN Without(l, chain) = DOMAIN l \ chain
        /\ \A i \in DOMAIN l \ chain : Without(l, chain)[i] = l[i]
        BY WithoutNamed
  <2>   QED
        BY <2>1, <2>2, <2>3 DEF Fewer
<1>4. CASE ~(Cardinality(chain) < 2) /\ l[first].from # l[last].to
  <2>1. Collapsed(l) = [one EXCEPT ![first].to = l[last].to]
        BY <1>4 DEF Collapsed
  <2>2. chain # {}
        BY <1>4, FS_EmptySet
  <2>3. last \in chain
        BY <1>1, <2>2, GreatestExists
  <2>4. chain \subseteq DOMAIN l /\ \A i \in chain : l[i].st = "queued"
        OBVIOUS
  <2>   HIDE DEF chain, first, last
  <2>5. l[last].to \in FileName
        BY <1>1, <2>3, <2>4 DEF QueuedOps
  <2>6. /\ one \in Logs(n) /\ DOMAIN one = DOMAIN l \ (chain \ {first})
        /\ \A i \in DOMAIN l \ (chain \ {first}) : one[i] = l[i]
        BY WithoutNamed
  <2>   HIDE DEF one
  <2>7. /\ one = [i \in DOMAIN one |-> one[i]] /\ DOMAIN one \subseteq 1..n
        /\ \A i \in DOMAIN one : one[i] \in QueuedOps
        BY <2>6, LogNamed
  <2>8. /\ DOMAIN Collapsed(l) = DOMAIN one
        /\ \A i \in DOMAIN one : Collapsed(l)[i] \in QueuedOps /\ Collapsed(l)[i].st = one[i].st
        BY <2>1, <2>5, <2>7 DEF QueuedOps
  <2>9. Collapsed(l) = [i \in DOMAIN Collapsed(l) |-> Collapsed(l)[i]]
        BY <2>1
  <2>   QED
        BY <2>4, <2>6, <2>7, <2>8, <2>9, LogNamed DEF Fewer
<1>   QED
      BY <1>2, <1>3, <1>4

-----------------------------------------------------------------------------
\* An operation that landed has the row RowOf finds.
LEMMA RowOfNamed ==
    ASSUME NEW id, Landed(id)
    PROVE  RowOf(id) \in DOMAIN project.journal /\ project.journal[RowOf(id)].id = id
BY DEF Landed, RowOf

\* What a write puts on the disk.
IsDocument(d, m) ==
    /\ d \in Files(made) /\ DOMAIN d.log = DOMAIN m.log
    /\ \A i \in DOMAIN m.log : d.log[i].st = "queued"
    /\ d.clock = m.recorded /\ d.applied = m.applied

\* A write has every operation of the log, queued (Document).
LEMMA DocumentNamed ==
    ASSUME Shaped, NEW name \in FileName
    PROVE  IsDocument(Document(mem, name), mem) /\ Document(mem, name).at = name
<1>1. mem.log \in Logs(made) /\ made \in Nat
      BY DEF Shaped, MemTypeOK, Mems
<1>   DEFINE l == [i \in DOMAIN mem.log |-> [mem.log[i] EXCEPT !.st = "queued"]]
<1>2. l \in Logs(made)
  <2>1. \A i \in DOMAIN mem.log : mem.log[i] \in QueuedOps
        BY <1>1, LogNamed
  <2>2. \A i \in DOMAIN l : l[i] \in QueuedOps
        BY <2>1 DEF QueuedOps
  <2>   QED
        BY <1>1, <2>2, LogNamed
<1>3. \A i \in DOMAIN mem.log : l[i].st = "queued"
      BY <1>1, LogNamed DEF QueuedOps
<1>4. DOMAIN l = DOMAIN mem.log
      OBVIOUS
<1>   HIDE DEF l
<1>5. Document(mem, name) = [log |-> l, clock |-> mem.recorded, applied |-> mem.applied, at |-> name]
      BY DEF Document, l
<1>   QED
      BY <1>2, <1>3, <1>4, <1>5 DEF Shaped, MemTypeOK, Mems, Files, IsDocument

\* The answer of row k's operation taken in.
Settles(m, k) ==
    /\ m \in Mems(made)
    /\ m.log = Without(mem.log, {project.journal[k].id})
    /\ m.clock = <<Larger(mem.clock[1], project.journal[k].clock[1]), mem.clock[2]>>
    /\ m.recorded = m.clock /\ m.known = mem.known \cup {project.journal[k].id}
    /\ m.applied = mem.applied /\ m.handlers = mem.handlers /\ m.flow = mem.flow
    /\ m.count = mem.count

\* settleUnanswered and the answer of an operation take in the counter, record it,
\* and take the entry out.
LEMMA SettleNamed ==
    ASSUME Shaped, NEW k \in DOMAIN project.journal
    PROVE  Settles(Settle(mem, k), k)
<1>1. project.journal[k] \in Rows
      BY DEF Shaped, ProjectTypeOK
<1>2. mem.log \in Logs(made) /\ made \in Nat /\ mem.clock \in Clock /\ mem \in Mems(made)
      BY DEF Shaped, MemTypeOK, Mems
<1>   DEFINE id == project.journal[k].id
             c  == <<Larger(mem.clock[1], project.journal[k].clock[1]), mem.clock[2]>>
             l  == Without(mem.log, {id})
<1>3. l \in Logs(made)
      BY <1>2, WithoutNamed
<1>4. c \in Clock
      BY <1>1, <1>2 DEF Clock, Rows, Larger
<1>   DEFINE ids == mem.known \cup {id}
<1>5. ids \in SUBSET Nat
      BY <1>1, <1>2 DEF Rows, Mems
<1>6. Settle(mem, k) = [mem EXCEPT !.clock = c, !.recorded = c, !.log = l, !.known = ids]
      BY <1>2 DEF Settle, PersistVectorClock, AdoptOwnCounter, Mems
<1>   HIDE DEF id, c, l, ids
<1>7. Settle(mem, k) \in Mems(made)
      BY <1>2, <1>3, <1>4, <1>5, <1>6 DEF Mems
<1>8. /\ Settle(mem, k).log = l /\ Settle(mem, k).clock = c /\ Settle(mem, k).recorded = c
      /\ Settle(mem, k).known = ids /\ Settle(mem, k).applied = mem.applied
      /\ Settle(mem, k).handlers = mem.handlers /\ Settle(mem, k).flow = mem.flow
      /\ Settle(mem, k).count = mem.count
      BY <1>2, <1>6 DEF Mems
<1>   QED
      BY <1>7, <1>8 DEF Settles, id, c, l, ids

-----------------------------------------------------------------------------
\* More operations made take nothing from the types.
LEMMA LogsGrow ==
    ASSUME NEW m \in Nat, NEW n \in Nat, m <= n
    PROVE  /\ Logs(m) \subseteq Logs(n) /\ Mems(m) \subseteq Mems(n)
           /\ Files(m) \subseteq Files(n)
<1>1. 1..m \subseteq 1..n
      OBVIOUS
<1>2. Logs(m) \subseteq Logs(n)
      BY <1>1 DEF Logs
<1>   QED
      BY <1>2 DEF Mems, Files

\* Record: the log has one operation more, and maybe less of the queued ones.
Records(kind, drops) ==
    /\ made' = made + 1 /\ UNCHANGED <<file, project, up, down>>
    /\ mem' \in Mems(made + 1)
    /\ DOMAIN mem'.log \subseteq DOMAIN mem.log \cup {made + 1}
    /\ \A i \in DOMAIN mem.log \ DOMAIN mem'.log : CanSendLive /\ i \in drops
    /\ made + 1 \in DOMAIN mem'.log /\ mem'.log[made + 1].st \in {"writing", "queued"}
    /\ \A i \in DOMAIN mem'.log \ {made + 1} : mem'.log[i] = mem.log[i]
    /\ mem'.clock = mem.clock /\ mem'.recorded = mem.recorded /\ mem'.known = mem.known
    /\ mem'.applied = mem.applied /\ mem'.handlers = mem.handlers /\ mem'.flow = mem.flow

\* The effect of recording an operation.
LEMMA RecordNamed ==
    ASSUME Shaped, NEW kind \in {"rename", "change"}, NEW to \in FileName, NEW drops,
           Record(kind, to, drops)
    PROVE  Records(kind, drops)
<1>1. mem \in Mems(made) /\ mem.log \in Logs(made) /\ made \in Nat /\ at \in FileName
      BY DEF Shaped, MemTypeOK, Mems
<1>   DEFINE l == [i \in (DOMAIN mem.log \ (IF CanSendLive THEN drops ELSE {})) \cup {made + 1} |->
                     IF i = made + 1
                     THEN QueuedOp(kind, at, to, IF CanSendLive THEN "writing" ELSE "queued")
                     ELSE mem.log[i]]
             count == IF kind = "rename" THEN mem.count + 1 ELSE mem.count
<1>2. QueuedOp(kind, at, to, IF CanSendLive THEN "writing" ELSE "queued") \in QueuedOps
      BY <1>1 DEF QueuedOp, QueuedOps
<1>3. DOMAIN mem.log \subseteq 1..made /\ \A i \in DOMAIN mem.log : mem.log[i] \in QueuedOps
      BY <1>1, LogNamed
<1>4. \A i \in DOMAIN l : l[i] \in QueuedOps
      BY <1>2, <1>3
<1>5. l \in Logs(made + 1)
  <2>1. /\ DOMAIN l \subseteq 1..(made + 1) /\ l = [i \in DOMAIN l |-> l[i]]
        /\ made + 1 \in Nat
        BY <1>1, <1>3
  <2>   HIDE DEF l
  <2>   QED
        BY <1>4, <2>1, LogNamed
<1>6. count \in Nat
      BY <1>1 DEF Mems
<1>7. /\ DOMAIN l \subseteq DOMAIN mem.log \cup {made + 1}
      /\ \A i \in DOMAIN mem.log \ DOMAIN l : CanSendLive /\ i \in drops
      /\ made + 1 \in DOMAIN l /\ l[made + 1].st \in {"writing", "queued"}
      /\ \A i \in DOMAIN l \ {made + 1} : l[i] = mem.log[i]
      BY DEF QueuedOp
<1>8. mem' = [mem EXCEPT !.log = l, !.count = count]
      BY <1>1 DEF Record, Mems
<1>9. mem \in Mems(made + 1)
      BY <1>1, LogsGrow
<1>   HIDE DEF l, count
<1>10. /\ mem' \in Mems(made + 1) /\ mem'.log = l
       /\ mem'.clock = mem.clock /\ mem'.recorded = mem.recorded /\ mem'.known = mem.known
       /\ mem'.applied = mem.applied /\ mem'.handlers = mem.handlers /\ mem'.flow = mem.flow
      BY <1>5, <1>6, <1>8, <1>9 DEF Mems
<1>   QED
      BY <1>7, <1>10 DEF Records, Record

\* Emit.
Emits(i, st) ==
    /\ mem' \in Mems(made) /\ Becomes(mem'.log, mem.log, i, st)
    /\ mem'.clock = <<mem.clock[1] + 1, mem.clock[2]>> /\ mem'.recorded = mem.recorded
    /\ mem'.known = mem.known /\ mem'.applied = mem.applied /\ mem'.handlers = mem.handlers
    /\ mem'.flow = mem.flow
    /\ up' = Append(up, [type |-> "op", id |-> i, clock |-> mem'.clock])

\* The effect of sending one.
LEMMA EmitNamed ==
    ASSUME Shaped, NEW i \in DOMAIN mem.log, NEW st \in {"sent", "resent"}, Emit(i, st)
    PROVE  Emits(i, st)
<1>1. mem \in Mems(made) /\ mem.log \in Logs(made) /\ made \in Nat /\ mem.clock \in Clock
      BY DEF Shaped, MemTypeOK, Mems
<1>   DEFINE l == [mem.log EXCEPT ![i].st = st]
             c == <<mem.clock[1] + 1, mem.clock[2]>>
<1>2. l \in Logs(made) /\ Becomes(l, mem.log, i, st)
      BY <1>1, SetNamed
<1>3. c \in Clock
      BY <1>1 DEF Clock
<1>4. mem' = [mem EXCEPT !.clock = c, !.log = l]
      BY <1>1 DEF Emit, Mems
<1>5. up' = Append(up, [type |-> "op", id |-> i, clock |-> c])
      BY DEF Emit
<1>   HIDE DEF l, c
<1>6. mem' \in Mems(made) /\ mem'.log = l /\ mem'.clock = c
      BY <1>1, <1>2, <1>3, <1>4 DEF Mems
<1>7. /\ mem'.recorded = mem.recorded
      /\ mem'.known = mem.known /\ mem'.applied = mem.applied
      /\ mem'.handlers = mem.handlers
      /\ mem'.flow = mem.flow
      BY <1>1, <1>4 DEF Mems
<1>   QED
      BY <1>2, <1>5, <1>6, <1>7 DEF Emits, c

-----------------------------------------------------------------------------
\* What is known of the operations stays.
Keeps ==
    /\ mem'.log = mem.log /\ mem'.clock = mem.clock /\ mem'.recorded = mem.recorded
    /\ mem'.known = mem.known
\* The connect flow is where it was, as far as this device's operations go.
Dwells ==
    /\ mem'.flow.step = mem.flow.step /\ mem'.flow.asked = mem.flow.asked
    /\ mem'.flow.half = mem.flow.half /\ mem'.flow.settled = mem.flow.settled
    /\ mem'.flow.listing \in {"asked", "read"} => mem.flow.listing \in {"asked", "read"}
    /\ mem'.flow.rows = mem.flow.rows /\ mem'.flow.todo = mem.flow.todo
    /\ mem'.flow.own = mem.flow.own /\ mem'.flow.join = mem.flow.join
\* Nothing but the memory, and the first answer may be gone.
Inside ==
    /\ UNCHANGED <<file, project, up>> /\ mem' \in Mems(made')
    /\ down' = down \/ (down # <<>> /\ down' = Tail(down))
    /\ past'.ahead = past.ahead

\* The types of the memory and its log.
LEMMA MemNamed == Shaped => mem \in Mems(made) /\ made \in Nat /\ mem.log \in Logs(made)
BY DEF Shaped, MemTypeOK, Mems

\* The effect of sendOp: the operation goes out, or is queued again.
LEMMA SendNamed ==
    ASSUME Shaped, Send
    PROVE  /\ UNCHANGED <<at, file, project, down, made, past>>
           /\ \E i \in DOMAIN mem.log :
                 /\ mem.log[i].st = "writing" /\ i \in DOMAIN file.log
                 /\ \/ CanSendLive /\ Emits(i, "sent")
                    \/ /\ Inside /\ Dwells /\ Becomes(mem'.log, mem.log, i, "queued")
                       /\ mem'.clock = mem.clock /\ mem'.recorded = mem.recorded
                       /\ mem'.known = mem.known /\ mem'.applied = mem.applied
                       /\ mem'.handlers = mem.handlers
<1>1. PICK i \in Ids(mem, {"writing"}) :
         /\ i \in DOMAIN file.log
         /\ \/ CanSendLive /\ Emit(i, "sent")
            \/ mem' = [mem EXCEPT !.log[i].st = "queued"] /\ UNCHANGED up
      BY DEF Send
<1>2. /\ i \in DOMAIN mem.log /\ mem.log[i].st = "writing"
      /\ UNCHANGED <<at, file, project, down, made, past>>
      BY <1>1 DEF Ids, Send
<1>3. CASE CanSendLive /\ Emit(i, "sent")
      BY <1>1, <1>2, <1>3, EmitNamed
<1>4. CASE mem' = [mem EXCEPT !.log[i].st = "queued"] /\ UNCHANGED up
  <2>   DEFINE l == [mem.log EXCEPT ![i].st = "queued"]
  <2>1. l \in Logs(made) /\ Becomes(l, mem.log, i, "queued")
        BY <1>2, MemNamed, SetNamed
  <2>2. mem' = [mem EXCEPT !.log = l]
        BY <1>4, MemNamed DEF Mems
  <2>   HIDE DEF l
  <2>3. mem' \in Mems(made) /\ mem'.log = l
        BY <2>1, <2>2, MemNamed DEF Mems
  <2>4. /\ Dwells /\ mem'.clock = mem.clock /\ mem'.recorded = mem.recorded
        /\ mem'.known = mem.known /\ mem'.applied = mem.applied
        /\ mem'.handlers = mem.handlers
        BY <2>2, MemNamed DEF Mems, Dwells
  <2>   QED
        BY <1>1, <1>2, <1>4, <2>1, <2>3, <2>4 DEF Inside
<1>   QED
      BY <1>1, <1>3, <1>4

\* The answer is taken in, or is being recorded.
LEMMA AnsweredNamed ==
    ASSUME Shaped, RowsThere, Answered
    PROVE  /\ Inside /\ Dwells /\ mem'.applied = mem.applied /\ mem'.handlers = mem.handlers
           /\ down # <<>> /\ Head(down).type = "ack" /\ down' = Tail(down)
           /\ UNCHANGED <<at, made, past>>
           /\ \/ Settles(mem', Head(down).row)
              \/ \E i \in DOMAIN mem.log :
                    /\ mem.log[i].st = "sent" /\ i = project.journal[Head(down).row].id
                    /\ Becomes(mem'.log, mem.log, i, "answered")
                    /\ mem'.clock = mem.clock /\ mem'.recorded = mem.recorded
                    /\ mem'.known = mem.known
              \/ Keeps
<1>   DEFINE k == Head(down).row
             id == project.journal[k].id
<1>1. /\ down # <<>> /\ Head(down).type = "ack" /\ down' = Tail(down)
      /\ UNCHANGED <<at, file, project, up, made, past>>
      BY DEF Answered
<1>2. k \in DOMAIN project.journal
      BY <1>1 DEF RowsThere, Shaped
<1>3. \/ mem' = Settle(mem, k)
      \/ mem.log[id].st = "sent" /\ mem' = [mem EXCEPT !.log[id].st = "answered"]
      BY DEF Answered
<1>4. CASE mem' = Settle(mem, k)
  <2>1. Settles(mem', k)
        BY <1>2, <1>4, SettleNamed
  <2>   QED
        BY <1>1, <2>1 DEF Settles, Inside, Dwells
<1>5. CASE /\ mem.log[id].st = "sent" /\ mem' = [mem EXCEPT !.log[id].st = "answered"]
           /\ id \in DOMAIN mem.log
  <2>   DEFINE l == [mem.log EXCEPT ![id].st = "answered"]
  <2>1. l \in Logs(made) /\ Becomes(l, mem.log, id, "answered")
        BY <1>5, MemNamed, SetNamed
  <2>2. mem' = [mem EXCEPT !.log = l]
        BY <1>5, MemNamed DEF Mems
  <2>   HIDE DEF l
  <2>3. mem' \in Mems(made) /\ mem'.log = l
        BY <2>1, <2>2, MemNamed DEF Mems
  <2>4. /\ Dwells /\ mem'.clock = mem.clock /\ mem'.recorded = mem.recorded
        /\ mem'.known = mem.known /\ mem'.applied = mem.applied
        /\ mem'.handlers = mem.handlers
        BY <2>2, MemNamed DEF Mems, Dwells
  <2>   QED
        BY <1>1, <1>5, <2>1, <2>3, <2>4 DEF Inside
<1>6. CASE mem' = [mem EXCEPT !.log[id].st = "answered"] /\ id \notin DOMAIN mem.log
  <2>1. mem.log = [i \in DOMAIN mem.log |-> mem.log[i]]
        BY MemNamed, LogNamed
  <2>   DEFINE l == [mem.log EXCEPT ![id].st = "answered"]
  <2>2. l = mem.log
        BY <1>6, <2>1
  <2>3. mem' = [mem EXCEPT !.log = l]
        BY <1>6, MemNamed DEF Mems
  <2>   HIDE DEF l
  <2>4. mem' = mem
        BY <2>2, <2>3, MemNamed DEF Mems
  <2>   QED
        BY <1>1, <2>4, MemNamed DEF Inside, Dwells, Keeps
<1>   QED
      BY <1>3, <1>4, <1>5, <1>6

\* What was answered and recorded is settled.
LEMMA AnswerRecordedNamed ==
    ASSUME Shaped, AnswerRecorded,
           \A i \in DOMAIN mem.log : mem.log[i].st = "answered" => Landed(i)
    PROVE  /\ Inside /\ Dwells /\ UNCHANGED <<at, made, past, down>>
           /\ mem'.applied = mem.applied /\ mem'.handlers = mem.handlers
           /\ \E k \in DOMAIN project.journal : Settles(mem', k)
<1>1. PICK i \in Ids(mem, {"answered"}) : mem' = Settle(mem, RowOf(i))
      BY DEF AnswerRecorded
<1>2. Landed(i)
      BY <1>1 DEF Ids
<1>3. RowOf(i) \in DOMAIN project.journal
      BY <1>2, RowOfNamed
<1>4. Settles(mem', RowOf(i))
      BY <1>1, <1>3, SettleNamed
<1>   QED
      BY <1>3, <1>4 DEF AnswerRecorded, Settles, Inside, Dwells

\* A broadcast taken up leaves what is known of the operations as it was.
LEMMA RenamedNamed ==
    ASSUME Shaped, RowsThere, Renamed
    PROVE  /\ Inside /\ Dwells /\ Keeps /\ UNCHANGED <<at, made, past>>
           /\ down # <<>> /\ down' = Tail(down)
           /\ mem'.applied \subseteq DOMAIN project.journal
           /\ \A n \in DOMAIN mem'.handlers : mem'.handlers[n].row \in DOMAIN project.journal
<1>   DEFINE k == Head(down).row
<1>1. /\ down # <<>> /\ Head(down).type = "renamed" /\ down' = Tail(down)
      /\ UNCHANGED <<at, file, project, up, made, past>>
      BY DEF Renamed
<1>2. k \in DOMAIN project.journal /\ k \in Nat
      BY <1>1 DEF RowsThere, Shaped, ProjectTypeOK
<1>3. /\ mem \in Mems(made) /\ mem.count \in Nat /\ mem.handlers \in Handlers
      /\ mem.applied \subseteq Nat
      BY MemNamed DEF Mems
<1>4. CASE RenamePendingHere
  <2>   DEFINE a == mem.applied \cup {k}
  <2>1. mem' = [mem EXCEPT !.applied = a]
        BY <1>3, <1>4 DEF Renamed, Mems
  <2>2. a \subseteq DOMAIN project.journal /\ a \subseteq Nat
        BY <1>2, <1>3 DEF RowsThere
  <2>   HIDE DEF a
  <2>3. /\ mem' \in Mems(made) /\ mem'.applied = a /\ mem'.handlers = mem.handlers
        /\ Keeps /\ Dwells
        BY <1>3, <2>1, <2>2 DEF Mems, Keeps, Dwells
  <2>   QED
        BY <1>1, <2>2, <2>3 DEF Inside, RowsThere
<1>5. CASE ~RenamePendingHere
  <2>   DEFINE h == Append(mem.handlers, [row |-> k, count |-> mem.count])
  <2>1. mem' = [mem EXCEPT !.handlers = h]
        BY <1>3, <1>5 DEF Renamed, Mems
  <2>2. h \in Handlers
        BY <1>2, <1>3 DEF Handlers
  <2>3. \A n \in DOMAIN h : h[n].row \in DOMAIN project.journal
        BY <1>2, <1>3 DEF Handlers, RowsThere
  <2>   HIDE DEF h
  <2>4. /\ mem' \in Mems(made) /\ mem'.applied = mem.applied /\ mem'.handlers = h
        /\ Keeps /\ Dwells
        BY <1>3, <2>1, <2>2 DEF Mems, Keeps, Dwells
  <2>   QED
        BY <1>1, <2>3, <2>4 DEF Inside, RowsThere
<1>   QED
      BY <1>4, <1>5

\* So does a rename applied live.
LEMMA MoveLiveNamed ==
    ASSUME Shaped, RowsThere, MoveLive
    PROVE  /\ Inside /\ Dwells /\ Keeps /\ UNCHANGED <<made, down>> /\ at' \in FileName
           /\ past' \in Pasts /\ past'.mistaken = past.mistaken
           /\ mem'.applied \subseteq DOMAIN project.journal
           /\ \A n \in DOMAIN mem'.handlers : mem'.handlers[n].row \in DOMAIN project.journal
<1>   DEFINE h == Head(mem.handlers)
             moves == h.count = mem.count /\ project.journal[h.row].to # at
             a == mem.applied \cup {h.row}
             t == Tail(mem.handlers)
<1>1. /\ mem \in Mems(made) /\ mem.handlers \in Handlers /\ mem.handlers # <<>>
      /\ mem.applied \subseteq Nat
      BY MemNamed DEF Mems, MoveLive
<1>2. h.row \in DOMAIN project.journal /\ h.row \in Nat
      BY <1>1 DEF Handlers, RowsThere, Shaped, ProjectTypeOK
<1>3. at' \in FileName
  <2>1. project.journal[h.row] \in Rows
        BY <1>2 DEF Shaped, ProjectTypeOK
  <2>2. project.journal[h.row].to \in FileName
        BY <2>1 DEF Rows
  <2>3. at' \in {project.journal[h.row].to, at}
        BY DEF MoveLive
  <2>   QED
        BY <2>2, <2>3 DEF Shaped
<1>4. t \in Handlers /\ \A n \in DOMAIN t : t[n].row \in DOMAIN project.journal
      BY <1>1 DEF Handlers, RowsThere
<1>5. a \subseteq DOMAIN project.journal /\ a \subseteq Nat
      BY <1>1, <1>2 DEF RowsThere
<1>6. mem' = [mem EXCEPT !.handlers = t, !.applied = a]
      BY <1>1 DEF MoveLive, Mems
<1>7. past' \in Pasts /\ past'.mistaken = past.mistaken /\ past'.ahead = past.ahead
  <2>   DEFINE u == past.undone \/ (moves /\ Undoes(mem.log, h.row))
               o == past.outdated \/ (mem.flow.listing = "read" /\ mem.flow.read < h.row)
               l == past.live \cup {h.row}
  <2>1. u \in BOOLEAN /\ o \in BOOLEAN /\ l \in SUBSET Nat /\ past \in Pasts
        BY <1>2 DEF Shaped, Pasts
  <2>2. past' = [past EXCEPT !.undone = u, !.outdated = o, !.live = l]
        BY DEF MoveLive, Shaped, Pasts
  <2>   HIDE DEF u, o, l
  <2>   QED
        BY <2>1, <2>2 DEF Pasts
<1>8. UNCHANGED <<file, project, up, down, made>>
      BY DEF MoveLive
<1>   HIDE DEF a, t
<1>9. mem' \in Mems(made) /\ mem'.applied = a /\ mem'.handlers = t /\ Keeps /\ Dwells
      BY <1>1, <1>4, <1>5, <1>6 DEF Mems, Keeps, Dwells
<1>   QED
      BY <1>3, <1>4, <1>5, <1>7, <1>8, <1>9 DEF Inside

\* The connect flow at its start, with what there is to ask about.
LEMMA NoFlowTyped == NoFlow \in Flows
BY CatchUpAssumption DEF NoFlow, Flows
Starts(ids) ==
    /\ mem' \in Mems(made) /\ mem'.log = mem.log /\ mem'.clock = mem.clock
    /\ mem'.recorded = mem.recorded /\ mem'.known \subseteq mem.known
    /\ mem'.applied = mem.applied /\ mem'.handlers = mem.handlers
    /\ mem'.flow.step = (IF Ids(mem, {"queued"}) = {} THEN "settle" ELSE "ask")
    /\ mem'.flow.asked = Ids(mem, {"queued"}) /\ ~mem'.flow.half /\ ~mem'.flow.settled
    /\ mem'.flow.listing = "none" /\ mem'.flow.rows = {} /\ mem'.flow.todo = {}
    /\ mem'.flow.join = "none"
    /\ ids \subseteq mem'.known

\* The effect of onSocketConnect up to its first request.
LEMMA FlowStartsNamed ==
    ASSUME Shaped, NEW retry \in BOOLEAN, mem' = FlowStarts(mem, retry)
    PROVE  Starts(IF retry THEN mem.known ELSE {})
<1>   DEFINE asked == Ids(mem, {"queued"})
             step  == IF asked = {} THEN "settle" ELSE "ask"
             f     == [NoFlow EXCEPT !.step = step, !.asked = asked]
             known == IF retry THEN mem.known ELSE {}
<1>1. mem \in Mems(made) /\ mem.known \subseteq Nat
      BY MemNamed DEF Mems
<1>2. asked \in SUBSET Nat
      BY MemNamed, LogNamed DEF Ids
<1>3. f \in Flows
      BY <1>2, NoFlowTyped DEF Flows
<1>4. /\ f.step = step /\ f.asked = asked /\ ~f.half /\ ~f.settled /\ f.listing = "none"
      /\ f.rows = {} /\ f.todo = {} /\ f.join = "none"
      BY DEF NoFlow
<1>5. mem' = [mem EXCEPT !.known = known, !.flow = f]
      BY <1>1 DEF FlowStarts, Mems
<1>6. known \subseteq mem.known
      OBVIOUS
<1>   HIDE DEF f, known
<1>7. mem' \in Mems(made) /\ mem'.flow = f /\ mem'.known = known
      BY <1>1, <1>3, <1>5, <1>6 DEF Mems
<1>8. /\ mem'.log = mem.log /\ mem'.clock = mem.clock /\ mem'.recorded = mem.recorded
      /\ mem'.applied = mem.applied /\ mem'.handlers = mem.handlers
      BY <1>1, <1>5 DEF Mems
<1>   QED
      BY <1>4, <1>6, <1>7, <1>8 DEF Starts, known

\* The flow alone steps on.
FlowOnly ==
    /\ Inside /\ Keeps /\ UNCHANGED made
    /\ mem'.applied = mem.applied /\ mem'.handlers = mem.handlers

\* The effect of the answer of ops:status.
LEMMA StatusAnsweredNamed ==
    ASSUME Shaped, StatusAnswered
    PROVE  /\ FlowOnly /\ UNCHANGED <<at, past, down>> /\ mem.flow.step = "ask"
           /\ mem'.flow.step = "settle"
           /\ mem'.flow.asked = {i \in mem.flow.asked : Landed(i)}
           /\ mem'.flow.half = mem.flow.half /\ mem'.flow.settled = mem.flow.settled
           /\ mem'.flow.listing = mem.flow.listing /\ mem'.flow.rows = mem.flow.rows
           /\ mem'.flow.todo = mem.flow.todo /\ mem'.flow.join = mem.flow.join
<1>   DEFINE asked == {i \in mem.flow.asked : Landed(i)}
<1>1. mem \in Mems(made) /\ mem.flow \in Flows
      BY MemNamed DEF Mems
<1>2. asked \in SUBSET Nat
      BY <1>1 DEF Flows
<1>3. mem' = [mem EXCEPT !.flow = [mem.flow EXCEPT !.step = "settle", !.asked = asked]]
      BY <1>1 DEF StatusAnswered, Mems, Flows
<1>   HIDE DEF asked
<1>4. /\ mem' \in Mems(made)
      /\ mem'.flow = [mem.flow EXCEPT !.step = "settle", !.asked = asked]
      BY <1>1, <1>2, <1>3 DEF Mems, Flows
<1>5. Keeps /\ mem'.applied = mem.applied /\ mem'.handlers = mem.handlers
      BY <1>1, <1>3 DEF Mems, Keeps
<1>6. /\ mem'.flow.step = "settle" /\ mem'.flow.asked = asked
      /\ mem'.flow.half = mem.flow.half /\ mem'.flow.settled = mem.flow.settled
      /\ mem'.flow.listing = mem.flow.listing /\ mem'.flow.rows = mem.flow.rows
      /\ mem'.flow.todo = mem.flow.todo /\ mem'.flow.join = mem.flow.join
      BY <1>1, <1>4 DEF Flows
<1>   QED
      BY <1>4, <1>5, <1>6 DEF StatusAnswered, FlowOnly, Inside, asked

\* The flow but for what it asked about.
AsksOn ==
    /\ mem'.flow.step = mem.flow.step /\ mem'.flow.settled = mem.flow.settled
    /\ mem'.flow.listing = mem.flow.listing /\ mem'.flow.rows = mem.flow.rows
    /\ mem'.flow.todo = mem.flow.todo /\ mem'.flow.join = mem.flow.join
\* The counter of an operation that landed is taken in; its entry leaves, or stays for now.
TakesIn(id, k) ==
    /\ k \in DOMAIN project.journal /\ project.journal[k].id = id /\ id \in mem.flow.asked
    /\ Inside /\ AsksOn /\ UNCHANGED <<at, made, past, down>>
    /\ mem'.clock = <<Larger(mem.clock[1], project.journal[k].clock[1]), mem.clock[2]>>
    /\ mem'.recorded = mem'.clock /\ mem'.known = mem.known \cup {id}
    /\ mem'.applied = mem.applied /\ mem'.handlers = mem.handlers
    /\ \/ /\ mem'.log = Without(mem.log, {id}) /\ mem'.flow.asked = mem.flow.asked \ {id}
          /\ ~mem'.flow.half
       \/ mem'.log = mem.log /\ mem'.flow.asked = mem.flow.asked

\* The effect of settling the earliest operation that landed.
LEMMA SettleLandedNamed ==
    ASSUME Shaped, SettleLanded, \A i \in mem.flow.asked : Landed(i)
    PROVE  TakesIn(Earliest(mem.flow.asked), RowOf(Earliest(mem.flow.asked)))
<1>   DEFINE id == Earliest(mem.flow.asked)
             k  == RowOf(id)
             m  == Settle(mem, k)
             asked == mem.flow.asked \ {id}
             done  == [m EXCEPT !.flow = [m.flow EXCEPT !.asked = asked]]
             half  == [m EXCEPT !.log = mem.log,
                                !.flow = [m.flow EXCEPT !.asked = mem.flow.asked, !.half = TRUE]]
<1>1. /\ mem \in Mems(made) /\ mem.flow \in Flows /\ mem.flow.asked \subseteq Nat
      /\ mem.log \in Logs(made)
      BY MemNamed DEF Mems, Flows
<1>2. /\ mem.flow.step = "settle" /\ ~mem.flow.half
      /\ UNCHANGED <<at, file, project, up, down, made, past>>
      BY DEF SettleLanded
<1>3. id \in mem.flow.asked
      BY <1>1, LeastExists DEF SettleLanded
<1>4. k \in DOMAIN project.journal /\ project.journal[k].id = id
      BY <1>3, RowOfNamed
<1>5. Settles(m, k)
      BY <1>4, SettleNamed
<1>6. m.flow = mem.flow /\ m \in Mems(made)
      BY <1>5 DEF Settles
<1>7. mem' = done \/ mem' = half
  <2>1. done = [Settle(mem, RowOf(id)) EXCEPT !.flow.asked = @ \ {id}]
        BY <1>6 DEF Mems, Flows
  <2>2. half = [done EXCEPT !.log = mem.log, !.flow.asked = mem.flow.asked, !.flow.half = TRUE]
        BY <1>1, <1>6 DEF Mems, Flows
  <2>   HIDE DEF half, done
  <2>   QED
        BY <2>1, <2>2 DEF SettleLanded
<1>8. asked \in SUBSET Nat
      BY <1>1
<1>   HIDE DEF id, k, m, asked
<1>9. CASE mem' = done
  <2>1. mem' \in Mems(made) /\ mem'.flow = [mem.flow EXCEPT !.asked = asked]
        BY <1>1, <1>6, <1>8, <1>9 DEF Mems, Flows
  <2>2. /\ mem'.log = m.log /\ mem'.clock = m.clock /\ mem'.recorded = m.recorded
        /\ mem'.known = m.known /\ mem'.applied = m.applied /\ mem'.handlers = m.handlers
        BY <1>6, <1>9 DEF Mems
  <2>3. AsksOn /\ mem'.flow.asked = asked /\ ~mem'.flow.half
        BY <1>1, <1>2, <2>1 DEF Flows, AsksOn
  <2>4. mem'.log = Without(mem.log, {id})
        BY <1>4, <1>5, <2>2 DEF Settles
  <2>5. /\ mem'.clock = <<Larger(mem.clock[1], project.journal[k].clock[1]), mem.clock[2]>>
        /\ mem'.recorded = mem'.clock /\ mem'.known = mem.known \cup {id}
        /\ mem'.applied = mem.applied /\ mem'.handlers = mem.handlers
        BY <1>4, <1>5, <2>2 DEF Settles
  <2>   QED
        BY <1>2, <1>3, <1>4, <2>1, <2>3, <2>4, <2>5 DEF TakesIn, Inside, asked, id, k
<1>10. CASE mem' = half
  <2>1. /\ mem' \in Mems(made)
        /\ mem'.flow = [mem.flow EXCEPT !.asked = mem.flow.asked, !.half = TRUE]
        BY <1>1, <1>6, <1>10 DEF Mems, Flows
  <2>2. /\ mem'.log = mem.log /\ mem'.clock = m.clock /\ mem'.recorded = m.recorded
        /\ mem'.known = m.known /\ mem'.applied = m.applied /\ mem'.handlers = m.handlers
        BY <1>6, <1>10 DEF Mems
  <2>3. AsksOn /\ mem'.flow.asked = mem.flow.asked
        BY <1>1, <2>1 DEF Flows, AsksOn
  <2>4. /\ mem'.clock = <<Larger(mem.clock[1], project.journal[k].clock[1]), mem.clock[2]>>
        /\ mem'.recorded = mem'.clock /\ mem'.known = mem.known \cup {id}
        /\ mem'.applied = mem.applied /\ mem'.handlers = mem.handlers
        BY <1>4, <1>5, <2>2 DEF Settles
  <2>   QED
        BY <1>2, <1>3, <1>4, <2>1, <2>2, <2>3, <2>4 DEF TakesIn, Inside, id, k
<1>   QED
      BY <1>7, <1>9, <1>10 DEF id, k

\* An entry leaves that was taken in before.
Leaves(id) ==
    /\ Inside /\ AsksOn /\ UNCHANGED <<at, made, past, down>> /\ mem.flow.half
    /\ mem'.log = Without(mem.log, {id}) /\ mem'.flow.asked = mem.flow.asked \ {id}
    /\ ~mem'.flow.half
    /\ mem'.clock = mem.clock /\ mem'.recorded = mem.recorded /\ mem'.known = mem.known
    /\ mem'.applied = mem.applied /\ mem'.handlers = mem.handlers

\* The effect of its entry leaving the queue.
LEMMA LandedLeavesNamed ==
    ASSUME Shaped, LandedLeaves
    PROVE  Leaves(Earliest(mem.flow.asked))
<1>   DEFINE id == Earliest(mem.flow.asked)
             asked == mem.flow.asked \ {id}
             l == Without(mem.log, {id})
             f == [mem.flow EXCEPT !.half = FALSE, !.asked = asked]
<1>1. mem \in Mems(made) /\ mem.flow \in Flows /\ mem.log \in Logs(made) /\ made \in Nat
      BY MemNamed DEF Mems
<1>2. mem' = [mem EXCEPT !.flow = f, !.log = l]
      BY <1>1 DEF LandedLeaves, Mems, Flows
<1>3. l \in Logs(made)
      BY <1>1, WithoutNamed
<1>4. f \in Flows
      BY <1>1 DEF Flows
<1>5. /\ f.step = mem.flow.step /\ f.settled = mem.flow.settled
      /\ f.listing = mem.flow.listing
      /\ f.rows = mem.flow.rows /\ f.todo = mem.flow.todo /\ f.join = mem.flow.join
      /\ f.asked = asked /\ ~f.half
      BY <1>1 DEF Flows
<1>   HIDE DEF l, f
<1>6. mem' \in Mems(made) /\ mem'.flow = f /\ mem'.log = l
      BY <1>1, <1>2, <1>3, <1>4 DEF Mems
<1>7. /\ mem'.clock = mem.clock /\ mem'.recorded = mem.recorded /\ mem'.known = mem.known
      /\ mem'.applied = mem.applied /\ mem'.handlers = mem.handlers
      BY <1>1, <1>2 DEF Mems
<1>   QED
      BY <1>5, <1>6, <1>7 DEF LandedLeaves, Leaves, Inside, AsksOn, l

\* The join goes out.
Joins ==
    /\ UNCHANGED <<at, file, project, down, made, past>> /\ mem' \in Mems(made) /\ Keeps
    /\ mem'.applied = mem.applied /\ mem'.handlers = mem.handlers
    /\ mem.flow.step = "settle" /\ mem.flow.asked = {} /\ Saved
    /\ mem'.flow.step = "gather" /\ mem'.flow.asked = {} /\ mem'.flow.half = mem.flow.half
    /\ mem'.flow.rows = mem.flow.rows /\ mem'.flow.todo = mem.flow.todo
    /\ mem'.flow.join = mem.flow.join
    /\ up' = Append(up, [type |-> "join", clock |-> mem.clock])

\* The effect of sending the join.
LEMMA JoinNamed == ASSUME Shaped, Join PROVE Joins
<1>   DEFINE f == [mem.flow EXCEPT !.step = "gather", !.settled = TRUE, !.before = mem.applied,
                                   !.renames = mem.count, !.listing = "asked"]
<1>1. /\ mem \in Mems(made) /\ mem.flow \in Flows /\ mem.applied \subseteq Nat
      /\ mem.count \in Nat
      BY MemNamed DEF Mems
<1>2. mem' = [mem EXCEPT !.flow = f]
      BY <1>1 DEF Join, Mems, Flows
<1>3. f \in Flows
      BY <1>1 DEF Flows
<1>4. /\ f.step = "gather" /\ f.asked = mem.flow.asked /\ f.half = mem.flow.half
      /\ f.rows = mem.flow.rows /\ f.todo = mem.flow.todo /\ f.join = mem.flow.join
      BY <1>1 DEF Flows
<1>   HIDE DEF f
<1>5. /\ mem' \in Mems(made) /\ mem'.flow = f /\ Keeps
      /\ mem'.applied = mem.applied /\ mem'.handlers = mem.handlers
      BY <1>1, <1>2, <1>3 DEF Mems, Keeps
<1>   QED
      BY <1>4, <1>5 DEF Join, Joins

\* The effect of the listing being read.
LEMMA ListingReadNamed ==
    ASSUME Shaped, ListingRead
    PROVE  /\ FlowOnly /\ UNCHANGED <<at, down>>
           /\ past' \in Pasts /\ past'.mistaken = past.mistaken
           /\ mem.flow.listing = "asked" /\ mem'.flow.listing = "read"
           /\ mem'.flow.step = mem.flow.step /\ mem'.flow.asked = mem.flow.asked
           /\ mem'.flow.half = mem.flow.half /\ mem'.flow.settled = mem.flow.settled
           /\ mem'.flow.rows = mem.flow.rows /\ mem'.flow.todo = mem.flow.todo
           /\ mem'.flow.own = mem.flow.own /\ mem'.flow.join = mem.flow.join
<1>   DEFINE f == [mem.flow EXCEPT !.listing = "read", !.read = Len(project.journal), !.listed = project.at]
<1>1. mem \in Mems(made) /\ mem.flow \in Flows
      BY MemNamed DEF Mems
<1>2. mem' = [mem EXCEPT !.flow = f]
      BY <1>1 DEF ListingRead, Mems, Flows
<1>3. Len(project.journal) \in Nat /\ project.at \in FileName
      BY DEF Shaped, ProjectTypeOK
<1>4. f \in Flows
      BY <1>1, <1>3 DEF Flows
<1>5. /\ f.listing = "read" /\ f.step = mem.flow.step /\ f.asked = mem.flow.asked
      /\ f.half = mem.flow.half /\ f.settled = mem.flow.settled
      /\ f.rows = mem.flow.rows /\ f.todo = mem.flow.todo /\ f.own = mem.flow.own
      /\ f.join = mem.flow.join
      BY <1>1 DEF Flows
<1>   HIDE DEF f
<1>6. /\ mem' \in Mems(made) /\ mem'.flow = f /\ Keeps
      /\ mem'.applied = mem.applied /\ mem'.handlers = mem.handlers
      BY <1>1, <1>2, <1>4 DEF Mems, Keeps
<1>7. past' \in Pasts /\ past'.mistaken = past.mistaken /\ past'.ahead = past.ahead
      BY DEF ListingRead, Shaped, Pasts
<1>   QED
      BY <1>5, <1>6, <1>7 DEF ListingRead, FlowOnly, Inside

\* refreshFileIndex: queued renames may have left the log.
Refreshes ==
    /\ Inside /\ UNCHANGED <<made, down>> /\ at' \in FileName
    /\ past' \in Pasts /\ past'.mistaken = past.mistaken
    /\ mem.flow.listing = "read" /\ mem'.flow.listing = "done"
    /\ mem'.log = Collapsed(mem.log)
    /\ mem'.clock = mem.clock /\ mem'.recorded = mem.recorded /\ mem'.known = mem.known
    /\ mem'.applied = mem.applied /\ mem'.handlers = mem.handlers
    /\ mem'.flow.step = mem.flow.step /\ mem'.flow.asked = mem.flow.asked
    /\ mem'.flow.half = mem.flow.half /\ mem'.flow.settled = mem.flow.settled
    /\ mem'.flow.rows = mem.flow.rows /\ mem'.flow.todo = mem.flow.todo
    /\ mem'.flow.own = mem.flow.own /\ mem'.flow.join = mem.flow.join

\* The effect of refreshFileIndex.
LEMMA RefreshNamed == ASSUME Shaped, Refresh PROVE Refreshes
<1>   DEFINE l    == Collapsed(mem.log)
             here == \/ \E i \in DOMAIN l : l[i].kind = "rename" /\ l[i].st = "queued"
                     \/ mem.count # mem.flow.renames
             moves == ~here /\ mem.flow.listed # at
             f    == [mem.flow EXCEPT !.listing = "done", !.here = here]
<1>1. mem \in Mems(made) /\ mem.flow \in Flows /\ mem.log \in Logs(made) /\ made \in Nat
      BY MemNamed DEF Mems
<1>2. here \in BOOLEAN
      OBVIOUS
<1>3. mem' = [mem EXCEPT !.log = l, !.flow = f]
      BY <1>1 DEF Refresh, Mems, Flows
<1>4. l \in Logs(made)
      BY <1>1, CollapsedNamed
<1>5. at' \in FileName
      BY <1>1 DEF Refresh, Shaped, Flows
<1>6. past' \in Pasts /\ past'.mistaken = past.mistaken /\ past'.ahead = past.ahead
  <2>   DEFINE u == past.undone \/ (moves /\ Undoes(l, mem.flow.read))
               r == past.replayed /\ here
               o == \/ past.outdated
                    \/ /\ RenamePendingHere /\ Renames([log |-> l]) = {}
                       /\ \E j \in mem.applied : j > mem.flow.read
  <2>1. /\ u \in BOOLEAN /\ r \in BOOLEAN /\ o \in BOOLEAN /\ past \in Pasts
        /\ mem.count \in Nat
        BY <1>1 DEF Shaped, Pasts, Mems
  <2>2. past' = [past EXCEPT !.undone = u, !.replayed = r, !.count = mem.count, !.outdated = o]
        BY DEF Refresh, Shaped, Pasts
  <2>   HIDE DEF u, r, o
  <2>   QED
        BY <2>1, <2>2 DEF Pasts
<1>   HIDE DEF here, l
<1>7. f \in Flows
      BY <1>1, <1>2 DEF Flows
<1>8. /\ f.listing = "done" /\ f.step = mem.flow.step /\ f.asked = mem.flow.asked
      /\ f.half = mem.flow.half /\ f.settled = mem.flow.settled
      /\ f.rows = mem.flow.rows /\ f.todo = mem.flow.todo /\ f.own = mem.flow.own
      /\ f.join = mem.flow.join
      BY <1>1 DEF Flows
<1>   HIDE DEF f
<1>9. mem' \in Mems(made) /\ mem'.flow = f /\ mem'.log = l
      BY <1>1, <1>3, <1>4, <1>7 DEF Mems
<1>10. /\ mem'.clock = mem.clock /\ mem'.recorded = mem.recorded /\ mem'.known = mem.known
       /\ mem'.applied = mem.applied /\ mem'.handlers = mem.handlers
      BY <1>1, <1>3 DEF Mems
<1>   QED
      BY <1>5, <1>6, <1>8, <1>9, <1>10 DEF Refresh, Refreshes, Inside, l

\* The effect of the answer of a join.
LEMMA JoinAnsweredNamed ==
    ASSUME Shaped, JoinAnswered
    PROVE  /\ FlowOnly /\ UNCHANGED <<at, past>> /\ down # <<>> /\ down' = Tail(down)
           /\ mem'.flow.step = mem.flow.step /\ mem'.flow.asked = mem.flow.asked
           /\ mem'.flow.half = mem.flow.half /\ mem'.flow.settled = mem.flow.settled
           /\ mem'.flow.listing = mem.flow.listing /\ mem'.flow.own = mem.flow.own
           /\ \/ /\ Head(down).type = "joined" /\ mem'.flow.join = "joined"
                 /\ mem'.flow.rows = Head(down).rows /\ mem'.flow.todo = Head(down).rows
              \/ /\ Head(down).type = "refused" /\ mem'.flow.join = "refused"
                 /\ mem'.flow.rows = mem.flow.rows /\ mem'.flow.todo = mem.flow.todo
<1>1. mem \in Mems(made) /\ mem.flow \in Flows
      BY MemNamed DEF Mems
<1>2. /\ down # <<>> /\ Head(down).type \in {"joined", "refused"} /\ down' = Tail(down)
      /\ UNCHANGED <<at, file, project, up, made, past>> /\ Head(down) \in Answers
      BY DEF JoinAnswered, Shaped
<1>3. CASE Head(down).type = "refused"
  <2>   DEFINE f == [mem.flow EXCEPT !.join = "refused"]
  <2>1. mem' = [mem EXCEPT !.flow = f]
        BY <1>1, <1>3 DEF JoinAnswered, Mems
  <2>2. f \in Flows
        BY <1>1 DEF Flows
  <2>3. /\ f.step = mem.flow.step /\ f.asked = mem.flow.asked
        /\ f.listing = mem.flow.listing
        /\ f.half = mem.flow.half /\ f.settled = mem.flow.settled /\ f.join = "refused"
        /\ f.rows = mem.flow.rows /\ f.todo = mem.flow.todo /\ f.own = mem.flow.own
        BY <1>1 DEF Flows
  <2>   HIDE DEF f
  <2>4. /\ mem' \in Mems(made) /\ mem'.flow = f /\ Keeps
        /\ mem'.applied = mem.applied /\ mem'.handlers = mem.handlers
        BY <1>1, <2>1, <2>2 DEF Mems, Keeps
  <2>   QED
        BY <1>2, <1>3, <2>3, <2>4 DEF FlowOnly, Inside
<1>4. CASE Head(down).type = "joined"
  <2>   DEFINE f == [mem.flow EXCEPT !.join = "joined", !.rows = Head(down).rows,
                                     !.todo = Head(down).rows, !.whole = Head(down).whole]
  <2>1. mem' = [mem EXCEPT !.flow = f]
        BY <1>1, <1>4 DEF JoinAnswered, Mems
  <2>2. Head(down).rows \in SUBSET Nat /\ Head(down).whole \in BOOLEAN
        BY <1>2, <1>4 DEF Answers
  <2>3. f \in Flows
        BY <1>1, <2>2 DEF Flows
  <2>4. /\ f.step = mem.flow.step /\ f.asked = mem.flow.asked
        /\ f.listing = mem.flow.listing
        /\ f.half = mem.flow.half /\ f.settled = mem.flow.settled /\ f.join = "joined"
        /\ f.rows = Head(down).rows /\ f.todo = Head(down).rows /\ f.own = mem.flow.own
        BY <1>1 DEF Flows
  <2>   HIDE DEF f
  <2>5. /\ mem' \in Mems(made) /\ mem'.flow = f /\ Keeps
        /\ mem'.applied = mem.applied /\ mem'.handlers = mem.handlers
        BY <1>1, <2>1, <2>3 DEF Mems, Keeps
  <2>   QED
        BY <1>2, <1>4, <2>4, <2>5 DEF FlowOnly, Inside
<1>   QED
      BY <1>2, <1>3, <1>4

\* The effect of both being there: ownRows is taken, or the join is tried again later.
LEMMA GatherNamed ==
    ASSUME Shaped, RowsThere, Gather
    PROVE  /\ FlowOnly /\ UNCHANGED <<at, down>>
           /\ past' \in Pasts /\ past'.mistaken = past.mistaken
           /\ mem.flow.step = "gather" /\ mem.flow.listing = "done"
           /\ mem'.flow.listing = "done" /\ mem'.flow.asked = mem.flow.asked
           /\ mem'.flow.half = mem.flow.half /\ mem'.flow.join = mem.flow.join
           /\ mem'.flow.rows = mem.flow.rows /\ mem'.flow.todo = mem.flow.todo
           /\ \/ mem'.flow.step = "again" /\ ~mem'.flow.settled
              \/ mem'.flow.step = "rows" /\ mem'.flow.own = OwnRows
<1>1. mem \in Mems(made) /\ mem.flow \in Flows /\ mem.applied \subseteq Nat
      BY MemNamed DEF Mems
<1>2. past' \in Pasts /\ past'.mistaken = past.mistaken /\ past'.ahead = past.ahead
      BY DEF Gather, Shaped, Pasts
<1>3. CASE mem.flow.join = "refused"
  <2>   DEFINE f == [mem.flow EXCEPT !.step = "again", !.settled = FALSE]
  <2>1. mem' = [mem EXCEPT !.flow = f]
        BY <1>1, <1>3 DEF Gather, Mems
  <2>2. f \in Flows
        BY <1>1 DEF Flows
  <2>3. /\ f.step = "again" /\ f.asked = mem.flow.asked /\ f.listing = mem.flow.listing
        /\ f.half = mem.flow.half /\ ~f.settled /\ f.join = mem.flow.join
        /\ f.rows = mem.flow.rows /\ f.todo = mem.flow.todo
        BY <1>1 DEF Flows
  <2>   HIDE DEF f
  <2>4. /\ mem' \in Mems(made) /\ mem'.flow = f /\ Keeps
        /\ mem'.applied = mem.applied /\ mem'.handlers = mem.handlers
        BY <1>1, <2>1, <2>2 DEF Mems, Keeps
  <2>   QED
        BY <1>2, <2>3, <2>4 DEF Gather, FlowOnly, Inside
<1>4. CASE mem.flow.join # "refused"
  <2>   DEFINE f == [mem.flow EXCEPT !.step = "rows", !.own = OwnRows, !.had = mem.applied]
  <2>1. mem' = [mem EXCEPT !.flow = f]
        BY <1>1, <1>4 DEF Gather, Mems
  <2>2. OwnRows \in SUBSET Nat
        BY <1>1 DEF OwnRows, Flows
  <2>3. f \in Flows
        BY <1>1, <2>2 DEF Flows
  <2>4. /\ f.step = "rows" /\ f.asked = mem.flow.asked /\ f.listing = mem.flow.listing
        /\ f.half = mem.flow.half /\ f.own = OwnRows /\ f.join = mem.flow.join
        /\ f.rows = mem.flow.rows /\ f.todo = mem.flow.todo
        BY <1>1 DEF Flows
  <2>   HIDE DEF f
  <2>5. /\ mem' \in Mems(made) /\ mem'.flow = f /\ Keeps
        /\ mem'.applied = mem.applied /\ mem'.handlers = mem.handlers
        BY <1>1, <2>1, <2>3 DEF Mems, Keeps
  <2>   QED
        BY <1>2, <2>4, <2>5 DEF Gather, FlowOnly, Inside
<1>   QED
      BY <1>3, <1>4

\* A row of the catch-up is handled.
Applies(k) ==
    /\ k \in mem.flow.todo /\ k \in DOMAIN project.journal
    /\ Inside /\ UNCHANGED <<made, down>> /\ at' \in FileName /\ past' \in Pasts
    /\ past'.mistaken = past.mistaken \cup
          (IF project.journal[k].id # 0 /\ k \notin mem.flow.own THEN {project.journal[k].id} ELSE {})
    /\ mem.flow.step = "rows"
    /\ mem'.log = mem.log /\ mem'.clock = MergedClock(mem.clock, project.journal[k].clock)
    /\ mem'.recorded = mem.recorded /\ mem'.known = mem.known
    /\ mem'.applied = mem.applied /\ mem'.handlers = mem.handlers
    /\ mem'.flow.step = mem.flow.step /\ mem'.flow.asked = mem.flow.asked
    /\ mem'.flow.half = mem.flow.half /\ mem'.flow.settled = mem.flow.settled
    /\ mem'.flow.listing = mem.flow.listing /\ mem'.flow.rows = mem.flow.rows
    /\ mem'.flow.todo = mem.flow.todo \ {k}
    /\ mem'.flow.own = mem.flow.own /\ mem'.flow.join = mem.flow.join

\* The effect of a row of the catch-up.
LEMMA ApplyRowNamed ==
    ASSUME Shaped, RowsThere, ApplyRow
    PROVE  Applies(Earliest(mem.flow.todo))
<1>   DEFINE k == Earliest(mem.flow.todo)
             moves == k \notin mem.flow.own /\ ~Skipped(k)
             c == MergedClock(mem.clock, project.journal[k].clock)
             f == [mem.flow EXCEPT !.todo = mem.flow.todo \ {k}]
<1>1. /\ mem \in Mems(made) /\ mem.flow \in Flows /\ mem.clock \in Clock
      /\ mem.flow.todo \in SUBSET Nat
      BY MemNamed DEF Mems, Flows
<1>2. /\ mem.flow.step = "rows" /\ mem.flow.todo # {}
      /\ UNCHANGED <<file, project, up, down, made>>
      BY DEF ApplyRow
<1>3. k \in mem.flow.todo
      BY <1>1, <1>2, LeastExists
<1>4. k \in DOMAIN project.journal
      BY <1>3 DEF RowsThere
<1>5. project.journal[k] \in Rows
      BY <1>4 DEF Shaped, ProjectTypeOK
<1>6. c \in Clock
      BY <1>1, <1>5 DEF Clock, Rows, MergedClock, Larger
<1>7. mem' = [mem EXCEPT !.clock = c, !.flow = f]
      BY <1>1 DEF ApplyRow, Mems, Flows
<1>8. f \in Flows
      BY <1>1 DEF Flows
<1>9. /\ f.step = mem.flow.step /\ f.asked = mem.flow.asked
      /\ f.half = mem.flow.half /\ f.settled = mem.flow.settled
      /\ f.listing = mem.flow.listing /\ f.rows = mem.flow.rows
      /\ f.todo = mem.flow.todo \ {k} /\ f.own = mem.flow.own /\ f.join = mem.flow.join
      BY <1>1 DEF Flows
<1>10. at' \in FileName
  <2>1. at' \in {project.journal[k].to, at}
        BY DEF ApplyRow
  <2>   QED
        BY <1>5, <2>1 DEF Shaped, Rows
<1>   DEFINE mistaken == IF project.journal[k].id # 0 /\ k \notin mem.flow.own
                         THEN past.mistaken \cup {project.journal[k].id} ELSE past.mistaken
<1>11. past' \in Pasts /\ past'.mistaken = mistaken /\ past'.ahead = past.ahead
  <2>   DEFINE u == past.undone \/ (moves /\ ~Unguarded(k) /\ Undoes(mem.log, k))
               r == past.replayed \/ (moves /\ Unguarded(k))
  <2>1. u \in BOOLEAN /\ r \in BOOLEAN /\ past \in Pasts
        BY DEF Shaped, Pasts
  <2>2. mistaken \in SUBSET Nat
        BY <1>5, <2>1 DEF Pasts, Rows
  <2>3. past' = [past EXCEPT !.undone = u, !.replayed = r, !.mistaken = mistaken]
        BY <2>1 DEF ApplyRow, Pasts
  <2>   HIDE DEF u, r, mistaken
  <2>   QED
        BY <2>1, <2>2, <2>3 DEF Pasts
<1>   HIDE DEF c, f
<1>12. mem' \in Mems(made) /\ mem'.flow = f /\ mem'.clock = c
      BY <1>1, <1>6, <1>7, <1>8 DEF Mems
<1>13. /\ mem'.log = mem.log /\ mem'.recorded = mem.recorded /\ mem'.known = mem.known
       /\ mem'.applied = mem.applied /\ mem'.handlers = mem.handlers
      BY <1>1, <1>7 DEF Mems
<1>   HIDE DEF k
<1>   QED
      BY <1>2, <1>3, <1>4, <1>9, <1>10, <1>11, <1>12, <1>13 DEF Applies, Inside, c, k

\* The effect of the last of them.
LEMMA FlowEndsNamed ==
    ASSUME Shaped, RowsThere, FlowEnds
    PROVE  /\ Inside /\ UNCHANGED <<at, made, past, down>>
           /\ mem.flow.step = "rows" /\ mem.flow.todo = {}
           /\ mem'.log = mem.log /\ mem'.clock = mem.clock /\ mem'.recorded = mem.clock
           /\ mem'.known = mem.known /\ mem'.applied \subseteq mem.applied
           /\ mem'.handlers = mem.handlers
           /\ mem'.flow.step = "live" /\ mem'.flow.asked = mem.flow.asked
           /\ mem'.flow.half = mem.flow.half /\ mem'.flow.settled = mem.flow.settled
           /\ mem'.flow.listing = mem.flow.listing /\ mem'.flow.rows = mem.flow.rows
           /\ mem'.flow.todo = mem.flow.todo /\ mem'.flow.join = mem.flow.join
<1>   DEFINE f == [mem.flow EXCEPT !.step = "live"]
             a == mem.applied \ SeenNow
<1>1. /\ mem \in Mems(made) /\ mem.flow \in Flows /\ mem.clock \in Clock
      /\ mem.applied \subseteq Nat
      BY MemNamed DEF Mems
<1>2. mem' = [mem EXCEPT !.recorded = mem.clock, !.applied = a, !.flow = f]
      BY <1>1 DEF FlowEnds, PersistVectorClock, Mems, Flows
<1>3. f \in Flows
      BY <1>1 DEF Flows
<1>4. /\ f.step = "live" /\ f.asked = mem.flow.asked
      /\ f.half = mem.flow.half /\ f.settled = mem.flow.settled
      /\ f.listing = mem.flow.listing /\ f.rows = mem.flow.rows
      /\ f.todo = mem.flow.todo /\ f.join = mem.flow.join
      BY <1>1 DEF Flows
<1>5. a \subseteq mem.applied
      OBVIOUS
<1>   HIDE DEF f, a
<1>6. /\ mem' \in Mems(made) /\ mem'.flow = f /\ mem'.recorded = mem.clock
      /\ mem'.applied = a
      BY <1>1, <1>2, <1>3, <1>5 DEF Mems
<1>7. /\ mem'.log = mem.log /\ mem'.clock = mem.clock /\ mem'.known = mem.known
      /\ mem'.handlers = mem.handlers
      BY <1>1, <1>2 DEF Mems
<1>   QED
      BY <1>4, <1>5, <1>6, <1>7 DEF FlowEnds, Inside

\* The project's fields.
ProjectIs(name, journal, room, join) ==
    /\ ProjectTypeOK' /\ project'.at = name /\ project'.journal = journal
    /\ project'.room = room /\ project'.join = join

\* The fields of a project that was updated.
LEMMA ProjectNamed ==
    ASSUME Shaped, NEW name \in FileName, NEW journal \in Seq(Rows), NEW room \in BOOLEAN,
           NEW join \in Clock \cup {<<>>},
           project' = [project EXCEPT !.at = name, !.journal = journal, !.room = room, !.join = join]
    PROVE  ProjectIs(name, journal, room, join)
<1>1. project \in [at : FileName, journal : Seq(Rows), room : BOOLEAN, join : Clock \cup {<<>>}]
      BY DEF Shaped, ProjectTypeOK
<1>2. project' = [at |-> name, journal |-> journal, room |-> room, join |-> join]
      BY <1>1
<1>   QED
      BY <1>2 DEF ProjectIs, ProjectTypeOK

\* The connection goes: what was out is queued again.
Disconnects ==
    /\ up' = <<>> /\ down' = <<>> /\ project'.journal = project.journal
    /\ project'.at = project.at
    /\ ~project'.room /\ project'.join = <<>>

\* The effect on the socket and the server of a connection that goes.
LEMMA DisconnectNamed ==
    ASSUME Shaped, up' = <<>>, down' = <<>>,
           project' = [project EXCEPT !.room = FALSE, !.join = <<>>]
    PROVE  Disconnects /\ ProjectTypeOK' /\ up' \in Seq(Requests) /\ down' \in Seq(Answers)
<1>1. project \in [at : FileName, journal : Seq(Rows), room : BOOLEAN, join : Clock \cup {<<>>}]
      BY DEF Shaped, ProjectTypeOK
<1>2. Disconnects
      BY <1>1 DEF Disconnects
<1>3. project' \in [at : FileName, journal : Seq(Rows), room : BOOLEAN, join : Clock \cup {<<>>}]
      BY <1>1
<1>4. up' \in Seq(Requests) /\ down' \in Seq(Answers)
      OBVIOUS
<1>   QED
      BY <1>2, <1>3, <1>4 DEF ProjectTypeOK

DropsAll ==
    /\ UNCHANGED <<at, file, made, past>> /\ mem' \in Mems(made)
    /\ DOMAIN mem'.log = DOMAIN mem.log
    /\ \A i \in DOMAIN mem.log :
          \/ mem'.log[i] = mem.log[i] /\ mem.log[i].st \notin {"sent", "resent"}
          \/ mem'.log[i].st = "queued" /\ mem.log[i].st \in {"sent", "resent"}
    /\ mem'.clock = mem.clock /\ mem'.recorded = mem.recorded /\ mem'.known = mem.known
    /\ mem'.applied = mem.applied /\ mem'.handlers = mem.handlers /\ mem'.flow = NoFlow

\* The effect of a connection that goes, the program staying.
LEMMA DropsNamed ==
    ASSUME Shaped, Drops
    PROVE  /\ DropsAll /\ Disconnects /\ ProjectTypeOK' /\ up' \in Seq(Requests)
           /\ down' \in Seq(Answers)
<1>   DEFINE l == [i \in DOMAIN mem.log |-> IF mem.log[i].st \in {"sent", "resent"}
                                           THEN [mem.log[i] EXCEPT !.st = "queued"] ELSE mem.log[i]]
<1>1. mem \in Mems(made) /\ mem.log \in Logs(made) /\ made \in Nat
      BY MemNamed
<1>2. \A i \in DOMAIN mem.log : mem.log[i] \in QueuedOps
      BY <1>1, LogNamed
<1>3. \A i \in DOMAIN mem.log : l[i] \in QueuedOps
      BY <1>2 DEF QueuedOps
<1>4. DOMAIN l = DOMAIN mem.log /\ l = [i \in DOMAIN l |-> l[i]]
      OBVIOUS
<1>5. \A i \in DOMAIN mem.log :
         \/ l[i] = mem.log[i] /\ mem.log[i].st \notin {"sent", "resent"}
         \/ l[i].st = "queued" /\ mem.log[i].st \in {"sent", "resent"}
      BY <1>2 DEF QueuedOps
<1>6. mem' = [mem EXCEPT !.flow = NoFlow, !.log = l]
      BY <1>1 DEF Drops
<1>   HIDE DEF l
<1>7. DOMAIN mem.log \subseteq 1..made
      BY <1>1, LogNamed
<1>8. l \in Logs(made)
      BY <1>1, <1>3, <1>4, <1>7, LogNamed
<1>9. mem' \in Mems(made) /\ mem'.log = l /\ mem'.flow = NoFlow
      BY <1>1, <1>6, <1>8, NoFlowTyped DEF Mems
<1>10. /\ mem'.clock = mem.clock /\ mem'.recorded = mem.recorded /\ mem'.known = mem.known
       /\ mem'.applied = mem.applied /\ mem'.handlers = mem.handlers
      BY <1>1, <1>6 DEF Mems
<1>11. DropsAll
      BY <1>4, <1>5, <1>9, <1>10 DEF Drops, DropsAll
<1>   QED
      BY <1>11, DisconnectNamed DEF Drops

CrashesTo ==
    /\ UNCHANGED <<at, file, made>> /\ mem' \in Mems(made)
    /\ mem'.log = file.log /\ mem'.clock = file.clock /\ mem'.recorded = file.clock
    /\ mem'.known = {} /\ mem'.applied = file.applied /\ mem'.handlers = <<>>
    /\ mem'.flow = NoFlow
    /\ past' \in Pasts /\ past'.mistaken = past.mistaken
    /\ past'.ahead = past.ahead \cup
          {i \in DOMAIN file.log : Landed(i) /\ project.journal[RowOf(i)].clock[2] > file.clock[2]}

\* The effect of a crash and the start after it.
LEMMA CrashNamed ==
    ASSUME Shaped, Crash
    PROVE  /\ CrashesTo /\ Disconnects /\ ProjectTypeOK' /\ up' \in Seq(Requests)
           /\ down' \in Seq(Answers)
<1>   DEFINE new == {i \in DOMAIN file.log :
                       Landed(i) /\ project.journal[RowOf(i)].clock[2] > file.clock[2]}
<1>1. file \in Files(made) /\ file.log \in Logs(made) /\ made \in Nat /\ past \in Pasts
      BY DEF Shaped, FileTypeOK, Files
<1>2. mem' = [log |-> file.log, clock |-> file.clock, recorded |-> file.clock, applied |-> file.applied,
              known |-> {}, count |-> 0, handlers |-> <<>>, flow |-> NoFlow]
      BY DEF Crash, Started
<1>3. <<>> \in Handlers
      BY DEF Handlers
<1>4. mem' \in Mems(made)
      BY <1>1, <1>2, <1>3, NoFlowTyped DEF Mems, Files
<1>5. /\ mem'.log = file.log /\ mem'.clock = file.clock /\ mem'.recorded = file.clock
      /\ mem'.known = {} /\ mem'.applied = file.applied /\ mem'.handlers = <<>>
      /\ mem'.flow = NoFlow
      BY <1>2
<1>6. new \in SUBSET Nat /\ file.applied \in SUBSET Nat
  <2>1. DOMAIN file.log \subseteq 1..made
        BY <1>1, LogNamed
  <2>2. 1..made \subseteq Nat
        OBVIOUS
  <2>   QED
        BY <1>1, <2>1, <2>2 DEF Files
<1>7. past' = [past EXCEPT !.live = file.applied, !.ahead = past.ahead \cup new]
      BY <1>1 DEF Crash, Pasts
<1>   HIDE DEF new
<1>8. past' \in Pasts /\ past'.mistaken = past.mistaken /\ past'.ahead = past.ahead \cup new
      BY <1>1, <1>6, <1>7 DEF Pasts
<1>9. CrashesTo
      BY <1>4, <1>5, <1>8 DEF Crash, CrashesTo, new
<1>   QED
      BY <1>9, DisconnectNamed DEF Crash

-----------------------------------------------------------------------------
\* The server applies an operation, and answers it.
Lands(p) ==
    /\ up # <<>> /\ p = Head(up) /\ p.type = "op" /\ up' = Tail(up)
    /\ UNCHANGED <<at, mem, file, made, past>>
    /\ ProjectTypeOK' /\ down' \in Seq(Answers)
    /\ project'.room = project.room /\ project'.join = project.join
    /\ \E row \in Rows : /\ project'.journal = Append(project.journal, row) /\ row.id = p.id
                         /\ row.clock = <<p.clock[1] + 1, p.clock[2]>>
    /\ down' = Append(down, [type |-> "ack", row |-> Len(project.journal) + 1])

\* The effect of the server applying an operation.
LEMMA ServerAppliesNamed ==
    ASSUME Shaped, ServerApplies,
           Head(up).type = "op" => Head(up).id \in DOMAIN mem.log
    PROVE  Lands(Head(up))
<1>   DEFINE p == Head(up)
             op == mem.log[p.id]
             row == Row(p.id, op.kind, project.at, op.to, <<p.clock[1] + 1, p.clock[2]>>)
             j == Append(project.journal, row)
             name == IF op.kind = "rename" THEN op.to ELSE project.at
<1>1. /\ up # <<>> /\ p.type = "op" /\ up' = Tail(up)
      /\ UNCHANGED <<at, mem, file, made, past>>
      /\ project' = [project EXCEPT !.at = name, !.journal = j]
      /\ down' = Append(down, [type |-> "ack", row |-> Len(project.journal) + 1])
      BY DEF ServerApplies, Shaped, ProjectTypeOK
<1>2. /\ project \in [at : FileName, journal : Seq(Rows), room : BOOLEAN, join : Clock \cup {<<>>}]
      /\ up \in Seq(Requests) /\ down \in Seq(Answers)
      BY DEF Shaped, ProjectTypeOK
<1>3. p \in Requests
      BY <1>1, <1>2
<1>4. p.id \in Nat /\ p.clock \in Clock
      BY <1>1, <1>3 DEF Requests
<1>5. op \in QueuedOps
      BY <1>1, MemNamed, LogNamed
<1>6. row \in Rows /\ row.id = p.id /\ row.clock = <<p.clock[1] + 1, p.clock[2]>>
  <2>1. <<p.clock[1] + 1, p.clock[2]>> \in Clock
        BY <1>4 DEF Clock
  <2>   QED
        BY <1>2, <1>4, <1>5, <2>1 DEF Row, Rows, QueuedOps
<1>7. name \in FileName
      BY <1>2, <1>5 DEF QueuedOps
<1>   HIDE DEF row, op, name, p
<1>8. j \in Seq(Rows)
      BY <1>2, <1>6
<1>   HIDE DEF j
<1>9. project' = [project EXCEPT !.at = name, !.journal = j, !.room = project.room, !.join = project.join]
      BY <1>1, <1>2
<1>10. ProjectIs(name, j, project.room, project.join)
      BY <1>2, <1>7, <1>8, <1>9, ProjectNamed
<1>11. down' \in Seq(Answers)
  <2>1. [type |-> "ack", row |-> Len(project.journal) + 1] \in Answers
        BY <1>2 DEF Answers
  <2>   QED
        BY <1>1, <1>2, <2>1
<1>   QED
      BY <1>1, <1>6, <1>10, <1>11 DEF Lands, ProjectIs, p, j

\* The effect of the server taking a join in.
LEMMA ServerTakesInNamed ==
    ASSUME Shaped, ServerTakesIn
    PROVE  /\ up # <<>> /\ Head(up).type = "join" /\ up' = Tail(up)
           /\ UNCHANGED <<at, mem, file, down, made, past>>
           /\ ProjectTypeOK' /\ up' \in Seq(Requests)
           /\ project'.journal = project.journal /\ project'.join = Head(up).clock
<1>1. /\ project \in [at : FileName, journal : Seq(Rows), room : BOOLEAN, join : Clock \cup {<<>>}]
      /\ up \in Seq(Requests)
      BY DEF Shaped, ProjectTypeOK
<1>2. /\ up # <<>> /\ Head(up).type = "join" /\ up' = Tail(up)
      /\ UNCHANGED <<at, mem, file, down, made, past>>
      /\ project' = [project EXCEPT !.room = TRUE, !.join = Head(up).clock]
      BY DEF ServerTakesIn
<1>3. Head(up) \in Requests
      BY <1>1, <1>2
<1>4. Head(up).clock \in Clock
      BY <1>2, <1>3 DEF Requests
<1>5. project' = [project EXCEPT !.at = project.at, !.journal = project.journal, !.room = TRUE,
                                 !.join = Head(up).clock]
      BY <1>1, <1>2
<1>6. ProjectIs(project.at, project.journal, TRUE, Head(up).clock)
      BY <1>1, <1>4, <1>5, ProjectNamed
<1>   QED
      BY <1>1, <1>2, <1>6 DEF ProjectIs

\* Every row the clock has not seen, or some of them; or a refusal.
LEMMA ServerAnswersJoinNamed ==
    ASSUME Shaped, ServerAnswersJoin
    PROVE  /\ UNCHANGED <<at, mem, file, up, made, past>>
           /\ ProjectTypeOK' /\ down' \in Seq(Answers)
           /\ project.join # <<>> /\ project'.join = <<>>
           /\ project'.journal = project.journal
           /\ project'.room => project.room
           /\ \E d \in Answers : /\ down' = Append(down, d) /\ d.type \in {"joined", "refused"}
                                 /\ d.type = "joined" => d.rows \subseteq Unseen(project.join)
<1>1. /\ project \in [at : FileName, journal : Seq(Rows), room : BOOLEAN, join : Clock \cup {<<>>}]
      /\ down \in Seq(Answers)
      BY DEF Shaped, ProjectTypeOK
<1>2. UNCHANGED <<at, mem, file, up, made, past>> /\ project.join # <<>>
      BY DEF ServerAnswersJoin
<1>3. \A rows : rows \subseteq Unseen(project.join) =>
         [type |-> "joined", whole |-> rows = Unseen(project.join), rows |-> rows] \in Answers
  <2>1. Unseen(project.join) \subseteq Nat
        BY <1>1 DEF Unseen
  <2>   QED
        BY <2>1 DEF Answers
<1>4. \/ \E d \in Answers : /\ down' = Append(down, d) /\ d.type = "joined" /\ d.rows \subseteq Unseen(project.join)
                            /\ project' = [project EXCEPT !.join = <<>>]
      \/ /\ down' = Append(down, [type |-> "refused"])
         /\ project' = [project EXCEPT !.join = <<>>, !.room = FALSE]
  <2>1. CASE \E rows \in {Unseen(project.join), Newest(Unseen(project.join))} :
                down' = Append(down, [type |-> "joined", whole |-> rows = Unseen(project.join), rows |-> rows])
                /\ project' = [project EXCEPT !.join = <<>>]
    <3>1. PICK rows \in {Unseen(project.join), Newest(Unseen(project.join))} :
             /\ down' = Append(down, [type |-> "joined", whole |-> rows = Unseen(project.join), rows |-> rows])
             /\ project' = [project EXCEPT !.join = <<>>]
          BY <2>1
    <3>2. rows \subseteq Unseen(project.join)
          BY <3>1 DEF Newest
    <3>3. [type |-> "joined", whole |-> rows = Unseen(project.join), rows |-> rows] \in Answers
          BY <1>3, <3>2
    <3>   DEFINE d == [type |-> "joined", whole |-> rows = Unseen(project.join), rows |-> rows]
    <3>4. d \in Answers /\ d.type = "joined" /\ d.rows \subseteq Unseen(project.join)
          BY <3>2, <3>3
    <3>   HIDE DEF d
    <3>5. down' = Append(down, d)
          BY <3>1 DEF d
    <3>   QED
          BY <3>1, <3>4, <3>5
  <2>2. CASE /\ down' = Append(down, [type |-> "refused"])
             /\ project' = [project EXCEPT !.join = <<>>, !.room = FALSE]
        BY <2>2
  <2>   QED
        BY <2>1, <2>2 DEF ServerAnswersJoin
<1>5. CASE \E d \in Answers : /\ down' = Append(down, d) /\ d.type = "joined" /\ d.rows \subseteq Unseen(project.join)
                              /\ project' = [project EXCEPT !.join = <<>>]
      BY <1>1, <1>2, <1>5 DEF ProjectTypeOK
<1>6. CASE /\ down' = Append(down, [type |-> "refused"])
           /\ project' = [project EXCEPT !.join = <<>>, !.room = FALSE]
  <2>   DEFINE d == [type |-> "refused"]
  <2>1. d \in Answers /\ d.type = "refused"
        BY DEF Answers
  <2>2. project' = [project EXCEPT !.at = project.at, !.journal = project.journal, !.room = FALSE,
                                   !.join = <<>>]
        BY <1>1, <1>6
  <2>3. ProjectIs(project.at, project.journal, FALSE, <<>>)
        BY <1>1, <2>2, ProjectNamed
  <2>4. down' = Append(down, d)
        BY <1>6
  <2>   HIDE DEF d
  <2>5. down' \in Seq(Answers)
        BY <1>1, <2>1, <2>4
  <2>   QED
        BY <1>2, <2>1, <2>3, <2>4, <2>5 DEF ProjectIs
<1>   QED
      BY <1>4, <1>5, <1>6

\* The effect of a teammate's rename.
LEMMA TeammateRenamesNamed ==
    ASSUME Shaped, TeammateRenames
    PROVE  /\ UNCHANGED <<at, mem, file, up, made, past>>
           /\ ProjectTypeOK' /\ down' \in Seq(Answers)
           /\ project'.join = project.join /\ project'.room = project.room
           /\ \E row \in Rows : project'.journal = Append(project.journal, row) /\ row.id = 0
           /\ \/ down' = down
              \/ project.room /\ down' = Append(down, [type |-> "renamed", row |-> Len(project.journal) + 1])
<1>1. /\ project \in [at : FileName, journal : Seq(Rows), room : BOOLEAN, join : Clock \cup {<<>>}]
      /\ down \in Seq(Answers)
      BY DEF Shaped, ProjectTypeOK
<1>   DEFINE seq == 1 + Cardinality({k \in DOMAIN project.journal : project.journal[k].id = 0})
<1>2. UNCHANGED <<at, mem, file, up, made, past>>
      BY DEF TeammateRenames
<1>3. PICK n \in FileName, h \in {0} \cup {project.journal[k].clock[1] : k \in DOMAIN project.journal} :
         project' = [project EXCEPT !.at = n,
                        !.journal = Append(project.journal, Row(0, "rename", project.at, n, <<h, seq>>))]
      BY <1>1 DEF TeammateRenames
<1>4. h \in Nat
  <2>1. \A k \in DOMAIN project.journal : project.journal[k].clock[1] \in Nat
    <3>1. \A k \in DOMAIN project.journal : project.journal[k] \in Rows
          BY <1>1
    <3>   QED
          BY <3>1 DEF Rows, Clock
  <2>   QED
        BY <2>1
<1>5. seq \in Nat
  <2>   DEFINE S == {k \in DOMAIN project.journal : project.journal[k].id = 0}
  <2>1. IsFiniteSet(DOMAIN project.journal)
        BY <1>1, FS_Interval
  <2>2. IsFiniteSet(S)
        BY <2>1, FS_Subset
  <2>   QED
        BY <2>2, FS_CardinalityType
<1>   HIDE DEF seq
<1>   DEFINE row == Row(0, "rename", project.at, n, <<h, seq>>)
<1>6. row \in Rows /\ row.id = 0
      BY <1>1, <1>4, <1>5 DEF Row, Rows, Clock
<1>   HIDE DEF row
<1>7. project' = [project EXCEPT !.at = n, !.journal = Append(project.journal, row),
                                 !.room = project.room, !.join = project.join]
      BY <1>1, <1>3 DEF row
<1>8. ProjectIs(n, Append(project.journal, row), project.room, project.join)
  <2>1. Append(project.journal, row) \in Seq(Rows)
        BY <1>1, <1>6
  <2>   QED
        BY <1>1, <1>7, <2>1, ProjectNamed
<1>9. [type |-> "renamed", row |-> Len(project.journal) + 1] \in Answers
      BY <1>1 DEF Answers
<1>10. \/ down' = down
       \/ project.room /\ down' = Append(down, [type |-> "renamed", row |-> Len(project.journal) + 1])
      BY DEF TeammateRenames
<1>11. down' \in Seq(Answers)
      BY <1>1, <1>9, <1>10
<1>   QED
      BY <1>2, <1>6, <1>8, <1>10, <1>11 DEF ProjectIs

-----------------------------------------------------------------------------
\* No clock goes back; an operation with a row leaves the log only when it is known; those
\* newly known are within the recorded clock.
Remembers ==
    /\ \A n \in {1, 2} : /\ mem.recorded[n] <= mem'.recorded[n] /\ mem'.recorded[n] <= mem'.clock[n]
                         /\ mem.clock[n] <= mem'.clock[n]
    /\ \A i \in DOMAIN mem.log : Landed(i) => i \in DOMAIN mem'.log \/ i \in mem'.known
    /\ \A i \in DOMAIN mem.log : ~Landed(i) /\ mem.log[i].st \in {"sent", "resent"} =>
          i \in DOMAIN mem'.log /\ mem'.log[i].st \in {"sent", "resent"}
    /\ \A k \in Own : project.journal[k].id \in mem'.known /\ project.journal[k].id \notin mem.known =>
          Within(k, mem'.recorded)

\* The counters are numbers.
LEMMA ClockNamed ==
    ASSUME Shaped
    PROVE  /\ \A k \in DOMAIN project.journal : /\ project.journal[k] \in Rows /\ project.journal[k].id \in Nat
                 /\ project.journal[k].clock[1] \in Nat
                 /\ project.journal[k].clock[2] \in Nat
           /\ mem.clock[1] \in Nat /\ mem.clock[2] \in Nat /\ mem.recorded[1] \in Nat
           /\ mem.recorded[2] \in Nat
           /\ file.clock[1] \in Nat /\ file.clock[2] \in Nat
<1>1. \A k \in DOMAIN project.journal : project.journal[k] \in Rows
      BY DEF Shaped, ProjectTypeOK
<1>2. mem.clock \in Clock /\ mem.recorded \in Clock /\ file.clock \in Clock
      BY DEF Shaped, MemTypeOK, Mems, FileTypeOK, Files
<1>   QED
      BY <1>1, <1>2 DEF Rows, Clock

\* What holds of the packets, the clocks and the record does after a step that
\* remembers.
LEMMA InsideStays ==
    ASSUME CInv, Inside, Remembers, Shaped'
    PROVE  Once' /\ Carried' /\ Clocks' /\ Recorded'
<1>1. /\ project' = project /\ up' = up /\ file' = file /\ past'.ahead = past.ahead
      /\ Own' = Own /\ Sent' = Sent /\ \A i : Landed(i)' <=> Landed(i)
      BY DEF Inside, Own, Sent, Landed
<1>2. Once'
      BY <1>1 DEF CInv, Once
<1>3. /\ mem'.clock[1] \in Nat /\ mem'.clock[2] \in Nat /\ mem'.recorded[1] \in Nat
      /\ mem'.recorded[2] \in Nat
  <2>1. mem'.clock \in Clock /\ mem'.recorded \in Clock
        BY DEF Shaped, MemTypeOK, Mems
  <2>   QED
        BY <2>1 DEF Clock
<1>4. Carried'
  <2>   SUFFICES ASSUME NEW n \in Sent'
                 PROVE  /\ up'[n].id \in DOMAIN mem'.log /\ up'[n].id \in DOMAIN file'.log
                        /\ ~Landed(up[n].id)'
                        /\ mem'.log[up'[n].id].st \in {"sent", "resent"}
                        /\ up'[n].clock[2] <= mem'.clock[2]
        BY DEF Carried
  <2>1. n \in Sent /\ n \in DOMAIN up
        BY <1>1 DEF Sent
  <2>2. /\ up[n].id \in DOMAIN mem.log /\ up[n].id \in DOMAIN file.log /\ ~Landed(up[n].id)
        /\ mem.log[up[n].id].st \in {"sent", "resent"} /\ up[n].clock[2] <= mem.clock[2]
        BY <2>1 DEF CInv, Carried
  <2>3. up[n].clock[2] \in Nat
    <3>1. up[n] \in Requests
          BY <2>1 DEF CInv, Shaped
    <3>   QED
          BY <3>1 DEF Requests, Clock
  <2>4. mem.clock[2] <= mem'.clock[2] /\ mem.clock[2] \in Nat
        BY ClockNamed DEF CInv, Remembers
  <2>5. up[n].clock[2] <= mem'.clock[2]
        BY <1>3, <2>2, <2>3, <2>4
  <2>   QED
        BY <1>1, <2>2, <2>5 DEF Remembers
<1>5. Clocks'
  <2>1. \A n \in {1, 2} : file.clock[n] <= mem'.recorded[n]
        BY <1>3, ClockNamed DEF CInv, Clocks, Remembers
  <2>2. \A k \in Own : project.journal[k].clock[2] <= mem'.clock[2] \/ project.journal[k].id \in past.ahead
        BY <1>3, ClockNamed DEF CInv, Clocks, Remembers, Own
  <2>   QED
        BY <1>1, <2>1, <2>2 DEF Clocks, Remembers
<1>6. Recorded'
  <2>   SUFFICES ASSUME NEW k \in Own
                 PROVE  /\ project.journal[k].id \notin DOMAIN mem'.log \/ project.journal[k].id \in mem'.known =>
                              Within(k, mem'.recorded)
                        /\ project.journal[k].id \notin DOMAIN file.log => Within(k, file.clock)
        BY <1>1 DEF Recorded, Within
  <2>1. Landed(project.journal[k].id)
        BY DEF Own, Landed
  <2>2. Within(k, mem.recorded) => Within(k, mem'.recorded)
        BY <1>3, ClockNamed DEF CInv, Within, Remembers, Own
  <2>3. project.journal[k].id \notin DOMAIN mem'.log =>
           project.journal[k].id \notin DOMAIN mem.log \/ project.journal[k].id \in mem'.known
        BY <2>1 DEF Remembers
  <2>4. project.journal[k].id \in mem'.known => Within(k, mem'.recorded)
        BY <2>2 DEF CInv, Recorded, Remembers
  <2>   QED
        BY <2>2, <2>3, <2>4 DEF CInv, Recorded
<1>   QED
      BY <1>2, <1>4, <1>5, <1>6

\* What was recognised is, as long as nothing known is forgotten.
LEMMA JoiningStays ==
    ASSUME CInv, Inside, Remembers, mem.known \subseteq mem'.known,
           mem'.flow.rows = mem.flow.rows
    PROVE  Joining'
<1>1. /\ project' = project /\ up' = up /\ past'.ahead = past.ahead /\ Own' = Own
      BY DEF Inside, Own
<1>2. \A k \in Own : Recognised(project.journal[k].id) => Recognised(project.journal[k].id)'
  <2>1. \A k \in Own : Landed(project.journal[k].id)
        BY DEF Own, Landed
  <2>   QED
        BY <1>1, <2>1 DEF Recognised, Remembers
<1>3. \A n \in DOMAIN down' : \E m \in DOMAIN down : down'[n] = down[m]
  <2>1. down \in Seq(Answers)
        BY DEF CInv, Shaped
  <2>2. CASE down' = down
        BY <2>2
  <2>3. CASE down # <<>> /\ down' = Tail(down)
        BY <2>1, <2>3
  <2>   QED
        BY <2>2, <2>3 DEF Inside
<1>4. \A n \in DOMAIN down' : down'[n].type = "joined" =>
         \A k \in down'[n].rows : k \in Own => Recognised(project.journal[k].id)'
      BY <1>2, <1>3 DEF CInv, Joining, Returns
<1>5. \A n \in DOMAIN up : up[n].type = "join" =>
         \A k \in Own : \/ Recognised(project.journal[k].id)'
                        \/ \A c \in {1, 2} : project.journal[k].clock[c] <= up[n].clock[c]
      BY <1>2 DEF CInv, Joining, UpTo
<1>6. project.join # <<>> =>
         \A k \in Own : \/ Recognised(project.journal[k].id)'
                        \/ \A c \in {1, 2} : project.journal[k].clock[c] <= project.join[c]
      BY <1>2 DEF CInv, Joining, UpTo
<1>7. \A k \in mem.flow.rows : k \in Own => Recognised(project.journal[k].id)'
      BY <1>2 DEF CInv, Joining, Returns
<1>   QED
      BY <1>1, <1>4, <1>5, <1>6, <1>7 DEF Joining, Returns, UpTo

\* No operation with a row is queued or written again; what is being recorded has one.
LogSteps ==
    \A i \in DOMAIN mem'.log :
        /\ mem'.log[i].st = "writing" => ~Landed(i)
        /\ mem'.log[i].st = "queued" /\ Landed(i) => i \in DOMAIN mem.log /\ mem.log[i].st = "queued"
        /\ mem'.log[i].st = "answered" => Landed(i)

\* What depends on where the flow is holds when the flow stays there.
LEMMA DwellsStay ==
    ASSUME CInv, Inside, Dwells, LogSteps, mem.known \subseteq mem'.known
    PROVE  Unsent' /\ Disconnected' /\ Stages' /\ Shown'
<1>1. /\ project' = project /\ up' = up /\ past'.ahead = past.ahead /\ Own' = Own
      /\ \A i : Landed(i)' <=> Landed(i)
      BY DEF Inside, Own, Landed
<1>2. Unsent'
      BY <1>1 DEF CInv, Unsent, Dwells, LogSteps
<1>3. Disconnected'
      BY <1>1 DEF CInv, Disconnected, Dwells, Inside
<1>4. Stages'
      BY <1>1 DEF CInv, Stages, Dwells
<1>5. Shown'
      BY <1>1 DEF CInv, Shown, Dwells
<1>   QED
      BY <1>2, <1>3, <1>4, <1>5

\* Types, after a step inside.
LEMMA InsideShaped ==
    ASSUME Shaped, Inside, at' \in FileName, past' \in Pasts, made' \in Nat, made <= made'
    PROVE  Shaped'
<1>1. FileTypeOK'
      BY LogsGrow DEF Shaped, FileTypeOK, Inside
<1>2. down' \in Seq(Answers)
  <2>1. down \in Seq(Answers)
        BY DEF Shaped
  <2>2. CASE down' = down
        BY <2>1, <2>2
  <2>3. CASE down # <<>> /\ down' = Tail(down)
        BY <2>1, <2>3
  <2>   QED
        BY <2>2, <2>3 DEF Inside
<1>   QED
      BY <1>1, <1>2 DEF Shaped, Inside, MemTypeOK, ProjectTypeOK

\* Rows referred to, after a step inside.
LEMMA InsideRows ==
    ASSUME CInv, Inside, made' \in Nat, made <= made',
           mem'.applied \subseteq DOMAIN project.journal,
           \A n \in DOMAIN mem'.handlers : mem'.handlers[n].row \in DOMAIN project.journal,
           mem'.flow.rows \subseteq DOMAIN project.journal, mem'.flow.todo \subseteq mem'.flow.rows,
           mem'.flow.rows # {} => mem'.flow.join = "joined", mem'.flow.asked \subseteq 1..made'
    PROVE  RowsThere'
<1>1. project' = project /\ up' = up /\ file' = file /\ made \in Nat /\ RowsThere
      BY DEF Inside, CInv, Shaped
<1>2. \A n \in DOMAIN down' : \E m \in DOMAIN down : down'[n] = down[m]
  <2>1. down \in Seq(Answers)
        BY DEF CInv, Shaped
  <2>2. CASE down' = down
        BY <2>2
  <2>3. CASE down # <<>> /\ down' = Tail(down)
        BY <2>1, <2>3
  <2>   QED
        BY <2>2, <2>3 DEF Inside
<1>3. \A k \in DOMAIN project.journal : project.journal[k].id <= made'
  <2>1. \A k \in DOMAIN project.journal : project.journal[k].id \in Nat /\ project.journal[k].id <= made
        BY ClockNamed DEF CInv, RowsThere
  <2>   QED
        BY <1>1, <2>1
<1>4. \A n \in DOMAIN up : up[n].type = "op" => up[n].id \in 1..made'
      BY <1>1 DEF RowsThere
<1>   QED
      BY <1>1, <1>2, <1>3, <1>4 DEF RowsThere

\* The counter of row k is taken in and recorded, its operation known.
Counts(k) ==
    /\ mem'.clock = <<Larger(mem.clock[1], project.journal[k].clock[1]), mem.clock[2]>>
    /\ mem'.recorded = mem'.clock /\ mem'.known = mem.known \cup {project.journal[k].id}
    /\ mem'.log = Without(mem.log, {project.journal[k].id}) \/ mem'.log = mem.log

\* Taking in a counter forgets nothing.
LEMMA CountsRemembers ==
    ASSUME CInv, NEW k \in DOMAIN project.journal, Counts(k)
    PROVE  Remembers /\ LogSteps /\ mem.known \subseteq mem'.known
<1>   DEFINE id == project.journal[k].id
             c  == Larger(mem.clock[1], project.journal[k].clock[1])
<1>1. Landed(id)
      BY DEF Landed
<1>2. /\ c \in Nat /\ mem.clock[1] <= c /\ project.journal[k].clock[1] <= c
      /\ mem.clock[2] \in Nat /\ mem.recorded[1] \in Nat /\ mem.recorded[2] \in Nat
      /\ mem.clock[1] \in Nat
      BY ClockNamed DEF Larger, CInv
<1>3. /\ mem'.clock = <<c, mem.clock[2]>> /\ mem'.recorded = <<c, mem.clock[2]>>
      /\ mem'.known = mem.known \cup {id}
      BY DEF Counts
<1>4. /\ DOMAIN mem.log \ {id} \subseteq DOMAIN mem'.log
      /\ DOMAIN mem'.log \subseteq DOMAIN mem.log
      /\ \A i \in DOMAIN mem'.log : mem'.log[i] = mem.log[i]
  <2>1. /\ DOMAIN Without(mem.log, {id}) = DOMAIN mem.log \ {id}
        /\ \A i \in DOMAIN mem.log \ {id} : Without(mem.log, {id})[i] = mem.log[i]
        BY DEF Without
  <2>   QED
        BY <2>1 DEF Counts
<1>   HIDE DEF id, c
<1>5. \A n \in {1, 2} : /\ mem.recorded[n] <= mem'.recorded[n] /\ mem'.recorded[n] <= mem'.clock[n]
                        /\ mem.clock[n] <= mem'.clock[n]
      BY <1>2, <1>3 DEF CInv, Clocks
<1>6. \A j \in Own : project.journal[j].id = id => Within(j, mem'.recorded)
  <2>   SUFFICES ASSUME NEW j \in Own, project.journal[j].id = id
                 PROVE  Within(j, mem'.recorded)
        OBVIOUS
  <2>1. j = k
        BY DEF Own, CInv, Once, id
  <2>2. project.journal[k].clock[2] <= mem.clock[2] \/ project.journal[k].id \in past.ahead
        BY <2>1 DEF CInv, Clocks
  <2>   QED
        BY <1>2, <1>3, <2>1, <2>2 DEF Within
<1>7. Remembers
      BY <1>1, <1>3, <1>4, <1>5, <1>6 DEF Remembers
<1>8. LogSteps
      BY <1>4 DEF LogSteps, CInv, Unsent
<1>   QED
      BY <1>3, <1>7, <1>8

-----------------------------------------------------------------------------
\* A step inside that leaves the flow where it is.
LEMMA DwellingKeeps ==
    ASSUME CInv, Inside, Dwells, Remembers, LogSteps, mem.known \subseteq mem'.known,
           at' \in FileName, past' \in Pasts, past'.mistaken = past.mistaken,
           made' \in Nat, made <= made', mem'.applied \subseteq DOMAIN project.journal,
           \A n \in DOMAIN mem'.handlers : mem'.handlers[n].row \in DOMAIN project.journal
    PROVE  CInv'
<1>1. Shaped'
      BY InsideShaped DEF CInv
<1>2. RowsThere'
  <2>1. mem.flow.asked \subseteq 1..made'
        BY DEF CInv, RowsThere, Shaped
  <2>   QED
        BY <2>1, InsideRows DEF CInv, RowsThere, Dwells
<1>3. Once' /\ Carried' /\ Clocks' /\ Recorded'
      BY <1>1, InsideStays
<1>4. Unsent' /\ Disconnected' /\ Stages' /\ Shown'
      BY DwellsStay
<1>5. Joining'
      BY JoiningStays DEF Dwells
<1>6. OwnNotTaken'
      BY DEF CInv, OwnNotTaken, Inside
<1>   QED
      BY <1>1, <1>2, <1>3, <1>4, <1>5, <1>6 DEF CInv

\* Nothing of the operations changes.
LEMMA KeepsRemembers ==
    ASSUME CInv, Keeps
    PROVE  Remembers /\ LogSteps /\ mem.known \subseteq mem'.known
<1>1. \A n \in {1, 2} : mem.recorded[n] <= mem.recorded[n] /\ mem.clock[n] <= mem.clock[n]
      BY ClockNamed DEF CInv
<1>2. Remembers
      BY <1>1 DEF CInv, Clocks, Keeps, Remembers
<1>   QED
      BY <1>2 DEF CInv, Unsent, Keeps, LogSteps

\* What can be said live has no row while it is queued.
LEMMA QueuedHasNoRow ==
    ASSUME CInv, mem.flow.step \notin {"off", "ask", "settle"}
    PROVE  \A i \in Ids(mem, {"queued"}) : ~Landed(i)
BY DEF CInv, Unsent, Ids

\* Recording an operation, and superseding queued moves, keeps the invariant.
LEMMA RecordKeeps ==
    ASSUME CInv, NEW kind, NEW drops, Records(kind, drops),
           drops \subseteq Ids(mem, {"queued"}),
           at' \in FileName, past' = past
    PROVE  CInv'
<1>1. \A i \in DOMAIN mem.log \ DOMAIN mem'.log : ~Landed(i) /\ mem.log[i].st = "queued"
  <2>1. CanSendLive => mem.flow.step \notin {"off", "ask", "settle"}
        BY DEF CanSendLive, CInv, Stages
  <2>   QED
        BY <2>1, QueuedHasNoRow DEF Records, Ids
<1>2. ~Landed(made + 1)
      BY ClockNamed DEF CInv, RowsThere, Shaped, Landed
<1>3. made' \in Nat /\ made <= made'
      BY DEF CInv, Shaped, Records
<1>4. Inside /\ Dwells /\ mem'.known = mem.known
      BY <1>3 DEF Records, Inside, Dwells
<1>5. Remembers
  <2>1. \A n \in {1, 2} : mem.recorded[n] <= mem.recorded[n] /\ mem.clock[n] <= mem.clock[n]
        BY ClockNamed DEF CInv
  <2>2. made + 1 \notin DOMAIN mem.log
    <3>1. mem.log \in Logs(made) /\ made \in Nat
          BY MemNamed DEF CInv
    <3>   QED
          BY <3>1, LogNamed
  <2>   QED
        BY <1>1, <2>1, <2>2 DEF CInv, Clocks, Records, Remembers
<1>6. LogSteps
      BY <1>2 DEF Records, LogSteps, CInv, Unsent
<1>7. /\ mem'.applied \subseteq DOMAIN project.journal /\ past' \in Pasts
      /\ \A n \in DOMAIN mem'.handlers : mem'.handlers[n].row \in DOMAIN project.journal
      BY DEF Records, CInv, RowsThere, Shaped
<1>   QED
      BY <1>3, <1>4, <1>5, <1>6, <1>7, DwellingKeeps

\* The user's actions keep the invariant.
LEMMA UserKeeps == ASSUME CInv, UserRenames \/ UserChanges PROVE CInv'
<1>1. CASE UserRenames
  <2>1. PICK n \in FileName : at' = n /\ Record("rename", n, QueuedMoves) /\ past' = past
        BY <1>1 DEF UserRenames
  <2>2. Records("rename", QueuedMoves)
        BY <2>1, RecordNamed DEF CInv
  <2>   QED
        BY <2>1, <2>2, RecordKeeps DEF QueuedMoves
<1>2. CASE UserChanges
  <2>1. Record("change", at, {}) /\ past' = past /\ at' = at /\ at \in FileName
        BY <1>2 DEF UserChanges, CInv, Shaped
  <2>2. Records("change", {})
        BY <2>1, RecordNamed DEF CInv
  <2>   QED
        BY <2>1, <2>2, RecordKeeps
<1>   QED
      BY <1>1, <1>2

\* Answers keep it.
LEMMA AnswersKeep == ASSUME CInv, Answered \/ AnswerRecorded PROVE CInv'
<1>1. /\ mem.applied \subseteq DOMAIN project.journal /\ past \in Pasts /\ at \in FileName
      /\ \A n \in DOMAIN mem.handlers : mem.handlers[n].row \in DOMAIN project.journal
      /\ made \in Nat /\ made <= made /\ Shaped /\ RowsThere
      BY DEF CInv, RowsThere, Shaped
<1>2. CASE AnswerRecorded
  <2>1. /\ Inside /\ Dwells /\ UNCHANGED <<at, made, past, down>>
        /\ mem'.applied = mem.applied /\ mem'.handlers = mem.handlers
        /\ \E k \in DOMAIN project.journal : Settles(mem', k)
        BY <1>1, <1>2, AnswerRecordedNamed DEF CInv, Unsent
  <2>2. PICK k \in DOMAIN project.journal : Counts(k)
        BY <2>1 DEF Settles, Counts
  <2>3. Remembers /\ LogSteps /\ mem.known \subseteq mem'.known
        BY <2>2, CountsRemembers
  <2>   QED
        BY <1>1, <2>1, <2>3, DwellingKeeps
<1>3. CASE Answered
  <2>   DEFINE k == Head(down).row
  <2>1. /\ Inside /\ Dwells /\ mem'.applied = mem.applied /\ mem'.handlers = mem.handlers
        /\ down # <<>> /\ Head(down).type = "ack" /\ down' = Tail(down)
        /\ UNCHANGED <<at, made, past>>
        /\ \/ Settles(mem', Head(down).row)
           \/ \E i \in DOMAIN mem.log :
                 /\ mem.log[i].st = "sent" /\ i = project.journal[Head(down).row].id
                 /\ Becomes(mem'.log, mem.log, i, "answered")
                 /\ mem'.clock = mem.clock /\ mem'.recorded = mem.recorded
                 /\ mem'.known = mem.known
           \/ Keeps
        BY <1>1, <1>3, AnsweredNamed
  <2>2. k \in DOMAIN project.journal
        BY <1>1, <2>1 DEF RowsThere, Shaped
  <2>3. CASE Settles(mem', k)
    <3>1. Counts(k)
          BY <2>3 DEF Settles, Counts
    <3>2. Remembers /\ LogSteps /\ mem.known \subseteq mem'.known
          BY <2>2, <3>1, CountsRemembers
    <3>   QED
          BY <1>1, <2>1, <3>2, DwellingKeeps
  <2>4. CASE \E i \in DOMAIN mem.log :
                 /\ mem.log[i].st = "sent" /\ i = project.journal[k].id
                 /\ Becomes(mem'.log, mem.log, i, "answered")
                 /\ mem'.clock = mem.clock /\ mem'.recorded = mem.recorded
                 /\ mem'.known = mem.known
    <3>1. PICK i \in DOMAIN mem.log :
                 /\ mem.log[i].st = "sent" /\ i = project.journal[k].id
                 /\ Becomes(mem'.log, mem.log, i, "answered")
                 /\ mem'.clock = mem.clock /\ mem'.recorded = mem.recorded
                 /\ mem'.known = mem.known
          BY <2>4
    <3>2. Landed(i)
          BY <2>2, <3>1 DEF Landed
    <3>3. \A n \in {1, 2} : mem.recorded[n] <= mem.recorded[n] /\ mem.clock[n] <= mem.clock[n]
          BY ClockNamed DEF CInv
    <3>4. Remembers
          BY <3>1, <3>2, <3>3 DEF CInv, Clocks, Becomes, Remembers
    <3>5. LogSteps
          BY <3>1, <3>2 DEF CInv, Unsent, Becomes, LogSteps
    <3>   QED
          BY <1>1, <2>1, <3>1, <3>4, <3>5, DwellingKeeps
  <2>5. CASE Keeps
    <3>1. Remembers /\ LogSteps /\ mem.known \subseteq mem'.known
          BY <2>5, KeepsRemembers
    <3>   QED
          BY <1>1, <2>1, <3>1, DwellingKeeps
  <2>   QED
        BY <2>1, <2>3, <2>4, <2>5
<1>   QED
      BY <1>2, <1>3

\* A teammate's rename from its broadcast keeps it.
LEMMA LiveKeeps == ASSUME CInv, Renamed \/ MoveLive PROVE CInv'
<1>1. /\ made \in Nat /\ made <= made /\ Shaped /\ RowsThere /\ past \in Pasts
      /\ at \in FileName
      BY DEF CInv, Shaped
<1>2. /\ Inside /\ Dwells /\ Keeps /\ UNCHANGED made /\ at' \in FileName
      /\ past' \in Pasts /\ past'.mistaken = past.mistaken
      /\ mem'.applied \subseteq DOMAIN project.journal
      /\ \A n \in DOMAIN mem'.handlers : mem'.handlers[n].row \in DOMAIN project.journal
  <2>1. CASE Renamed
        BY <1>1, <2>1, RenamedNamed
  <2>2. CASE MoveLive
        BY <1>1, <2>2, MoveLiveNamed
  <2>   QED
        BY <2>1, <2>2
<1>3. Remembers /\ LogSteps /\ mem.known \subseteq mem'.known
      BY <1>2, KeepsRemembers
<1>   QED
      BY <1>1, <1>2, <1>3, DwellingKeeps

-----------------------------------------------------------------------------
\* A step inside that remembers: what is left to show is where the flow is.
LEMMA SteppingKeeps ==
    ASSUME CInv, Inside, Remembers, at' \in FileName, past' \in Pasts,
           past'.mistaken = past.mistaken,
           UNCHANGED made, RowsThere', Unsent', Disconnected', Stages', Joining', Shown'
    PROVE  CInv'
<1>1. made' \in Nat /\ made <= made'
      BY DEF CInv, Shaped
<1>2. Shaped'
      BY <1>1, InsideShaped DEF CInv
<1>3. Once' /\ Carried' /\ Clocks' /\ Recorded'
      BY <1>2, InsideStays
<1>4. OwnNotTaken'
      BY DEF CInv, OwnNotTaken, Inside
<1>   QED
      BY <1>2, <1>3, <1>4 DEF CInv

\* What a step inside leaves alone.
LEMMA TheSame ==
    ASSUME Inside
    PROVE  /\ project' = project /\ up' = up /\ past'.ahead = past.ahead /\ Own' = Own
           /\ \A i : Landed(i)' <=> Landed(i)
BY DEF Inside, Own, Landed

\* The flow begins, again or anew.
LEMMA StartsKeep ==
    ASSUME CInv, NEW ids, Starts(ids),
           UNCHANGED <<at, file, project, up, down, made, past>>,
           mem.flow.step \in {"off", "again"}, Ids(mem, {"writing"}) = {},
           mem.flow.step # "off" => mem'.known = mem.known
    PROVE  CInv'
<1>1. Inside /\ made' \in Nat /\ made <= made' /\ at' \in FileName /\ past' \in Pasts
      BY DEF Inside, Starts, CInv, Shaped
<1>2. Remembers
  <2>1. \A n \in {1, 2} : mem.recorded[n] <= mem.recorded[n] /\ mem.clock[n] <= mem.clock[n]
        BY ClockNamed DEF CInv
  <2>   QED
        BY <2>1 DEF CInv, Clocks, Starts, Remembers
<1>3. RowsThere'
  <2>1. mem'.flow.asked \subseteq 1..made'
    <3>1. mem.log \in Logs(made) /\ made \in Nat
          BY MemNamed DEF CInv
    <3>2. DOMAIN mem.log \subseteq 1..made
          BY <3>1, LogNamed
    <3>   QED
          BY <3>2 DEF Starts, Ids
  <2>   QED
        BY <1>1, <2>1, InsideRows DEF Starts, CInv, RowsThere
<1>4. Unsent'
  <2>1. \A i \in DOMAIN mem.log : mem.log[i].st = "queued" => i \in mem'.flow.asked /\ mem'.flow.step = "ask"
        BY DEF Starts, Ids
  <2>   QED
        BY <1>1, <2>1, TheSame DEF Unsent, CInv, Starts
<1>5. Disconnected'
      BY DEF Starts, Disconnected
<1>6. Stages'
      BY DEF Starts, Stages
<1>7. Joining'
  <2>1. CASE mem.flow.step = "off"
        BY <2>1 DEF CInv, Disconnected, Joining, Returns, Starts
  <2>2. CASE mem.flow.step # "off"
    <3>1. /\ up' = up /\ project' = project /\ down' = down /\ Own' = Own
          BY <1>1, TheSame
    <3>2. \A id : Recognised(id) => Recognised(id)'
          BY <1>1, <2>2 DEF Recognised, Starts, Inside
    <3>3. mem'.flow.rows = {}
          BY DEF Starts
    <3>   QED
          BY <3>1, <3>2, <3>3 DEF CInv, Joining, Returns, UpTo
  <2>   QED
        BY <2>1, <2>2
<1>8. Shown'
      BY DEF Starts, Shown
<1>   QED
      BY <1>1, <1>2, <1>3, <1>4, <1>5, <1>6, <1>7, <1>8, SteppingKeeps

\* The start of the flow keeps the invariant.
LEMMA StartingKeeps == ASSUME CInv, Connects \/ JoinAgain PROVE CInv'
<1>1. Shaped
      BY DEF CInv
<1>2. CASE Connects
  <2>1. mem' = FlowStarts(mem, FALSE) /\ FALSE \in BOOLEAN
        BY <1>2 DEF Connects
  <2>2. Starts(IF FALSE THEN mem.known ELSE {})
        BY <1>1, <2>1, FlowStartsNamed
  <2>   QED
        BY <1>2, <2>2, StartsKeep DEF Connects
<1>3. CASE JoinAgain
  <2>1. mem' = FlowStarts(mem, TRUE) /\ TRUE \in BOOLEAN
        BY <1>3 DEF JoinAgain
  <2>2. Starts(mem.known)
    <3>1. Starts(IF TRUE THEN mem.known ELSE {})
          BY <1>1, <2>1, FlowStartsNamed
    <3>   QED
          BY <3>1
  <2>3. mem'.known = mem.known
        BY <2>2 DEF Starts
  <2>4. Ids(mem, {"writing"}) = {}
        BY <1>3 DEF JoinAgain, Ids
  <2>   QED
        BY <1>3, <2>2, <2>3, <2>4, StartsKeep DEF JoinAgain
<1>   QED
      BY <1>2, <1>3

\* So does the answer of ops:status.
LEMMA StatusKeeps == ASSUME CInv, StatusAnswered PROVE CInv'
<1>1. Shaped /\ made \in Nat /\ made <= made
      BY DEF CInv, Shaped
<1>2. /\ FlowOnly /\ UNCHANGED <<at, past, down>> /\ mem.flow.step = "ask"
      /\ mem'.flow.step = "settle" /\ mem'.flow.asked = {i \in mem.flow.asked : Landed(i)}
      /\ mem'.flow.half = mem.flow.half /\ mem'.flow.settled = mem.flow.settled
      /\ mem'.flow.listing = mem.flow.listing /\ mem'.flow.rows = mem.flow.rows
      /\ mem'.flow.todo = mem.flow.todo /\ mem'.flow.join = mem.flow.join
      BY <1>1, StatusAnsweredNamed
<1>3. Inside /\ Keeps /\ at' \in FileName /\ past' \in Pasts
      BY <1>2 DEF FlowOnly, CInv, Shaped
<1>4. Remembers /\ mem.known \subseteq mem'.known
      BY <1>3, KeepsRemembers
<1>5. RowsThere'
      BY <1>1, <1>2, <1>3, InsideRows DEF FlowOnly, CInv, RowsThere
<1>6. Unsent'
      BY <1>2, <1>3, TheSame DEF CInv, Unsent, Keeps
<1>7. Disconnected'
      BY <1>2 DEF Disconnected
<1>8. Stages'
      BY <1>2, <1>3, TheSame DEF CInv, Stages
<1>9. Joining'
      BY <1>2, <1>3, <1>4, JoiningStays
<1>10. Shown'
      BY <1>2 DEF Shown
<1>   QED
      BY <1>2, <1>3, <1>4, <1>5, <1>6, <1>7, <1>8, <1>9, <1>10, SteppingKeeps DEF FlowOnly

\* The counter of an operation that landed, and its entry.
LEMMA SettlingKeeps == ASSUME CInv, SettleLanded PROVE CInv'
<1>1. Shaped /\ made \in Nat /\ made <= made /\ mem.flow.step = "settle" /\ ~mem.flow.half
      BY DEF CInv, Shaped, SettleLanded
<1>2. \A i \in mem.flow.asked : Landed(i)
      BY <1>1 DEF CInv, Stages
<1>   DEFINE id == Earliest(mem.flow.asked)
             k  == RowOf(id)
<1>3. TakesIn(id, k)
      BY <1>1, <1>2, SettleLandedNamed
<1>   HIDE DEF k
<1>4. /\ Inside /\ AsksOn /\ k \in DOMAIN project.journal /\ project.journal[k].id = id
      /\ id \in mem.flow.asked
      BY <1>3 DEF TakesIn
<1>5. Counts(k)
      BY <1>3, <1>4 DEF TakesIn, Counts
<1>6. Remembers /\ LogSteps /\ mem.known \subseteq mem'.known
      BY <1>4, <1>5, CountsRemembers
<1>7. at' \in FileName /\ past' \in Pasts /\ past' = past /\ UNCHANGED made
      BY <1>3 DEF TakesIn, CInv, Shaped
<1>8. mem'.flow.asked \subseteq mem.flow.asked
      BY <1>3 DEF TakesIn
<1>9. RowsThere'
      BY <1>1, <1>3, <1>4, <1>7, <1>8, InsideRows DEF TakesIn, AsksOn, CInv, RowsThere
<1>10. Unsent'
  <2>1. /\ DOMAIN Without(mem.log, {id}) = DOMAIN mem.log \ {id}
        /\ \A i \in DOMAIN mem.log \ {id} : Without(mem.log, {id})[i] = mem.log[i]
        BY DEF Without
  <2>2. \A i \in DOMAIN mem'.log : i \in mem.flow.asked => i \in mem'.flow.asked
        BY <1>3, <2>1 DEF TakesIn
  <2>   HIDE DEF id
  <2>   QED
        BY <1>1, <1>4, <1>6, <2>2, TheSame DEF CInv, Unsent, LogSteps, AsksOn
<1>11. Disconnected'
      BY <1>1, <1>4 DEF Disconnected, AsksOn
<1>12. Stages'
  <2>1. mem'.flow.half => mem'.flow.asked = mem.flow.asked /\ id \in mem'.known
        BY <1>3 DEF TakesIn
  <2>2. mem'.flow.half => mem'.flow.asked # {} /\ Earliest(mem'.flow.asked) \in mem'.known
        BY <1>4, <2>1
  <2>   HIDE DEF id
  <2>   QED
        BY <1>1, <1>2, <1>4, <1>8, <2>2, TheSame DEF CInv, Stages, AsksOn
<1>13. Joining'
      BY <1>4, <1>6, JoiningStays DEF AsksOn
<1>14. Shown'
      BY <1>1, <1>4 DEF Shown, AsksOn
<1>   QED
      BY <1>4, <1>6, <1>7, <1>9, <1>10, <1>11, <1>12, <1>13, <1>14, SteppingKeeps

\* An entry leaves the queue whose counter was taken in before.
LEMMA LeavingKeeps == ASSUME CInv, LandedLeaves PROVE CInv'
<1>   DEFINE id == Earliest(mem.flow.asked)
<1>1. Shaped /\ made \in Nat /\ made <= made
      BY DEF CInv, Shaped
<1>2. Leaves(id)
      BY <1>1, LandedLeavesNamed
<1>3. mem.flow.half /\ mem.flow.step = "settle" /\ id \in mem.known /\ mem.flow.asked # {}
      BY <1>2 DEF Leaves, CInv, Stages
<1>4. Landed(id)
  <2>1. mem.flow.asked \in SUBSET Nat
        BY MemNamed DEF CInv, Mems, Flows
  <2>2. id \in mem.flow.asked
        BY <1>3, <2>1, LeastExists
  <2>   QED
        BY <1>3, <2>2 DEF CInv, Stages
<1>   HIDE DEF id
<1>5. /\ Inside /\ AsksOn /\ at' \in FileName /\ past' \in Pasts /\ past' = past
      /\ UNCHANGED made
      /\ mem'.known = mem.known /\ ~mem'.flow.half
      BY <1>2 DEF Leaves, CInv, Shaped
<1>6. /\ DOMAIN mem'.log = DOMAIN mem.log \ {id} /\ mem'.flow.asked = mem.flow.asked \ {id}
      /\ \A i \in DOMAIN mem'.log : mem'.log[i] = mem.log[i]
      BY <1>2 DEF Leaves, Without
<1>7. Remembers
  <2>1. \A n \in {1, 2} : mem.recorded[n] <= mem.recorded[n] /\ mem.clock[n] <= mem.clock[n]
        BY ClockNamed DEF CInv
  <2>2. \A i \in DOMAIN mem.log : i = id \/ (i \in DOMAIN mem'.log /\ mem'.log[i] = mem.log[i])
        BY <1>6
  <2>   QED
        BY <1>2, <1>3, <1>4, <1>5, <2>1, <2>2 DEF CInv, Clocks, Leaves, Remembers
<1>8. RowsThere'
      BY <1>1, <1>2, <1>5, <1>6, InsideRows DEF Leaves, AsksOn, CInv, RowsThere
<1>9. Unsent'
      BY <1>3, <1>5, <1>6, TheSame DEF CInv, Unsent, AsksOn
<1>10. Disconnected'
      BY <1>3, <1>5 DEF Disconnected, AsksOn
<1>11. Stages'
      BY <1>3, <1>5, <1>6, TheSame DEF CInv, Stages, AsksOn
<1>12. Joining'
      BY <1>5, <1>7, JoiningStays DEF AsksOn
<1>13. Shown'
      BY <1>3, <1>5 DEF Shown, AsksOn
<1>   QED
      BY <1>5, <1>7, <1>8, <1>9, <1>10, <1>11, <1>12, <1>13, SteppingKeeps

-----------------------------------------------------------------------------
\* An operation without a row goes out.
LEMMA EmitKeeps ==
    ASSUME CInv, NEW i \in DOMAIN mem.log, NEW st \in {"sent", "resent"}, Emits(i, st),
           i \in DOMAIN file.log, ~Landed(i), mem.log[i].st \in {"writing", "queued"},
           mem.flow.step # "off", UNCHANGED <<at, file, project, down, made, past>>
    PROVE  CInv'
<1>   DEFINE p == [type |-> "op", id |-> i, clock |-> mem'.clock]
<1>1. /\ Shaped /\ up \in Seq(Requests) /\ up' = Append(up, p) /\ mem' \in Mems(made)
      /\ made \in Nat
      /\ mem.log \in Logs(made)
      BY MemNamed DEF CInv, Shaped, Emits
<1>2. mem'.clock \in Clock /\ i \in Nat /\ i \in 1..made
  <2>1. mem'.clock \in Clock
        BY <1>1 DEF Mems
  <2>2. DOMAIN mem.log \subseteq 1..made
        BY <1>1, LogNamed
  <2>   QED
        BY <1>1, <2>1, <2>2
<1>3. p \in Requests /\ p.type = "op" /\ p.id = i /\ p.clock = mem'.clock
      BY <1>2 DEF Requests
<1>   HIDE DEF p
<1>4. up' \in Seq(Requests) /\ Len(up) \in Nat /\ Len(up') = Len(up) + 1
      BY <1>1, <1>3
<1>5. \A n \in DOMAIN up' : \/ n \in DOMAIN up /\ up'[n] = up[n]
                            \/ n = Len(up) + 1 /\ up'[n] = p
      BY <1>1, <1>3
<1>6. /\ Own' = Own /\ \A x : Landed(x)' <=> Landed(x)
      BY DEF Own, Landed
<1>7. /\ DOMAIN mem'.log = DOMAIN mem.log /\ mem'.log[i].st = st
      /\ \A j \in DOMAIN mem.log : j # i => mem'.log[j] = mem.log[j]
      /\ mem'.clock = <<mem.clock[1] + 1, mem.clock[2]>> /\ mem'.recorded = mem.recorded
      /\ mem'.known = mem.known /\ mem'.applied = mem.applied
      /\ mem'.handlers = mem.handlers
      /\ mem'.flow = mem.flow
      BY DEF Emits, Becomes
<1>8. \A n \in Sent : up[n].id # i
      BY DEF CInv, Carried
<1>9. Shaped'
      BY <1>1, <1>4 DEF CInv, Shaped, MemTypeOK, FileTypeOK, ProjectTypeOK
<1>10. RowsThere'
      BY <1>2, <1>3, <1>5, <1>7 DEF CInv, RowsThere
<1>11. Once'
  <2>1. \A n \in Sent' : \/ n \in Sent /\ up'[n].id = up[n].id
                         \/ n = Len(up) + 1 /\ up'[n].id = i
        BY <1>3, <1>5 DEF Sent
  <2>2. \A m, n \in Sent' : up'[m].id = up'[n].id => m = n
        BY <1>8, <2>1 DEF CInv, Once
  <2>   QED
        BY <1>6, <2>2 DEF CInv, Once
<1>12. Carried'
  <2>   SUFFICES ASSUME NEW n \in Sent'
                 PROVE  /\ up'[n].id \in DOMAIN mem'.log /\ up'[n].id \in DOMAIN file'.log
                        /\ ~Landed(up'[n].id)
                        /\ mem'.log[up'[n].id].st \in {"sent", "resent"}
                        /\ up'[n].clock[2] <= mem'.clock[2]
        BY <1>6 DEF Carried
  <2>1. CASE n \in Sent /\ up'[n] = up[n]
        BY <1>7, <1>8, <2>1 DEF CInv, Carried
  <2>2. CASE up'[n] = p
    <3>1. mem'.clock[2] <= mem'.clock[2]
          BY <1>2 DEF Clock
    <3>   QED
          BY <1>3, <1>7, <2>2, <3>1
  <2>   QED
        BY <1>5, <2>1, <2>2 DEF Sent
<1>13. Unsent'
      BY <1>6, <1>7 DEF CInv, Unsent
<1>14. Disconnected' /\ Stages' /\ Shown' /\ OwnNotTaken'
      BY <1>6, <1>7 DEF CInv, Disconnected, Stages, Shown, OwnNotTaken
<1>15. Clocks'
  <2>1. \A n \in {1, 2} : mem.recorded[n] <= mem'.clock[n]
        BY <1>7, ClockNamed DEF CInv, Clocks
  <2>   QED
        BY <1>6, <1>7, <2>1 DEF CInv, Clocks
<1>16. Recorded'
      BY <1>6, <1>7 DEF CInv, Recorded, Within
<1>17. Joining'
  <2>1. \A n \in DOMAIN up' : up'[n].type = "join" => n \in DOMAIN up /\ up'[n] = up[n]
        BY <1>3, <1>5
  <2>2. \A id : Recognised(id)' <=> Recognised(id)
        BY <1>7 DEF Recognised
  <2>3. \A n \in DOMAIN up : up[n].type = "join" =>
         \A k \in Own : \/ Recognised(project.journal[k].id)'
                        \/ \A c \in {1, 2} : project.journal[k].clock[c] <= up[n].clock[c]
        BY <2>2 DEF CInv, Joining, UpTo
  <2>4. project.join # <<>> =>
         \A k \in Own : \/ Recognised(project.journal[k].id)'
                        \/ \A c \in {1, 2} : project.journal[k].clock[c] <= project.join[c]
        BY <2>2 DEF CInv, Joining, UpTo
  <2>5. \A n \in DOMAIN down : down[n].type = "joined" =>
         \A k \in down[n].rows : k \in Own => Recognised(project.journal[k].id)'
        BY <2>2 DEF CInv, Joining, Returns
  <2>6. \A k \in mem.flow.rows : k \in Own => Recognised(project.journal[k].id)'
        BY <2>2 DEF CInv, Joining, Returns
  <2>   QED
        BY <1>6, <1>7, <2>1, <2>3, <2>4, <2>5, <2>6 DEF Joining, Returns, UpTo
<1>   QED
      BY <1>9, <1>10, <1>11, <1>12, <1>13, <1>14, <1>15, <1>16, <1>17 DEF CInv

\* Sending, first or again, keeps the invariant.
LEMMA SendingKeeps == ASSUME CInv, Send \/ Resend PROVE CInv'
<1>1. Shaped /\ made \in Nat /\ made <= made /\ at \in FileName /\ past \in Pasts
      BY DEF CInv, Shaped
<1>2. CASE Resend
  <2>1. PICK i \in Ids(mem, {"queued"}) : i \in DOMAIN file.log /\ Emit(i, "resent")
        BY <1>2 DEF Resend
  <2>2. mem.flow.step = "live" /\ UNCHANGED <<at, file, project, down, made, past>>
        BY <1>2 DEF Resend
  <2>3. i \in DOMAIN mem.log /\ mem.log[i].st = "queued"
        BY DEF Ids
  <2>4. ~Landed(i)
        BY <2>2, QueuedHasNoRow
  <2>5. Emits(i, "resent")
        BY <1>1, <2>1, <2>3, EmitNamed
  <2>   QED
        BY <2>1, <2>2, <2>3, <2>4, <2>5, EmitKeeps
<1>3. CASE Send
  <2>1. PICK i \in DOMAIN mem.log :
                 /\ mem.log[i].st = "writing" /\ i \in DOMAIN file.log
                 /\ \/ CanSendLive /\ Emits(i, "sent")
                    \/ /\ Inside /\ Dwells /\ Becomes(mem'.log, mem.log, i, "queued")
                       /\ mem'.clock = mem.clock /\ mem'.recorded = mem.recorded
                       /\ mem'.known = mem.known /\ mem'.applied = mem.applied
                       /\ mem'.handlers = mem.handlers
        BY <1>1, <1>3, SendNamed
  <2>2. UNCHANGED <<at, file, project, down, made, past>>
        BY <1>1, <1>3, SendNamed
  <2>3. ~Landed(i)
        BY <2>1 DEF CInv, Unsent
  <2>4. CASE CanSendLive /\ Emits(i, "sent")
        BY <2>1, <2>2, <2>3, <2>4, EmitKeeps DEF CanSendLive
  <2>5. CASE /\ Inside /\ Dwells /\ Becomes(mem'.log, mem.log, i, "queued")
             /\ mem'.clock = mem.clock /\ mem'.recorded = mem.recorded
             /\ mem'.known = mem.known /\ mem'.applied = mem.applied
             /\ mem'.handlers = mem.handlers
    <3>1. \A n \in {1, 2} : mem.recorded[n] <= mem.recorded[n] /\ mem.clock[n] <= mem.clock[n]
          BY ClockNamed DEF CInv
    <3>2. Remembers
          BY <2>1, <2>5, <3>1 DEF CInv, Clocks, Becomes, Remembers
    <3>3. LogSteps
          BY <2>3, <2>5 DEF CInv, Unsent, Becomes, LogSteps
    <3>4. /\ mem'.applied \subseteq DOMAIN project.journal
          /\ \A n \in DOMAIN mem'.handlers : mem'.handlers[n].row \in DOMAIN project.journal
          BY <2>5 DEF CInv, RowsThere
    <3>   QED
          BY <1>1, <2>2, <2>5, <3>2, <3>3, <3>4, DwellingKeeps
  <2>   QED
        BY <2>1, <2>4, <2>5
<1>   QED
      BY <1>2, <1>3

\* The listing is read, and the index made of it; neither takes an operation with a row away.
LEMMA ListingKeeps == ASSUME CInv, ListingRead \/ Refresh PROVE CInv'
<1>1. /\ Shaped /\ made \in Nat /\ made <= made /\ at \in FileName
      /\ mem.applied \subseteq DOMAIN project.journal
      /\ \A n \in DOMAIN mem.handlers : mem.handlers[n].row \in DOMAIN project.journal
      BY DEF CInv, Shaped, RowsThere
<1>2. CASE ListingRead
  <2>1. /\ FlowOnly /\ UNCHANGED <<at, down>>
        /\ past' \in Pasts /\ past'.mistaken = past.mistaken
        /\ mem.flow.listing = "asked" /\ mem'.flow.listing = "read"
        /\ mem'.flow.step = mem.flow.step /\ mem'.flow.asked = mem.flow.asked
        /\ mem'.flow.half = mem.flow.half /\ mem'.flow.settled = mem.flow.settled
        /\ mem'.flow.rows = mem.flow.rows /\ mem'.flow.todo = mem.flow.todo
        /\ mem'.flow.own = mem.flow.own /\ mem'.flow.join = mem.flow.join
        BY <1>1, <1>2, ListingReadNamed
  <2>2. Inside /\ Dwells /\ Keeps /\ UNCHANGED made
        BY <2>1 DEF FlowOnly, Dwells
  <2>3. Remembers /\ LogSteps /\ mem.known \subseteq mem'.known
        BY <2>2, KeepsRemembers
  <2>4. mem'.applied = mem.applied /\ mem'.handlers = mem.handlers
        BY <2>1 DEF FlowOnly
  <2>   QED
        BY <1>1, <2>1, <2>2, <2>3, <2>4, DwellingKeeps
<1>3. CASE Refresh
  <2>1. Refreshes
        BY <1>1, <1>3, RefreshNamed
  <2>2. Inside /\ Dwells
        BY <2>1 DEF Refreshes, Dwells
  <2>3. /\ Fewer(mem'.log, mem.log)
        /\ \A i \in DOMAIN mem.log \ DOMAIN mem'.log : mem.log[i].st = "queued"
    <3>1. mem'.log = Collapsed(mem.log) /\ mem.log \in Logs(made)
          BY <1>1, <2>1, MemNamed DEF Refreshes
    <3>   QED
          BY <1>1, <3>1, CollapsedNamed
  <2>4. \A i \in DOMAIN mem.log \ DOMAIN mem'.log : ~Landed(i)
    <3>1. mem.flow.step = "gather"
          BY <2>1 DEF CInv, Stages, Refreshes
    <3>   QED
          BY <2>3, <3>1, QueuedHasNoRow DEF Ids
  <2>5. \A n \in {1, 2} : mem.recorded[n] <= mem.recorded[n] /\ mem.clock[n] <= mem.clock[n]
        BY ClockNamed DEF CInv
  <2>6. Remembers
        BY <2>1, <2>3, <2>4, <2>5 DEF CInv, Clocks, Refreshes, Fewer, Remembers
  <2>7. LogSteps
        BY <2>3 DEF CInv, Unsent, Fewer, LogSteps
  <2>8. /\ at' \in FileName /\ past' \in Pasts /\ past'.mistaken = past.mistaken
        /\ UNCHANGED made
        /\ mem'.applied = mem.applied /\ mem'.handlers = mem.handlers
        /\ mem.known \subseteq mem'.known
        BY <2>1 DEF Refreshes
  <2>   QED
        BY <1>1, <2>2, <2>6, <2>7, <2>8, DwellingKeeps
<1>   QED
      BY <1>2, <1>3

-----------------------------------------------------------------------------
(* One join is out at a time, and the flow waits for it.                   *)
JoinsUp == {n \in DOMAIN up : up[n].type = "join"}
JoinsDown == {n \in DOMAIN down : down[n].type \in {"joined", "refused"}}
JoinOut == JoinsUp # {} \/ JoinsDown # {} \/ project.join # <<>>
OneJoin ==
    /\ \A m, n \in JoinsUp : m = n
    /\ \A m, n \in JoinsDown : m = n
    /\ JoinsUp # {} => JoinsDown = {} /\ project.join = <<>>
    /\ project.join # <<>> => JoinsDown = {}
    /\ JoinOut => mem.flow.step = "gather" /\ mem.flow.join = "none"
    /\ mem.flow.step \in {"ask", "settle"} => mem.flow.join = "none"

\* The catch-up's rows are there, or the join was refused: none of them shown yet.
LEMMA JoinedKeeps == ASSUME CInv, OneJoin, JoinAnswered PROVE CInv'
<1>1. /\ Shaped /\ made \in Nat /\ made <= made /\ down \in Seq(Answers)
      /\ mem.applied \subseteq DOMAIN project.journal
      /\ \A n \in DOMAIN mem.handlers : mem.handlers[n].row \in DOMAIN project.journal
      BY DEF CInv, Shaped, RowsThere
<1>2. /\ FlowOnly /\ UNCHANGED <<at, past>> /\ down # <<>> /\ down' = Tail(down)
      /\ mem'.flow.step = mem.flow.step /\ mem'.flow.asked = mem.flow.asked
      /\ mem'.flow.half = mem.flow.half /\ mem'.flow.settled = mem.flow.settled
      /\ mem'.flow.listing = mem.flow.listing /\ mem'.flow.own = mem.flow.own
      /\ \/ /\ Head(down).type = "joined" /\ mem'.flow.join = "joined"
            /\ mem'.flow.rows = Head(down).rows /\ mem'.flow.todo = Head(down).rows
         \/ /\ Head(down).type = "refused" /\ mem'.flow.join = "refused"
            /\ mem'.flow.rows = mem.flow.rows /\ mem'.flow.todo = mem.flow.todo
      BY <1>1, JoinAnsweredNamed
<1>3. /\ Inside /\ Keeps /\ UNCHANGED made /\ at' \in FileName /\ past' \in Pasts
      /\ mem'.applied = mem.applied /\ mem'.handlers = mem.handlers
      BY <1>1, <1>2 DEF FlowOnly, CInv, Shaped
<1>4. Remembers /\ LogSteps /\ mem.known \subseteq mem'.known
      BY <1>3, KeepsRemembers
<1>5. 1 \in DOMAIN down /\ down[1] = Head(down)
      BY <1>1, <1>2
<1>6. mem.flow.step = "gather" /\ mem.flow.join = "none"
  <2>1. 1 \in JoinsDown
        BY <1>2, <1>5 DEF JoinsDown
  <2>   QED
        BY <2>1 DEF OneJoin, JoinOut
<1>7. /\ mem'.flow.rows \subseteq DOMAIN project.journal
      /\ mem'.flow.todo \subseteq mem'.flow.rows
      /\ mem'.flow.rows # {} => mem'.flow.join = "joined"
      BY <1>2, <1>5, <1>6 DEF CInv, RowsThere
<1>8. RowsThere'
  <2>1. mem'.flow.asked \subseteq 1..made'
        BY <1>2, <1>3 DEF CInv, RowsThere
  <2>   QED
        BY <1>1, <1>3, <1>7, <2>1, InsideRows
<1>9. Unsent'
      BY <1>2, <1>3, TheSame DEF CInv, Unsent, Keeps
<1>10. Disconnected' /\ Stages' /\ Shown'
      BY <1>2, <1>3, <1>6, TheSame DEF CInv, Disconnected, Stages, Shown, Keeps
<1>11. Joining'
  <2>1. /\ project' = project /\ up' = up /\ Own' = Own
        BY <1>3, TheSame
  <2>2. \A id : Recognised(id)' <=> Recognised(id)
        BY <1>2, <1>3 DEF Recognised, Keeps
  <2>3. \A n \in DOMAIN down' : n + 1 \in DOMAIN down /\ down'[n] = down[n + 1]
        BY <1>1, <1>2
  <2>4. Returns(mem'.flow.rows)
        BY <1>2, <1>5 DEF CInv, Joining
  <2>5. \A k \in mem'.flow.rows : k \in Own => Recognised(project.journal[k].id)'
        BY <2>1, <2>2, <2>4 DEF Returns
  <2>6. \A n \in DOMAIN down' : down'[n].type = "joined" =>
           \A k \in down'[n].rows : k \in Own => Recognised(project.journal[k].id)'
        BY <2>1, <2>2, <2>3 DEF CInv, Joining, Returns
  <2>7. \A n \in DOMAIN up : up[n].type = "join" =>
         \A k \in Own : \/ Recognised(project.journal[k].id)'
                        \/ \A c \in {1, 2} : project.journal[k].clock[c] <= up[n].clock[c]
        BY <2>1, <2>2 DEF CInv, Joining, UpTo
  <2>8. project.join # <<>> =>
         \A k \in Own : \/ Recognised(project.journal[k].id)'
                        \/ \A c \in {1, 2} : project.journal[k].clock[c] <= project.join[c]
        BY <2>1, <2>2 DEF CInv, Joining, UpTo
  <2>   QED
        BY <2>1, <2>5, <2>6, <2>7, <2>8 DEF Joining, Returns, UpTo
<1>   QED
      BY <1>2, <1>3, <1>4, <1>8, <1>9, <1>10, <1>11, SteppingKeeps

\* ownRows is taken: what it lacks of this device's was lost by a crash.
LEMMA GatherKeeps == ASSUME CInv, Gather PROVE CInv'
<1>1. Shaped /\ RowsThere /\ made \in Nat /\ made <= made
      BY DEF CInv, Shaped
<1>2. /\ FlowOnly /\ UNCHANGED <<at, down>>
      /\ past' \in Pasts /\ past'.mistaken = past.mistaken
      /\ mem.flow.step = "gather" /\ mem.flow.listing = "done"
      /\ mem'.flow.listing = "done" /\ mem'.flow.asked = mem.flow.asked
      /\ mem'.flow.half = mem.flow.half /\ mem'.flow.join = mem.flow.join
      /\ mem'.flow.rows = mem.flow.rows /\ mem'.flow.todo = mem.flow.todo
      /\ \/ mem'.flow.step = "again" /\ ~mem'.flow.settled
         \/ mem'.flow.step = "rows" /\ mem'.flow.own = OwnRows
      BY <1>1, GatherNamed
<1>3. /\ Inside /\ Keeps /\ UNCHANGED made /\ at' \in FileName
      /\ mem'.applied = mem.applied /\ mem'.handlers = mem.handlers
      BY <1>2 DEF FlowOnly, CInv, Shaped
<1>4. Remembers /\ LogSteps /\ mem.known \subseteq mem'.known
      BY <1>3, KeepsRemembers
<1>5. RowsThere'
  <2>1. /\ mem'.applied \subseteq DOMAIN project.journal
        /\ \A n \in DOMAIN mem'.handlers : mem'.handlers[n].row \in DOMAIN project.journal
        BY <1>1, <1>3 DEF RowsThere
  <2>2. /\ mem'.flow.rows \subseteq DOMAIN project.journal
        /\ mem'.flow.todo \subseteq mem'.flow.rows
        /\ mem'.flow.rows # {} => mem'.flow.join = "joined"
        BY <1>1, <1>2 DEF RowsThere
  <2>3. mem'.flow.asked \subseteq 1..made'
        BY <1>1, <1>2, <1>3 DEF RowsThere
  <2>   QED
        BY <1>1, <1>3, <2>1, <2>2, <2>3, InsideRows
<1>6. Unsent'
      BY <1>2, <1>3, TheSame DEF CInv, Unsent, Keeps
<1>7. Disconnected'
      BY <1>2 DEF Disconnected
<1>8. Stages'
      BY <1>2 DEF CInv, Stages
<1>9. Joining'
      BY <1>2, <1>3, <1>4, JoiningStays
<1>10. Shown'
  <2>1. mem'.flow.step = "rows" => mem'.flow.own = OwnRows
        BY <1>2
  <2>2. \A k \in mem.flow.rows : k \in Own /\ k \notin OwnRows => project.journal[k].id \in past.ahead
        BY DEF CInv, Joining, Returns, Recognised, OwnRows
  <2>   QED
        BY <1>2, <1>3, <2>1, <2>2, TheSame DEF CInv, RowsThere, Shown
<1>   QED
      BY <1>2, <1>3, <1>4, <1>5, <1>6, <1>7, <1>8, <1>9, <1>10, SteppingKeeps

\* A row of this device's that is not known for one was lost by a crash (Shown).
LEMMA ApplyingKeeps == ASSUME CInv, ApplyRow PROVE CInv'
<1>   DEFINE k == Earliest(mem.flow.todo)
<1>1. Shaped /\ RowsThere /\ made \in Nat /\ made <= made
      BY DEF CInv, Shaped
<1>2. Applies(k)
      BY <1>1, ApplyRowNamed
<1>   HIDE DEF k
<1>3. /\ Inside /\ UNCHANGED made /\ at' \in FileName /\ past' \in Pasts
      /\ mem'.known = mem.known
      /\ mem'.log = mem.log /\ mem'.recorded = mem.recorded
      /\ mem'.clock = MergedClock(mem.clock, project.journal[k].clock)
      /\ mem'.applied = mem.applied /\ mem'.handlers = mem.handlers
      BY <1>2 DEF Applies
<1>4. /\ k \in mem.flow.todo /\ k \in DOMAIN project.journal /\ mem.flow.step = "rows"
      /\ mem'.flow.step = mem.flow.step /\ mem'.flow.asked = mem.flow.asked
      /\ mem'.flow.half = mem.flow.half /\ mem'.flow.settled = mem.flow.settled
      /\ mem'.flow.listing = mem.flow.listing /\ mem'.flow.rows = mem.flow.rows
      /\ mem'.flow.todo = mem.flow.todo \ {k}
      /\ mem'.flow.own = mem.flow.own /\ mem'.flow.join = mem.flow.join
      BY <1>2 DEF Applies
<1>5. \A n \in {1, 2} : /\ mem.recorded[n] <= mem.recorded[n] /\ mem.recorded[n] <= mem'.clock[n]
                        /\ mem.clock[n] <= mem'.clock[n]
  <2>1. /\ mem'.clock[1] = Larger(mem.clock[1], project.journal[k].clock[1])
        /\ mem'.clock[2] = Larger(mem.clock[2], project.journal[k].clock[2])
        BY <1>3 DEF MergedClock
  <2>2. \A n \in {1, 2} : mem.recorded[n] <= mem.clock[n]
        BY DEF CInv, Clocks
  <2>   QED
        BY <1>1, <1>4, <2>1, <2>2, ClockNamed DEF Larger
<1>6. Remembers
      BY <1>3, <1>5 DEF Remembers
<1>7. Shaped'
      BY <1>1, <1>3, InsideShaped
<1>8. Once' /\ Carried' /\ Clocks' /\ Recorded'
      BY <1>3, <1>6, <1>7, InsideStays
<1>9. RowsThere'
  <2>1. /\ mem'.applied \subseteq DOMAIN project.journal
        /\ \A n \in DOMAIN mem'.handlers : mem'.handlers[n].row \in DOMAIN project.journal
        BY <1>1, <1>3 DEF RowsThere
  <2>2. /\ mem'.flow.rows \subseteq DOMAIN project.journal
        /\ mem'.flow.todo \subseteq mem'.flow.rows
        /\ mem'.flow.rows # {} => mem'.flow.join = "joined"
        BY <1>1, <1>4 DEF RowsThere
  <2>3. mem'.flow.asked \subseteq 1..made'
        BY <1>1, <1>3, <1>4 DEF RowsThere
  <2>   QED
        BY <1>1, <1>3, <2>1, <2>2, <2>3, InsideRows
<1>10. Unsent' /\ Disconnected' /\ Stages'
      BY <1>3, <1>4, TheSame DEF CInv, Unsent, Disconnected, Stages
<1>11. Joining'
      BY <1>3, <1>4, <1>6, JoiningStays
<1>12. Shown'
      BY <1>3, <1>4, TheSame DEF CInv, Shown
<1>13. OwnNotTaken'
  <2>1. k \in Own /\ k \notin mem.flow.own => project.journal[k].id \in past.ahead
        BY <1>4 DEF CInv, Shown
  <2>2. past'.mistaken = past.mistaken \cup
           (IF project.journal[k].id # 0 /\ k \notin mem.flow.own THEN {project.journal[k].id} ELSE {})
        BY <1>2 DEF Applies
  <2>   QED
        BY <1>3, <1>4, <2>1, <2>2, TheSame DEF CInv, OwnNotTaken, Own
<1>   QED
      BY <1>7, <1>8, <1>9, <1>10, <1>11, <1>12, <1>13 DEF CInv

\* The end of the catch-up: all of the clock is recorded.
LEMMA EndingKeeps == ASSUME CInv, FlowEnds PROVE CInv'
<1>1. Shaped /\ RowsThere /\ made \in Nat /\ made <= made
      BY DEF CInv, Shaped
<1>2. /\ Inside /\ UNCHANGED <<at, made, past, down>>
      /\ mem.flow.step = "rows" /\ mem.flow.todo = {}
      /\ mem'.log = mem.log /\ mem'.clock = mem.clock /\ mem'.recorded = mem.clock
      /\ mem'.known = mem.known /\ mem'.applied \subseteq mem.applied
      /\ mem'.handlers = mem.handlers
      /\ mem'.flow.step = "live" /\ mem'.flow.asked = mem.flow.asked
      /\ mem'.flow.half = mem.flow.half /\ mem'.flow.settled = mem.flow.settled
      /\ mem'.flow.listing = mem.flow.listing /\ mem'.flow.rows = mem.flow.rows
      /\ mem'.flow.todo = mem.flow.todo /\ mem'.flow.join = mem.flow.join
      BY <1>1, FlowEndsNamed
<1>3. at' \in FileName /\ past' \in Pasts /\ past' = past
      BY <1>2 DEF CInv, Shaped
<1>4. Remembers
  <2>1. \A n \in {1, 2} : mem.recorded[n] <= mem.clock[n] /\ mem.clock[n] <= mem.clock[n]
        BY ClockNamed DEF CInv, Clocks
  <2>   QED
        BY <1>2, <2>1 DEF Remembers
<1>5. RowsThere'
  <2>1. /\ mem'.applied \subseteq DOMAIN project.journal
        /\ \A n \in DOMAIN mem'.handlers : mem'.handlers[n].row \in DOMAIN project.journal
        BY <1>1, <1>2 DEF RowsThere
  <2>2. /\ mem'.flow.rows \subseteq DOMAIN project.journal
        /\ mem'.flow.todo \subseteq mem'.flow.rows
        /\ mem'.flow.rows # {} => mem'.flow.join = "joined"
        BY <1>1, <1>2 DEF RowsThere
  <2>3. mem'.flow.asked \subseteq 1..made'
        BY <1>1, <1>2 DEF RowsThere
  <2>   QED
        BY <1>1, <1>2, <2>1, <2>2, <2>3, InsideRows
<1>6. Unsent' /\ Disconnected' /\ Stages' /\ Shown'
      BY <1>2, TheSame DEF CInv, Unsent, Disconnected, Stages, Shown
<1>7. Joining'
      BY <1>2, <1>4, JoiningStays
<1>   QED
      BY <1>2, <1>3, <1>4, <1>5, <1>6, <1>7, SteppingKeeps

-----------------------------------------------------------------------------
\* The clock the join is sent with: what has left the queue is within it, so it is not
\* returned, but for what a crash lost.
LEMMA JoiningKeeps == ASSUME CInv, Join PROVE CInv'
<1>1. Shaped /\ RowsThere /\ made \in Nat /\ up \in Seq(Requests) /\ mem \in Mems(made)
      BY MemNamed DEF CInv, Shaped
<1>2. Joins
      BY <1>1, JoinNamed
<1>   DEFINE p == [type |-> "join", clock |-> mem.clock]
<1>3. p \in Requests /\ p.type = "join" /\ p.clock = mem.clock
      BY <1>1 DEF Requests, Mems
<1>   HIDE DEF p
<1>4. /\ up' = Append(up, p) /\ UNCHANGED <<at, file, project, down, made, past>>
      /\ mem' \in Mems(made)
      BY <1>2 DEF Joins, p
<1>5. up' \in Seq(Requests)
      BY <1>1, <1>3, <1>4
<1>6. \A n \in DOMAIN up' : \/ n \in DOMAIN up /\ up'[n] = up[n]
                            \/ n = Len(up) + 1 /\ up'[n] = p
      BY <1>1, <1>3, <1>4
<1>7. /\ Own' = Own /\ \A x : Landed(x)' <=> Landed(x)
      BY <1>4 DEF Own, Landed
<1>8. /\ mem'.log = mem.log /\ mem'.clock = mem.clock /\ mem'.recorded = mem.recorded
      /\ mem'.known = mem.known /\ mem'.applied = mem.applied
      /\ mem'.handlers = mem.handlers
      /\ mem.flow.step = "settle" /\ mem.flow.asked = {} /\ ~mem.flow.half
      /\ mem'.flow.step = "gather" /\ mem'.flow.asked = {} /\ mem'.flow.half = mem.flow.half
      /\ mem'.flow.rows = mem.flow.rows /\ mem'.flow.todo = mem.flow.todo
      /\ mem'.flow.join = mem.flow.join
      BY <1>2 DEF Joins, Keeps, CInv, Stages
<1>9. Shaped'
      BY <1>1, <1>4, <1>5 DEF Shaped, MemTypeOK, FileTypeOK, ProjectTypeOK
<1>10. RowsThere'
      BY <1>1, <1>3, <1>4, <1>6, <1>8 DEF RowsThere
<1>11. \A n \in Sent' : n \in Sent /\ up'[n] = up[n]
      BY <1>3, <1>6 DEF Sent
<1>12. Once'
      BY <1>4, <1>7, <1>11 DEF CInv, Once
<1>13. Carried'
  <2>   SUFFICES ASSUME NEW n \in Sent'
                 PROVE  /\ up'[n].id \in DOMAIN mem'.log /\ up'[n].id \in DOMAIN file'.log
                        /\ ~Landed(up'[n].id)
                        /\ mem'.log[up'[n].id].st \in {"sent", "resent"}
                        /\ up'[n].clock[2] <= mem'.clock[2]
        BY <1>4, <1>7 DEF Carried
  <2>   QED
        BY <1>4, <1>8, <1>11 DEF CInv, Carried
<1>14. Unsent' /\ Disconnected' /\ Stages' /\ Shown' /\ OwnNotTaken'
      BY <1>4, <1>7, <1>8 DEF CInv, Unsent, Disconnected, Stages, Shown, OwnNotTaken
<1>15. Clocks' /\ Recorded'
      BY <1>4, <1>7, <1>8 DEF CInv, Clocks, Recorded, Within
<1>16. UpTo(mem.clock)
  <2>   SUFFICES ASSUME NEW k \in Own, project.journal[k].id \notin DOMAIN mem.log,
                        project.journal[k].id \notin past.ahead
                 PROVE  \A n \in {1, 2} : project.journal[k].clock[n] <= mem.clock[n]
        BY DEF UpTo, Recognised
  <2>1. /\ project.journal[k].clock[1] <= mem.recorded[1]
        /\ project.journal[k].clock[2] <= mem.recorded[2]
        BY DEF CInv, Recorded, Within
  <2>2. mem.recorded[1] <= mem.clock[1] /\ mem.recorded[2] <= mem.clock[2]
        BY DEF CInv, Clocks
  <2>   QED
        BY <1>1, <2>1, <2>2, ClockNamed DEF Own
<1>17. Joining'
  <2>1. \A id : Recognised(id)' <=> Recognised(id)
        BY <1>4, <1>8 DEF Recognised
  <2>2. \A n \in DOMAIN up' : up'[n].type = "join" => UpTo(up'[n].clock)
        BY <1>3, <1>6, <1>16 DEF CInv, Joining
  <2>3. \A n \in DOMAIN up' : up'[n].type = "join" =>
         \A k \in Own : \/ Recognised(project.journal[k].id)'
                        \/ \A c \in {1, 2} : project.journal[k].clock[c] <= up'[n].clock[c]
        BY <1>4, <2>1, <2>2 DEF UpTo
  <2>4. project.join # <<>> =>
         \A k \in Own : \/ Recognised(project.journal[k].id)'
                        \/ \A c \in {1, 2} : project.journal[k].clock[c] <= project.join[c]
        BY <1>4, <2>1 DEF CInv, Joining, UpTo
  <2>5. \A n \in DOMAIN down : down[n].type = "joined" =>
         \A k \in down[n].rows : k \in Own => Recognised(project.journal[k].id)'
        BY <1>4, <2>1 DEF CInv, Joining, Returns
  <2>6. \A k \in mem.flow.rows : k \in Own => Recognised(project.journal[k].id)'
        BY <1>4, <2>1 DEF CInv, Joining, Returns
  <2>   QED
        BY <1>4, <1>7, <1>8, <2>3, <2>4, <2>5, <2>6 DEF Joining, Returns, UpTo
<1>   QED
      BY <1>9, <1>10, <1>12, <1>13, <1>14, <1>15, <1>17 DEF CInv

\* state.json gets the log and the recorded clock at once.
LEMMA WritingKeeps == ASSUME CInv, Write PROVE CInv'
<1>1. Shaped /\ at \in FileName
      BY DEF CInv, Shaped
<1>2. file' = Document(mem, at) /\ UNCHANGED <<at, mem, project, up, down, made, past>>
      BY DEF Write
<1>3. IsDocument(file', mem)
      BY <1>1, <1>2, DocumentNamed
<1>4. Shaped'
      BY <1>1, <1>2, <1>3 DEF Shaped, IsDocument, MemTypeOK, FileTypeOK, ProjectTypeOK
<1>5. /\ Own' = Own /\ Sent' = Sent /\ \A x : Landed(x)' <=> Landed(x)
      BY <1>2 DEF Own, Sent, Landed
<1>6. RowsThere'
      BY <1>2, <1>3 DEF CInv, RowsThere, IsDocument
<1>7. Carried'
      BY <1>2, <1>3, <1>5 DEF CInv, Carried, IsDocument
<1>8. Clocks'
  <2>1. \A n \in {1, 2} : mem.recorded[n] <= mem.recorded[n]
        BY <1>1, ClockNamed
  <2>   QED
        BY <1>2, <1>3, <1>5, <2>1 DEF CInv, Clocks, IsDocument
<1>9. Recorded'
      BY <1>2, <1>3, <1>5 DEF CInv, Recorded, Within, IsDocument
<1>10. Once' /\ Unsent' /\ Disconnected' /\ Stages' /\ Shown' /\ OwnNotTaken'
      BY <1>2, <1>5 DEF CInv, Once, Unsent, Disconnected, Stages, Shown, OwnNotTaken
<1>11. Joining'
      BY <1>2, <1>5 DEF CInv, Joining, UpTo, Returns, Recognised
<1>   QED
      BY <1>4, <1>6, <1>7, <1>8, <1>9, <1>10, <1>11 DEF CInv

-----------------------------------------------------------------------------
\* What is known has a row; what a write has queued.
Noted ==
    /\ \A i \in mem.known : Landed(i)
    /\ \A i \in DOMAIN file.log : file.log[i].st = "queued"

\* The journal is one row longer.
Grows(row) ==
    /\ Len(project.journal) + 1 \in DOMAIN project'.journal
    /\ Len(project.journal) + 1 \notin DOMAIN project.journal
    /\ project'.journal[Len(project.journal) + 1] = row
    /\ \A k \in DOMAIN project.journal : k \in DOMAIN project'.journal /\ project'.journal[k] = project.journal[k]
    /\ \A k \in DOMAIN project'.journal : k \in DOMAIN project.journal \/ k = Len(project.journal) + 1
    /\ Own' = Own \cup (IF row.id = 0 THEN {} ELSE {Len(project.journal) + 1})
    /\ \A x : Landed(x)' <=> Landed(x) \/ x = row.id

\* A row appended leaves the others where they were.
LEMMA GrowsNamed ==
    ASSUME Shaped, NEW row \in Rows, project'.journal = Append(project.journal, row)
    PROVE  Grows(row)
<1>1. project.journal \in Seq(Rows)
      BY DEF Shaped, ProjectTypeOK
<1>2. /\ Len(project.journal) + 1 \in DOMAIN project'.journal
      /\ Len(project.journal) + 1 \notin DOMAIN project.journal
      /\ project'.journal[Len(project.journal) + 1] = row
      /\ \A k \in DOMAIN project.journal : k \in DOMAIN project'.journal /\ project'.journal[k] = project.journal[k]
      /\ \A k \in DOMAIN project'.journal : k \in DOMAIN project.journal \/ k = Len(project.journal) + 1
      BY <1>1
<1>3. Own' = Own \cup (IF row.id = 0 THEN {} ELSE {Len(project.journal) + 1})
      BY <1>2 DEF Own
<1>4. \A x : Landed(x)' <=> Landed(x) \/ x = row.id
      BY <1>2 DEF Landed
<1>   QED
      BY <1>2, <1>3, <1>4 DEF Grows

\* The first packet is gone.
LEMMA HeadGone ==
    ASSUME Shaped, up # <<>>, up' = Tail(up)
    PROVE  /\ up' \in Seq(Requests) /\ 1 \in DOMAIN up /\ up[1] = Head(up)
           /\ \A n \in DOMAIN up' : n + 1 \in DOMAIN up /\ n \in Nat \ {0} /\ up'[n] = up[n + 1]
BY DEF Shaped

\* An operation gets its row: the device still has it queued, in memory and in state.json.
LEMMA LandingKeeps == ASSUME CInv, Noted, ServerApplies PROVE CInv'
<1>   DEFINE p == Head(up)
             new == Len(project.journal) + 1
<1>1. Shaped /\ RowsThere /\ made \in Nat /\ up \in Seq(Requests) /\ down \in Seq(Answers)
      BY DEF CInv, Shaped
<1>2. up # <<>> /\ p.type = "op" /\ up' = Tail(up)
      BY DEF ServerApplies
<1>3. up' \in Seq(Requests) /\ 1 \in DOMAIN up /\ up[1] = p
      BY <1>1, <1>2, HeadGone
<1>4. \A n \in DOMAIN up' : n + 1 \in DOMAIN up /\ n \in Nat \ {0} /\ up'[n] = up[n + 1]
      BY <1>1, <1>2, HeadGone
<1>5. 1 \in Sent
      BY <1>2, <1>3 DEF Sent
<1>6. /\ p.id \in DOMAIN mem.log /\ p.id \in DOMAIN file.log /\ ~Landed(p.id)
      /\ p.id \in 1..made
      /\ mem.log[p.id].st \in {"sent", "resent"} /\ p.clock[2] <= mem.clock[2]
      BY <1>2, <1>3, <1>5 DEF CInv, Carried, RowsThere
<1>7. Lands(p)
      BY <1>1, <1>6, ServerAppliesNamed
<1>8. PICK row \in Rows : /\ project'.journal = Append(project.journal, row)
                          /\ row.id = p.id
                          /\ row.clock = <<p.clock[1] + 1, p.clock[2]>>
      BY <1>7 DEF Lands
<1>9. Grows(row)
      BY <1>1, <1>8, GrowsNamed
<1>10. /\ UNCHANGED <<at, mem, file, made, past>>
       /\ ProjectTypeOK' /\ down' \in Seq(Answers)
       /\ project'.join = project.join
       /\ down' = Append(down, [type |-> "ack", row |-> new])
      BY <1>7 DEF Lands
<1>   HIDE DEF p
<1>11. /\ new \in DOMAIN project'.journal /\ new \notin DOMAIN project.journal
       /\ project'.journal[new] = row
       /\ Own' = Own \cup {new}
       /\ \A x : Landed(x)' <=> Landed(x) \/ x = p.id
      BY <1>1, <1>6, <1>8, <1>9 DEF Grows
<1>12. /\ \A k \in DOMAIN project.journal : k \in DOMAIN project'.journal /\ project'.journal[k] = project.journal[k]
       /\ \A k \in DOMAIN project'.journal : k \in DOMAIN project.journal \/ k = new
      BY <1>9 DEF Grows
<1>13. \A k \in Own : k \in DOMAIN project.journal /\ Landed(project.journal[k].id)
      BY DEF Own, Landed
<1>14. \A n \in DOMAIN down' : \/ n \in DOMAIN down /\ down'[n] = down[n]
                               \/ down'[n] = [type |-> "ack", row |-> new]
      BY <1>1, <1>10
<1>   HIDE DEF new
<1>15. Shaped'
      BY <1>1, <1>3, <1>10 DEF Shaped, MemTypeOK, FileTypeOK
<1>16. RowsThere'
  <2>1. /\ mem'.applied \subseteq DOMAIN project'.journal
        /\ file'.applied \subseteq DOMAIN project'.journal
        /\ mem'.flow.rows \subseteq DOMAIN project'.journal
        /\ \A n \in DOMAIN mem'.handlers : mem'.handlers[n].row \in DOMAIN project'.journal
        BY <1>1, <1>10, <1>12 DEF RowsThere
  <2>2. \A n \in DOMAIN down' :
          /\ down'[n].type \in {"ack", "renamed"} => down'[n].row \in DOMAIN project'.journal
          /\ down'[n].type = "joined" => down'[n].rows \subseteq DOMAIN project'.journal
        BY <1>1, <1>11, <1>12, <1>14 DEF RowsThere
  <2>3. \A k \in DOMAIN project'.journal : project'.journal[k].id <= made'
        BY <1>1, <1>6, <1>8, <1>10, <1>11, <1>12 DEF RowsThere
  <2>4. \A n \in DOMAIN up' : up'[n].type = "op" => up'[n].id \in 1..made'
        BY <1>1, <1>4, <1>10 DEF RowsThere
  <2>   QED
        BY <1>1, <1>10, <2>1, <2>2, <2>3, <2>4 DEF RowsThere
<1>17. Once'
  <2>1. \A j, k \in Own' : project'.journal[j].id = project'.journal[k].id => j = k
        BY <1>6, <1>8, <1>11, <1>12, <1>13 DEF CInv, Once
  <2>2. \A m, n \in Sent' : up'[m].id = up'[n].id => m = n
    <3>1. \A n \in Sent' : n + 1 \in Sent /\ up'[n] = up[n + 1] /\ n \in Nat
          BY <1>4 DEF Sent
    <3>2. \A m, n \in Sent' : up'[m].id = up'[n].id => m + 1 = n + 1
          BY <3>1 DEF CInv, Once
    <3>   QED
          BY <3>1, <3>2
  <2>   QED
        BY <2>1, <2>2 DEF Once
<1>18. Carried'
  <2>   SUFFICES ASSUME NEW n \in Sent'
                 PROVE  /\ up'[n].id \in DOMAIN mem'.log /\ up'[n].id \in DOMAIN file'.log
                        /\ ~(Landed(up'[n].id) \/ up'[n].id = p.id)
                        /\ mem'.log[up'[n].id].st \in {"sent", "resent"}
                        /\ up'[n].clock[2] <= mem'.clock[2]
        BY <1>11 DEF Carried
  <2>1. n + 1 \in Sent /\ up'[n] = up[n + 1] /\ n + 1 # 1
        BY <1>4 DEF Sent
  <2>2. up[n + 1].id # p.id
        BY <1>3, <1>5, <2>1 DEF CInv, Once
  <2>   QED
        BY <1>10, <2>1, <2>2 DEF CInv, Carried
<1>19. Unsent' /\ Disconnected' /\ Stages'
      BY <1>2, <1>6, <1>10, <1>11 DEF CInv, Unsent, Disconnected, Stages
<1>20. Clocks'
      BY <1>6, <1>8, <1>10, <1>11, <1>12, <1>13 DEF CInv, Clocks
<1>21. Recorded'
  <2>1. p.id \notin mem.known
        BY <1>6 DEF Noted
  <2>   QED
        BY <1>6, <1>8, <1>10, <1>11, <1>12, <1>13, <2>1 DEF CInv, Recorded, Within
<1>22. Joining'
  <2>1. \A id : Recognised(id)' <=> Recognised(id)
        BY <1>10 DEF Recognised
  <2>2. \A k \in Own' : (k \in Own /\ project'.journal[k] = project.journal[k]) \/ Recognised(project'.journal[k].id)
        BY <1>6, <1>8, <1>11, <1>12, <1>13 DEF Recognised
  <2>3. \A rows : Returns(rows) => \A k \in rows : k \in Own' => Recognised(project'.journal[k].id)
        BY <2>2 DEF Returns
  <2>4. \A c : UpTo(c) => \A k \in Own' : \/ Recognised(project'.journal[k].id)
                                          \/ \A n \in {1, 2} : project'.journal[k].clock[n] <= c[n]
        BY <2>2 DEF UpTo
  <2>5. \A n \in DOMAIN up' : up'[n].type = "join" => UpTo(up'[n].clock)
        BY <1>4 DEF CInv, Joining
  <2>6. \A n \in DOMAIN down' : down'[n].type = "joined" => Returns(down'[n].rows)
        BY <1>14 DEF CInv, Joining
  <2>7. (project.join # <<>> => UpTo(project.join)) /\ Returns(mem.flow.rows)
        BY DEF CInv, Joining
  <2>   QED
        BY <1>10, <2>1, <2>3, <2>4, <2>5, <2>6, <2>7 DEF Joining, Returns, UpTo
<1>23. Shown' /\ OwnNotTaken'
  <2>1. \A k \in mem.flow.todo : k \in Own' => k \in Own /\ project'.journal[k] = project.journal[k]
        BY <1>1, <1>11, <1>12 DEF RowsThere
  <2>   QED
        BY <1>10, <2>1 DEF CInv, Shown, OwnNotTaken
<1>   QED
      BY <1>15, <1>16, <1>17, <1>18, <1>19, <1>20, <1>21, <1>22, <1>23 DEF CInv

\* The server takes the join in, or answers it: with what the clock has not seen.
LEMMA TakingInKeeps == ASSUME CInv, ServerTakesIn PROVE CInv'
<1>1. Shaped /\ RowsThere
      BY DEF CInv
<1>2. /\ up # <<>> /\ Head(up).type = "join" /\ up' = Tail(up)
      /\ UNCHANGED <<at, mem, file, down, made, past>>
      /\ ProjectTypeOK' /\ up' \in Seq(Requests)
      /\ project'.journal = project.journal /\ project'.join = Head(up).clock
      BY <1>1, ServerTakesInNamed
<1>3. /\ 1 \in DOMAIN up /\ up[1] = Head(up)
      /\ \A n \in DOMAIN up' : n + 1 \in DOMAIN up /\ n \in Nat \ {0} /\ up'[n] = up[n + 1]
      BY <1>1, <1>2, HeadGone
<1>4. /\ Own' = Own /\ \A x : Landed(x)' <=> Landed(x)
      BY <1>2 DEF Own, Landed
<1>5. \A n \in Sent' : n + 1 \in Sent /\ up'[n] = up[n + 1] /\ n \in Nat
      BY <1>3 DEF Sent
<1>6. Shaped'
      BY <1>1, <1>2 DEF Shaped, MemTypeOK, FileTypeOK
<1>7. RowsThere'
      BY <1>1, <1>2, <1>3 DEF RowsThere
<1>8. Once'
  <2>1. \A m, n \in Sent' : up'[m].id = up'[n].id => m + 1 = n + 1
        BY <1>5 DEF CInv, Once
  <2>2. \A m, n \in Sent' : up'[m].id = up'[n].id => m = n
        BY <1>5, <2>1
  <2>3. \A j, k \in Own' : project'.journal[j].id = project'.journal[k].id => j = k
        BY <1>2, <1>4 DEF CInv, Once
  <2>   QED
        BY <2>2, <2>3 DEF Once
<1>9. Carried'
  <2>   SUFFICES ASSUME NEW n \in Sent'
                 PROVE  /\ up'[n].id \in DOMAIN mem'.log /\ up'[n].id \in DOMAIN file'.log
                        /\ ~Landed(up'[n].id)
                        /\ mem'.log[up'[n].id].st \in {"sent", "resent"}
                        /\ up'[n].clock[2] <= mem'.clock[2]
        BY <1>4 DEF Carried
  <2>   QED
        BY <1>2, <1>5 DEF CInv, Carried
<1>10. Unsent' /\ Disconnected' /\ Stages' /\ Shown' /\ OwnNotTaken'
      BY <1>2, <1>4 DEF CInv, Unsent, Disconnected, Stages, Shown, OwnNotTaken
<1>11. Clocks' /\ Recorded'
      BY <1>2, <1>4 DEF CInv, Clocks, Recorded, Within
<1>12. Joining'
  <2>1. \A id : Recognised(id)' <=> Recognised(id)
        BY <1>2 DEF Recognised
  <2>2. /\ UpTo(Head(up).clock)
        /\ \A n \in DOMAIN up' : up'[n].type = "join" => UpTo(up'[n].clock)
        BY <1>2, <1>3 DEF CInv, Joining
  <2>3. \A c : UpTo(c) => \A k \in Own : \/ Recognised(project'.journal[k].id)
                                         \/ \A n \in {1, 2} : project'.journal[k].clock[n] <= c[n]
        BY <1>2, <2>1 DEF UpTo
  <2>   QED
        BY <1>2, <1>4, <2>1, <2>2, <2>3 DEF CInv, Joining, UpTo, Returns
<1>   QED
      BY <1>6, <1>7, <1>8, <1>9, <1>10, <1>11, <1>12 DEF CInv

\* What the server returns to a join is recognised: it is beyond the clock the join
\* was sent with, and this device knows what of its own is.
LEMMA AnsweringKeeps == ASSUME CInv, ServerAnswersJoin PROVE CInv'
<1>1. Shaped /\ RowsThere /\ down \in Seq(Answers) /\ project.join \in Clock \cup {<<>>}
      BY DEF CInv, Shaped, ProjectTypeOK
<1>2. /\ UNCHANGED <<at, mem, file, up, made, past>>
      /\ ProjectTypeOK' /\ down' \in Seq(Answers)
      /\ project.join # <<>> /\ project'.join = <<>> /\ project'.journal = project.journal
      BY <1>1, ServerAnswersJoinNamed
<1>3. PICK d \in Answers : /\ down' = Append(down, d) /\ d.type \in {"joined", "refused"}
                           /\ d.type = "joined" => d.rows \subseteq Unseen(project.join)
      BY <1>1, ServerAnswersJoinNamed
<1>4. \A n \in DOMAIN down' : \/ n \in DOMAIN down /\ down'[n] = down[n]
                              \/ down'[n] = d
      BY <1>1, <1>3
<1>5. /\ Own' = Own /\ Sent' = Sent /\ \A x : Landed(x)' <=> Landed(x)
      BY <1>2 DEF Own, Sent, Landed
<1>6. Shaped'
      BY <1>1, <1>2 DEF Shaped, MemTypeOK, FileTypeOK
<1>7. RowsThere'
  <2>1. d.type = "joined" => d.rows \subseteq DOMAIN project.journal
        BY <1>3 DEF Unseen
  <2>   QED
        BY <1>1, <1>2, <1>3, <1>4, <2>1 DEF RowsThere
<1>8. Once' /\ Carried' /\ Unsent' /\ Stages' /\ Shown' /\ OwnNotTaken'
      BY <1>2, <1>5 DEF CInv, Once, Carried, Unsent, Stages, Shown, OwnNotTaken
<1>9. Disconnected'
      BY <1>2 DEF CInv, Disconnected
<1>10. Clocks' /\ Recorded'
      BY <1>2, <1>5 DEF CInv, Clocks, Recorded, Within
<1>11. d.type = "joined" => Returns(d.rows)
  <2>   SUFFICES ASSUME NEW k \in Own, k \in Unseen(project.join)
                 PROVE  Recognised(project.journal[k].id)
        BY <1>3 DEF Returns
  <2>1. UpTo(project.join)
        BY <1>2 DEF CInv, Joining
  <2>2. PICK n \in {1, 2} : project.journal[k].clock[n] > project.join[n]
        BY DEF Unseen
  <2>3. project.join[1] \in Nat /\ project.join[2] \in Nat
        BY <1>1, <1>2 DEF Clock
  <2>4. ~(project.journal[k].clock[n] <= project.join[n])
        BY <1>1, <2>2, <2>3, ClockNamed DEF Own
  <2>   QED
        BY <2>1, <2>4 DEF UpTo
<1>12. Joining'
  <2>1. \A id : Recognised(id)' <=> Recognised(id)
        BY <1>2 DEF Recognised
  <2>2. \A n \in DOMAIN down' : down'[n].type = "joined" => Returns(down'[n].rows)
        BY <1>4, <1>11 DEF CInv, Joining
  <2>3. \A rows : Returns(rows) => \A k \in rows : k \in Own => Recognised(project'.journal[k].id)
        BY <1>2, <2>1 DEF Returns
  <2>4. \A c : UpTo(c) => \A k \in Own : \/ Recognised(project'.journal[k].id)
                                         \/ \A n \in {1, 2} : project'.journal[k].clock[n] <= c[n]
        BY <1>2, <2>1 DEF UpTo
  <2>   QED
        BY <1>2, <1>5, <2>1, <2>2, <2>3, <2>4 DEF CInv, Joining, UpTo, Returns
<1>   QED
      BY <1>6, <1>7, <1>8, <1>9, <1>10, <1>12 DEF CInv

\* A teammate's row is none of this device's.
LEMMA TeammateKeeps == ASSUME CInv, TeammateRenames PROVE CInv'
<1>   DEFINE new == Len(project.journal) + 1
<1>1. Shaped /\ RowsThere /\ made \in Nat /\ down \in Seq(Answers) /\ mem.log \in Logs(made)
      BY MemNamed DEF CInv, Shaped
<1>2. /\ UNCHANGED <<at, mem, file, up, made, past>>
      /\ ProjectTypeOK' /\ down' \in Seq(Answers)
      /\ project'.join = project.join /\ project'.room = project.room
      BY <1>1, TeammateRenamesNamed
<1>3. \/ down' = down
      \/ project.room /\ down' = Append(down, [type |-> "renamed", row |-> new])
      BY <1>1, TeammateRenamesNamed
<1>4. PICK row \in Rows : project'.journal = Append(project.journal, row) /\ row.id = 0
      BY <1>1, TeammateRenamesNamed
<1>5. Grows(row)
      BY <1>1, <1>4, GrowsNamed
<1>6. /\ new \in DOMAIN project'.journal /\ project'.journal[new] = row
      /\ \A k \in DOMAIN project.journal : k \in DOMAIN project'.journal /\ project'.journal[k] = project.journal[k]
      /\ \A k \in DOMAIN project'.journal : k \in DOMAIN project.journal \/ k = new
      BY <1>5 DEF Grows
<1>7. /\ Own' = Own /\ \A x : Landed(x)' <=> Landed(x) \/ x = 0
      BY <1>4, <1>5 DEF Grows
<1>8. /\ Sent' = Sent
      /\ \A k \in Own : k \in DOMAIN project.journal /\ project'.journal[k] = project.journal[k]
      BY <1>2, <1>6 DEF Sent, Own
<1>9. \A n \in DOMAIN down' : \/ n \in DOMAIN down /\ down'[n] = down[n]
                              \/ project.room /\ down'[n] = [type |-> "renamed", row |-> new]
      BY <1>1, <1>3
<1>10. 0 \notin DOMAIN mem.log /\ \A n \in Sent : up[n].id # 0
  <2>1. DOMAIN mem.log \subseteq 1..made
        BY <1>1, LogNamed
  <2>   QED
        BY <1>1, <2>1 DEF RowsThere, Sent
<1>   HIDE DEF new
<1>11. Shaped'
      BY <1>1, <1>2 DEF Shaped, MemTypeOK, FileTypeOK
<1>12. RowsThere'
  <2>1. /\ mem'.applied \subseteq DOMAIN project'.journal
        /\ file'.applied \subseteq DOMAIN project'.journal
        /\ mem'.flow.rows \subseteq DOMAIN project'.journal
        /\ \A n \in DOMAIN mem'.handlers : mem'.handlers[n].row \in DOMAIN project'.journal
        BY <1>1, <1>2, <1>6 DEF RowsThere
  <2>2. \A n \in DOMAIN down' :
          /\ down'[n].type \in {"ack", "renamed"} => down'[n].row \in DOMAIN project'.journal
          /\ down'[n].type = "joined" => down'[n].rows \subseteq DOMAIN project'.journal
        BY <1>1, <1>6, <1>9 DEF RowsThere
  <2>3. \A k \in DOMAIN project'.journal : project'.journal[k].id <= made'
        BY <1>1, <1>2, <1>4, <1>6 DEF RowsThere
  <2>   QED
        BY <1>1, <1>2, <2>1, <2>2, <2>3 DEF RowsThere
<1>13. Once' /\ Clocks' /\ Recorded'
      BY <1>2, <1>7, <1>8 DEF CInv, Once, Clocks, Recorded, Within
<1>14. Carried' /\ Unsent'
      BY <1>2, <1>7, <1>8, <1>10 DEF CInv, Carried, Unsent
<1>15. Disconnected'
      BY <1>2, <1>3 DEF CInv, Disconnected
<1>16. Stages' /\ OwnNotTaken'
      BY <1>2, <1>7 DEF CInv, Stages, OwnNotTaken
<1>17. Shown'
      BY <1>2, <1>7, <1>8 DEF CInv, Shown
<1>18. Joining'
  <2>1. \A id : Recognised(id)' <=> Recognised(id)
        BY <1>2 DEF Recognised
  <2>2. \A n \in DOMAIN down' : down'[n].type = "joined" => Returns(down'[n].rows)
        BY <1>9 DEF CInv, Joining
  <2>3. \A rows : Returns(rows) => \A k \in rows : k \in Own => Recognised(project'.journal[k].id)
        BY <1>8 DEF Returns
  <2>4. \A c : UpTo(c) => \A k \in Own : \/ Recognised(project'.journal[k].id)
                                         \/ \A n \in {1, 2} : project'.journal[k].clock[n] <= c[n]
        BY <1>8 DEF UpTo
  <2>5. /\ \A n \in DOMAIN up : up[n].type = "join" => UpTo(up[n].clock)
        /\ project.join # <<>> => UpTo(project.join)
        /\ Returns(mem.flow.rows)
        BY DEF CInv, Joining
  <2>   QED
        BY <1>2, <1>7, <2>1, <2>2, <2>3, <2>4, <2>5 DEF Joining, UpTo, Returns
<1>   QED
      BY <1>11, <1>12, <1>13, <1>14, <1>15, <1>16, <1>17, <1>18 DEF CInv

-----------------------------------------------------------------------------
\* The connection goes with everything on it.
LEMMA DropKeeps == ASSUME CInv, Drops PROVE CInv'
<1>1. Shaped /\ RowsThere
      BY DEF CInv
<1>2. /\ DropsAll /\ Disconnects /\ ProjectTypeOK' /\ up' \in Seq(Requests)
      /\ down' \in Seq(Answers)
      BY <1>1, DropsNamed
<1>3. /\ up' = <<>> /\ down' = <<>> /\ project'.journal = project.journal
      /\ ~project'.room /\ project'.join = <<>>
      BY <1>2 DEF Disconnects
<1>4. /\ UNCHANGED <<at, file, made, past>>
      /\ mem' \in Mems(made) /\ DOMAIN mem'.log = DOMAIN mem.log
      /\ \A i \in DOMAIN mem.log :
            \/ mem'.log[i] = mem.log[i] /\ mem.log[i].st \notin {"sent", "resent"}
            \/ mem'.log[i].st = "queued" /\ mem.log[i].st \in {"sent", "resent"}
      /\ mem'.clock = mem.clock /\ mem'.recorded = mem.recorded /\ mem'.known = mem.known
      /\ mem'.applied = mem.applied /\ mem'.handlers = mem.handlers
      BY <1>2 DEF DropsAll
<1>5. /\ mem'.flow.step = "off" /\ mem'.flow.asked = {} /\ ~mem'.flow.half
      /\ ~mem'.flow.settled
      /\ mem'.flow.listing = "none" /\ mem'.flow.rows = {} /\ mem'.flow.todo = {}
      BY <1>2 DEF DropsAll, NoFlow
<1>6. /\ Own' = Own /\ Sent' = {} /\ \A x : Landed(x)' <=> Landed(x)
      BY <1>3 DEF Own, Landed, Sent
<1>7. Shaped'
      BY <1>1, <1>2, <1>4 DEF Shaped, MemTypeOK, FileTypeOK
<1>8. RowsThere'
      BY <1>1, <1>3, <1>4, <1>5 DEF RowsThere
<1>9. Once' /\ Carried'
      BY <1>3, <1>6 DEF CInv, Once, Carried
<1>10. Unsent'
      BY <1>4, <1>5, <1>6 DEF CInv, Unsent
<1>11. Disconnected' /\ Stages' /\ Shown'
      BY <1>3, <1>5 DEF Disconnected, Stages, Shown
<1>12. Clocks' /\ Recorded' /\ OwnNotTaken'
      BY <1>3, <1>4, <1>6 DEF CInv, Clocks, Recorded, Within, OwnNotTaken
<1>13. Joining'
      BY <1>3, <1>5 DEF Joining, Returns
<1>   QED
      BY <1>7, <1>8, <1>9, <1>10, <1>11, <1>12, <1>13 DEF CInv

\* What state.json lacks of the teammate's counters, the operations in it went out with:
\* those are ahead.  Any other is still in it, or within its clock.
LEMMA CrashKeeps == ASSUME CInv, Noted, Crash PROVE CInv'
<1>   DEFINE new == {i \in DOMAIN file.log :
                        Landed(i) /\ project.journal[RowOf(i)].clock[2] > file.clock[2]}
<1>1. Shaped /\ RowsThere
      BY DEF CInv
<1>2. /\ CrashesTo /\ Disconnects /\ ProjectTypeOK' /\ up' \in Seq(Requests)
      /\ down' \in Seq(Answers)
      BY <1>1, CrashNamed
<1>3. /\ up' = <<>> /\ down' = <<>> /\ project'.journal = project.journal
      /\ ~project'.room /\ project'.join = <<>>
      BY <1>2 DEF Disconnects
<1>4. /\ UNCHANGED <<at, file, made>> /\ mem' \in Mems(made) /\ mem'.log = file.log
      /\ mem'.clock = file.clock /\ mem'.recorded = file.clock
      /\ mem'.known = {} /\ mem'.applied = file.applied /\ mem'.handlers = <<>>
      /\ past' \in Pasts /\ past'.mistaken = past.mistaken
      /\ past'.ahead = past.ahead \cup new
      BY <1>2 DEF CrashesTo
<1>5. /\ mem'.flow.step = "off" /\ mem'.flow.asked = {} /\ ~mem'.flow.half
      /\ ~mem'.flow.settled
      /\ mem'.flow.listing = "none" /\ mem'.flow.rows = {} /\ mem'.flow.todo = {}
      BY <1>2 DEF CrashesTo, NoFlow
<1>6. /\ Own' = Own /\ Sent' = {} /\ \A x : Landed(x)' <=> Landed(x)
      BY <1>3 DEF Own, Landed, Sent
<1>7. \A k \in Own : project.journal[k].clock[2] <= file.clock[2] \/ project.journal[k].id \in past'.ahead
  <2>   SUFFICES ASSUME NEW k \in Own
                 PROVE  project.journal[k].clock[2] <= file.clock[2] \/ project.journal[k].id \in past'.ahead
        OBVIOUS
  <2>   DEFINE id == project.journal[k].id
  <2>1. CASE id \notin DOMAIN file.log
        BY <1>4, <2>1 DEF CInv, Recorded, Within
  <2>2. CASE id \in DOMAIN file.log
    <3>1. Landed(id) /\ id # 0
          BY DEF Own, Landed
    <3>2. RowOf(id) \in DOMAIN project.journal /\ project.journal[RowOf(id)].id = id
          BY <3>1, RowOfNamed
    <3>3. RowOf(id) = k
          BY <3>1, <3>2 DEF CInv, Once, Own
    <3>4. project.journal[k].clock[2] \in Nat /\ file.clock[2] \in Nat
          BY <1>1, ClockNamed DEF Own
    <3>5. project.journal[k].clock[2] > file.clock[2] => id \in new
          BY <2>2, <3>1, <3>3
    <3>   HIDE DEF new
    <3>   QED
          BY <1>4, <3>4, <3>5
  <2>   QED
        BY <2>1, <2>2
<1>8. past.ahead \subseteq past'.ahead
      BY <1>4
<1>   HIDE DEF new
<1>9. Shaped'
      BY <1>1, <1>2, <1>4 DEF Shaped, MemTypeOK, FileTypeOK
<1>10. RowsThere'
      BY <1>1, <1>3, <1>4, <1>5 DEF RowsThere
<1>11. Once' /\ Carried'
      BY <1>3, <1>6 DEF CInv, Once, Carried
<1>12. Unsent'
      BY <1>4, <1>5 DEF Noted, Unsent
<1>13. Disconnected' /\ Stages' /\ Shown'
      BY <1>3, <1>5 DEF Disconnected, Stages, Shown
<1>14. Clocks'
  <2>1. \A n \in {1, 2} : file.clock[n] <= file.clock[n]
        BY <1>1, ClockNamed
  <2>   QED
        BY <1>3, <1>4, <1>6, <1>7, <2>1 DEF Clocks
<1>15. Recorded'
      BY <1>3, <1>4, <1>6, <1>8 DEF CInv, Recorded, Within
<1>16. OwnNotTaken'
      BY <1>4, <1>8 DEF CInv, OwnNotTaken
<1>17. Joining'
      BY <1>3, <1>5 DEF Joining, Returns
<1>   QED
      BY <1>9, <1>10, <1>11, <1>12, <1>13, <1>14, <1>15, <1>16, <1>17 DEF CInv

\* Nothing happens.
LEMMA StutterKeeps == ASSUME CInv, UNCHANGED cvars PROVE CInv'
<1>1. UNCHANGED <<at, mem, file, project, up, down, made, past>>
      BY DEF cvars
<1>2. /\ Own' = Own /\ Sent' = Sent /\ \A x : Landed(x)' <=> Landed(x)
      BY <1>1 DEF Own, Landed, Sent
<1>3. Shaped' /\ RowsThere'
      BY <1>1 DEF CInv, Shaped, MemTypeOK, FileTypeOK, ProjectTypeOK, RowsThere
<1>4. Once' /\ Carried' /\ Unsent' /\ Disconnected' /\ Stages' /\ Shown' /\ OwnNotTaken'
      BY <1>1, <1>2 DEF CInv, Once, Carried, Unsent, Disconnected, Stages, Shown,
                        OwnNotTaken
<1>5. Clocks' /\ Recorded'
      BY <1>1, <1>2 DEF CInv, Clocks, Recorded, Within
<1>6. Joining'
      BY <1>1, <1>2 DEF CInv, Joining, UpTo, Returns, Recognised
<1>   QED
      BY <1>3, <1>4, <1>5, <1>6 DEF CInv

-----------------------------------------------------------------------------
\* What is known anew is of a row.
Learns == \A i \in mem'.known : i \in mem.known \/ Landed(i)
Waiting == mem.flow.step = "gather" /\ mem.flow.join = "none"
Fresh == mem.flow.step \in {"ask", "settle"} => mem.flow.join = "none"

\* A step inside keeps the two, if the flow waits for a join that is out.
LEMMA InsideNotes ==
    ASSUME CInv, Noted, OneJoin, Inside, Learns, JoinOut /\ JoinOut' => Waiting', Fresh'
    PROVE  Noted' /\ OneJoin'
<1>1. project' = project /\ file' = file /\ up' = up /\ \A x : Landed(x)' <=> Landed(x)
      BY TheSame DEF Inside
<1>2. Noted'
      BY <1>1 DEF Noted, Learns
<1>3. \A n \in JoinsDown' : \E m \in JoinsDown : m = n \/ (m = n + 1 /\ down' = Tail(down))
  <2>1. down \in Seq(Answers)
        BY DEF CInv, Shaped
  <2>2. CASE down' = down
        BY <2>2 DEF JoinsDown
  <2>3. CASE down # <<>> /\ down' = Tail(down)
        BY <2>1, <2>3 DEF JoinsDown
  <2>   QED
        BY <2>2, <2>3 DEF Inside
<1>4. JoinsUp' = JoinsUp
      BY <1>1 DEF JoinsUp
<1>5. JoinOut' => JoinOut
      BY <1>1, <1>3, <1>4 DEF JoinOut
<1>6. \A m, n \in JoinsDown' : m = n
  <2>1. down \in Seq(Answers) /\ \A m, n \in JoinsDown : m = n
        BY DEF CInv, Shaped, OneJoin
  <2>2. CASE down' = down
        BY <2>1, <2>2 DEF JoinsDown
  <2>3. CASE down # <<>> /\ down' = Tail(down)
    <3>1. \A n \in JoinsDown' : n + 1 \in JoinsDown /\ n \in Nat
          BY <2>1, <2>3 DEF JoinsDown
    <3>2. \A m, n \in JoinsDown' : m + 1 = n + 1
          BY <2>1, <3>1
    <3>   QED
          BY <3>1, <3>2
  <2>   QED
        BY <2>2, <2>3 DEF Inside
<1>7. OneJoin'
      BY <1>1, <1>3, <1>4, <1>5, <1>6 DEF OneJoin, Waiting, Fresh
<1>   QED
      BY <1>2, <1>7

\* Where the flow stays, it waits as it did.
LEMMA StayingNotes ==
    ASSUME CInv, Noted, OneJoin, Inside, Learns,
           mem'.flow.step = mem.flow.step, mem'.flow.join = mem.flow.join
    PROVE  Noted' /\ OneJoin'
<1>1. (JoinOut /\ JoinOut' => Waiting') /\ Fresh'
      BY DEF OneJoin, Waiting, Fresh
<1>   QED
      BY <1>1, InsideNotes

\* What is settled has a row.
LEMMA SettlesLearns ==
    ASSUME NEW k \in DOMAIN project.journal,
           mem'.known = mem.known \cup {project.journal[k].id}
    PROVE  Learns
BY DEF Learns, Landed

\* The user's, the live renames and the listing.
LEMMA OthersNote ==
    ASSUME CInv, Noted, OneJoin,
           UserRenames \/ UserChanges \/ Renamed \/ MoveLive \/ ListingRead \/ Refresh \/ ApplyRow
    PROVE  Noted' /\ OneJoin'
<1>1. Shaped /\ RowsThere /\ at \in FileName
      BY DEF CInv, Shaped
<1>2. CASE UserRenames
  <2>1. PICK n \in FileName : Record("rename", n, QueuedMoves) /\ past' = past
        BY <1>2 DEF UserRenames
  <2>2. Records("rename", QueuedMoves)
        BY <1>1, <2>1, RecordNamed
  <2>   QED
        BY <2>1, <2>2, StayingNotes DEF Records, Inside, Learns
<1>3. CASE UserChanges
  <2>1. Record("change", at, {}) /\ past' = past
        BY <1>3 DEF UserChanges
  <2>2. Records("change", {})
        BY <1>1, <2>1, RecordNamed
  <2>   QED
        BY <2>1, <2>2, StayingNotes DEF Records, Inside, Learns
<1>4. CASE Renamed
  <2>1. Inside /\ Dwells /\ Keeps
        BY <1>1, <1>4, RenamedNamed
  <2>   QED
        BY <2>1, StayingNotes DEF Dwells, Keeps, Learns
<1>5. CASE MoveLive
  <2>1. Inside /\ Dwells /\ Keeps
        BY <1>1, <1>5, MoveLiveNamed
  <2>   QED
        BY <2>1, StayingNotes DEF Dwells, Keeps, Learns
<1>6. CASE ListingRead
  <2>1. FlowOnly /\ mem'.flow.step = mem.flow.step /\ mem'.flow.join = mem.flow.join
        BY <1>1, <1>6, ListingReadNamed
  <2>   QED
        BY <2>1, StayingNotes DEF FlowOnly, Keeps, Learns
<1>7. CASE Refresh
  <2>1. Refreshes
        BY <1>1, <1>7, RefreshNamed
  <2>   QED
        BY <2>1, StayingNotes DEF Refreshes, Learns
<1>8. CASE ApplyRow
  <2>1. Applies(Earliest(mem.flow.todo))
        BY <1>1, <1>8, ApplyRowNamed
  <2>2. /\ Inside /\ mem'.known = mem.known
        /\ mem'.flow.step = mem.flow.step /\ mem'.flow.join = mem.flow.join
        BY <2>1 DEF Applies
  <2>   QED
        BY <2>2, StayingNotes DEF Learns
<1>   QED
      BY <1>2, <1>3, <1>4, <1>5, <1>6, <1>7, <1>8

\* What is settled has a row.
LEMMA SettlersNote ==
    ASSUME CInv, Noted, OneJoin, Answered \/ AnswerRecorded \/ SettleLanded \/ LandedLeaves
    PROVE  Noted' /\ OneJoin'
<1>1. Shaped /\ RowsThere
      BY DEF CInv
<1>2. CASE Answered
  <2>1. /\ Inside /\ Dwells /\ down # <<>> /\ Head(down).type = "ack"
        /\ Settles(mem', Head(down).row) \/ mem'.known = mem.known
        BY <1>1, <1>2, AnsweredNamed DEF Keeps
  <2>2. Head(down).row \in DOMAIN project.journal
        BY <1>1, <2>1 DEF RowsThere, Shaped
  <2>3. Learns
        BY <2>1, <2>2, SettlesLearns DEF Settles, Learns
  <2>   QED
        BY <2>1, <2>3, StayingNotes DEF Dwells
<1>3. CASE AnswerRecorded
  <2>1. Inside /\ Dwells /\ \E k \in DOMAIN project.journal : Settles(mem', k)
        BY <1>1, <1>3, AnswerRecordedNamed DEF CInv, Unsent
  <2>2. Learns
        BY <2>1, SettlesLearns DEF Settles
  <2>   QED
        BY <2>1, <2>2, StayingNotes DEF Dwells
<1>4. CASE SettleLanded
  <2>1. \A i \in mem.flow.asked : Landed(i)
        BY <1>4 DEF CInv, Stages, SettleLanded
  <2>2. TakesIn(Earliest(mem.flow.asked), RowOf(Earliest(mem.flow.asked)))
        BY <1>1, <1>4, <2>1, SettleLandedNamed
  <2>3. Inside /\ AsksOn /\ Learns
        BY <2>2, SettlesLearns DEF TakesIn
  <2>   QED
        BY <2>3, StayingNotes DEF AsksOn
<1>5. CASE LandedLeaves
  <2>1. Leaves(Earliest(mem.flow.asked))
        BY <1>1, <1>5, LandedLeavesNamed
  <2>2. Inside /\ AsksOn /\ mem'.known = mem.known
        BY <2>1 DEF Leaves
  <2>   QED
        BY <2>2, StayingNotes DEF AsksOn, Learns
<1>   QED
      BY <1>2, <1>3, <1>4, <1>5

\* The flow goes on where no join is out, or takes its answer.
LEMMA FlowNotes ==
    ASSUME CInv, Noted, OneJoin,
           Connects \/ JoinAgain \/ StatusAnswered \/ Gather \/ FlowEnds \/ JoinAnswered
    PROVE  Noted' /\ OneJoin'
<1>1. Shaped /\ RowsThere /\ down \in Seq(Answers)
      BY DEF CInv, Shaped
<1>2. CASE Connects \/ JoinAgain
  <2>1. PICK retry \in BOOLEAN : mem' = FlowStarts(mem, retry)
        BY <1>2 DEF Connects, JoinAgain
  <2>2. Starts(IF retry THEN mem.known ELSE {})
        BY <1>1, <2>1, FlowStartsNamed
  <2>3. Inside /\ mem.flow.step \in {"off", "again"}
    <3>1. UNCHANGED <<at, file, project, up, down, made, past>> /\ mem.flow.step \in {"off",
                      "again"}
          BY <1>2 DEF Connects, JoinAgain
    <3>   QED
          BY <2>2, <3>1 DEF Starts, Inside
  <2>4. ~JoinOut /\ Fresh' /\ Learns
        BY <2>2, <2>3 DEF OneJoin, Starts, Fresh, Learns
  <2>   QED
        BY <2>3, <2>4, InsideNotes
<1>3. CASE StatusAnswered
  <2>1. /\ FlowOnly /\ mem.flow.step = "ask" /\ mem'.flow.step = "settle"
        /\ mem'.flow.join = mem.flow.join
        BY <1>1, <1>3, StatusAnsweredNamed
  <2>2. ~JoinOut /\ Fresh' /\ Learns /\ Inside
        BY <2>1 DEF OneJoin, Fresh, Learns, FlowOnly, Keeps
  <2>   QED
        BY <2>2, InsideNotes
<1>4. CASE Gather
  <2>1. /\ FlowOnly /\ mem'.flow.step \in {"again", "rows"} /\ mem.flow.join # "none"
        BY <1>1, <1>4, GatherNamed DEF Gather
  <2>2. ~JoinOut /\ Fresh' /\ Learns /\ Inside
        BY <2>1 DEF OneJoin, Fresh, Learns, FlowOnly, Keeps
  <2>   QED
        BY <2>2, InsideNotes
<1>5. CASE FlowEnds
  <2>1. /\ Inside /\ mem.flow.step = "rows" /\ mem'.known = mem.known
        /\ mem'.flow.step = "live"
        BY <1>1, <1>5, FlowEndsNamed
  <2>2. ~JoinOut /\ Fresh' /\ Learns
        BY <2>1 DEF OneJoin, Fresh, Learns
  <2>   QED
        BY <2>1, <2>2, InsideNotes
<1>6. CASE JoinAnswered
  <2>1. FlowOnly /\ down # <<>> /\ down' = Tail(down) /\ mem'.flow.step = mem.flow.step
        BY <1>1, <1>6, JoinAnsweredNamed
  <2>2. /\ Head(down).type \in {"joined", "refused"} /\ 1 \in DOMAIN down
        /\ down[1] = Head(down)
        BY <1>1, <1>6 DEF JoinAnswered
  <2>3. 1 \in JoinsDown
        BY <2>2 DEF JoinsDown
  <2>4. \A n \in DOMAIN down' : n + 1 \in DOMAIN down /\ n + 1 # 1 /\ down'[n] = down[n + 1]
        BY <1>1, <2>1
  <2>5. JoinsDown' = {}
        BY <2>3, <2>4 DEF JoinsDown, OneJoin
  <2>6. Inside /\ Learns /\ mem.flow.step = "gather"
        BY <2>1, <2>3 DEF FlowOnly, Keeps, Learns, OneJoin, JoinOut
  <2>7. ~JoinOut' /\ Fresh'
        BY <2>1, <2>3, <2>5, <2>6 DEF JoinOut, JoinsUp, OneJoin, Inside, Fresh
  <2>   QED
        BY <2>6, <2>7, InsideNotes
<1>   QED
      BY <1>2, <1>3, <1>4, <1>5, <1>6

\* One packet more up, of an operation: no join of it.
LEMMA EmitNotes ==
    ASSUME CInv, Noted, OneJoin, NEW i, NEW st, Emits(i, st),
           UNCHANGED <<file, project, down>>
    PROVE  Noted' /\ OneJoin'
<1>   DEFINE p == [type |-> "op", id |-> i, clock |-> mem'.clock]
<1>1. up \in Seq(Requests) /\ up' = Append(up, p) /\ p.type = "op"
      BY DEF CInv, Shaped, Emits
<1>   HIDE DEF p
<1>2. \A n \in DOMAIN up' : \/ n \in DOMAIN up /\ up'[n] = up[n]
                            \/ up'[n] = p
      BY <1>1
<1>3. \A n \in DOMAIN up : n \in DOMAIN up' /\ up'[n] = up[n]
      BY <1>1
<1>4. JoinsUp' = JoinsUp /\ JoinsDown' = JoinsDown
      BY <1>1, <1>2, <1>3 DEF JoinsUp, JoinsDown
<1>5. mem'.known = mem.known /\ mem'.flow = mem.flow
      BY DEF Emits
<1>   QED
      BY <1>4, <1>5 DEF Noted, OneJoin, JoinOut, Landed

\* What the device records and sends.
LEMMA SendersNote ==
    ASSUME CInv, Noted, OneJoin, Write \/ Send \/ Resend \/ Join
    PROVE  Noted' /\ OneJoin'
<1>1. Shaped /\ at \in FileName /\ up \in Seq(Requests)
      BY DEF CInv, Shaped
<1>2. CASE Write
  <2>1. file' = Document(mem, at) /\ UNCHANGED <<at, mem, project, up, down, made, past>>
        BY <1>2 DEF Write
  <2>2. IsDocument(file', mem)
        BY <1>1, <2>1, DocumentNamed
  <2>3. Noted'
        BY <2>1, <2>2 DEF Noted, Landed, IsDocument
  <2>4. OneJoin'
        BY <2>1 DEF OneJoin, JoinOut, JoinsUp, JoinsDown
  <2>   QED
        BY <2>3, <2>4
<1>3. CASE Send
  <2>1. PICK i \in DOMAIN mem.log :
           Emits(i, "sent") \/ (Inside /\ Dwells /\ mem'.known = mem.known)
        BY <1>1, <1>3, SendNamed
  <2>2. UNCHANGED <<file, project, down>>
        BY <1>3 DEF Send
  <2>3. CASE Emits(i, "sent")
        BY <2>2, <2>3, EmitNotes
  <2>4. CASE Inside /\ Dwells /\ mem'.known = mem.known
        BY <2>4, StayingNotes DEF Dwells, Learns
  <2>   QED
        BY <2>1, <2>3, <2>4
<1>4. CASE Resend
  <2>1. PICK i \in Ids(mem, {"queued"}) : Emit(i, "resent")
        BY <1>4 DEF Resend
  <2>2. i \in DOMAIN mem.log /\ UNCHANGED <<file, project, down>>
        BY <1>4 DEF Resend, Ids
  <2>3. Emits(i, "resent")
        BY <1>1, <2>1, <2>2, EmitNamed
  <2>   QED
        BY <2>2, <2>3, EmitNotes
<1>5. CASE Join
  <2>   DEFINE p == [type |-> "join", clock |-> mem.clock]
  <2>1. Joins
        BY <1>1, <1>5, JoinNamed
  <2>2. /\ UNCHANGED <<file, project, down>>
        /\ mem'.known = mem.known /\ mem.flow.step = "settle"
        /\ mem'.flow.step = "gather" /\ mem'.flow.join = mem.flow.join
        /\ up' = Append(up, p)
        BY <2>1 DEF Joins, Keeps
  <2>   HIDE DEF p
  <2>3. \A n \in DOMAIN up' : \/ n \in DOMAIN up /\ up'[n] = up[n]
                              \/ n = Len(up) + 1
        BY <1>1, <2>2
  <2>4. ~JoinOut /\ mem.flow.join = "none"
        BY <2>2 DEF OneJoin
  <2>5. (\A m, n \in JoinsUp' : m = n) /\ JoinsDown' = {}
        BY <2>2, <2>3, <2>4 DEF JoinOut, JoinsUp, JoinsDown
  <2>6. OneJoin'
        BY <2>2, <2>4, <2>5 DEF OneJoin, JoinOut
  <2>7. Noted'
        BY <2>2 DEF Noted, Landed
  <2>   QED
        BY <2>6, <2>7
<1>   QED
      BY <1>2, <1>3, <1>4, <1>5

\* The first packet gone, or another answer on its way.
LEMMA ServerNotes ==
    ASSUME CInv, Noted, OneJoin,
           ServerApplies \/ ServerTakesIn \/ ServerAnswersJoin \/ TeammateRenames
    PROVE  Noted' /\ OneJoin'
<1>1. Shaped /\ up \in Seq(Requests) /\ down \in Seq(Answers)
      BY DEF CInv, Shaped
<1>2. CASE ServerApplies
  <2>1. up # <<>> /\ Head(up).type = "op" /\ up' = Tail(up)
        BY <1>2 DEF ServerApplies
  <2>2. /\ 1 \in DOMAIN up /\ up[1] = Head(up)
        /\ \A n \in DOMAIN up' : n + 1 \in DOMAIN up /\ n \in Nat \ {0} /\ up'[n] = up[n + 1]
        BY <1>1, <2>1, HeadGone
  <2>3. Head(up).id \in DOMAIN mem.log
        BY <2>1, <2>2 DEF CInv, Carried, Sent
  <2>4. Lands(Head(up))
        BY <1>1, <1>2, <2>3, ServerAppliesNamed
  <2>5. PICK row \in Rows : project'.journal = Append(project.journal, row)
        BY <2>4 DEF Lands
  <2>6. \A x : Landed(x) => Landed(x)'
        BY <1>1, <2>5, GrowsNamed DEF Grows
  <2>   DEFINE ack == [type |-> "ack", row |-> Len(project.journal) + 1]
  <2>7. /\ UNCHANGED <<mem, file>> /\ project'.join = project.join
        /\ down' = Append(down, ack) /\ ack.type = "ack"
        BY <2>4 DEF Lands
  <2>   HIDE DEF ack
  <2>8. /\ \A n \in DOMAIN down' : \/ n \in DOMAIN down /\ down'[n] = down[n]
                                   \/ down'[n] = ack
        /\ \A n \in DOMAIN down : n \in DOMAIN down' /\ down'[n] = down[n]
        BY <1>1, <2>7
  <2>9. JoinsDown' = JoinsDown
        BY <2>7, <2>8 DEF JoinsDown
  <2>10. \A n \in JoinsUp' : n + 1 \in JoinsUp /\ n \in Nat
        BY <2>2 DEF JoinsUp
  <2>11. \A m, n \in JoinsUp' : m = n
    <3>1. \A m, n \in JoinsUp' : m + 1 = n + 1
          BY <2>10 DEF OneJoin
    <3>   QED
          BY <2>10, <3>1
  <2>12. Noted'
        BY <2>6, <2>7 DEF Noted
  <2>13. OneJoin'
        BY <2>7, <2>9, <2>10, <2>11 DEF OneJoin, JoinOut
  <2>   QED
        BY <2>12, <2>13
<1>3. CASE ServerTakesIn
  <2>1. /\ up # <<>> /\ Head(up).type = "join" /\ up' = Tail(up)
        /\ UNCHANGED <<mem, file, down>>
        /\ project'.journal = project.journal /\ project'.join = Head(up).clock
        BY <1>1, <1>3, ServerTakesInNamed
  <2>2. /\ 1 \in DOMAIN up /\ up[1] = Head(up)
        /\ \A n \in DOMAIN up' : n + 1 \in DOMAIN up /\ n \in Nat \ {0} /\ up'[n] = up[n + 1]
        BY <1>1, <2>1, HeadGone
  <2>3. 1 \in JoinsUp /\ \A n \in JoinsUp' : n + 1 \in JoinsUp /\ n + 1 # 1
        BY <2>1, <2>2 DEF JoinsUp
  <2>4. /\ JoinsUp' = {} /\ JoinsDown' = {} /\ mem.flow.step = "gather"
        /\ mem.flow.join = "none"
        BY <2>1, <2>3 DEF OneJoin, JoinOut, JoinsDown
  <2>5. OneJoin'
        BY <2>1, <2>4 DEF OneJoin
  <2>   QED
        BY <2>1, <2>5 DEF Noted, Landed
<1>4. CASE ServerAnswersJoin
  <2>1. /\ UNCHANGED <<mem, file, up>> /\ project.join # <<>> /\ project'.join = <<>>
        /\ project'.journal = project.journal
        /\ \E d \in Answers : down' = Append(down, d)
        BY <1>1, <1>4, ServerAnswersJoinNamed
  <2>2. PICK d \in Answers : down' = Append(down, d)
        BY <2>1
  <2>3. \A n \in DOMAIN down' : \/ n \in DOMAIN down /\ down'[n] = down[n]
                                \/ n = Len(down) + 1
        BY <1>1, <2>2
  <2>4. JoinsUp = {} /\ JoinsDown = {} /\ mem.flow.step = "gather" /\ mem.flow.join = "none"
        BY <2>1 DEF OneJoin, JoinOut
  <2>5. (\A m, n \in JoinsDown' : m = n) /\ JoinsUp' = {}
        BY <2>1, <2>3, <2>4 DEF JoinsDown, JoinsUp
  <2>6. OneJoin'
        BY <2>1, <2>4, <2>5 DEF OneJoin
  <2>   QED
        BY <2>1, <2>6 DEF Noted, Landed
<1>5. CASE TeammateRenames
  <2>   DEFINE news == [type |-> "renamed", row |-> Len(project.journal) + 1]
  <2>1. /\ UNCHANGED <<mem, file, up>> /\ project'.join = project.join
        /\ \E row \in Rows : project'.journal = Append(project.journal, row)
        /\ down' = down \/ down' = Append(down, news)
        BY <1>1, <1>5, TeammateRenamesNamed
  <2>2. \A x : Landed(x) => Landed(x)'
        BY <1>1, <2>1, GrowsNamed DEF Grows
  <2>3. news.type = "renamed"
        OBVIOUS
  <2>   HIDE DEF news
  <2>4. JoinsDown' = JoinsDown
    <3>1. CASE down' = down
          BY <3>1 DEF JoinsDown
    <3>2. CASE down' = Append(down, news)
      <4>1. /\ \A n \in DOMAIN down' : \/ n \in DOMAIN down /\ down'[n] = down[n]
                                       \/ down'[n] = news
            /\ \A n \in DOMAIN down : n \in DOMAIN down' /\ down'[n] = down[n]
            BY <1>1, <3>2
      <4>   QED
            BY <2>3, <4>1 DEF JoinsDown
    <3>   QED
          BY <2>1, <3>1, <3>2
  <2>5. OneJoin'
        BY <2>1, <2>4 DEF OneJoin, JoinOut, JoinsUp
  <2>   QED
        BY <2>1, <2>2, <2>5 DEF Noted
<1>   QED
      BY <1>2, <1>3, <1>4, <1>5

\* Nothing is out when the connection is gone.
LEMMA DroppedNotes ==
    ASSUME CInv, Noted, OneJoin, Drops \/ Crash
    PROVE  Noted' /\ OneJoin'
<1>1. Shaped
      BY DEF CInv
<1>2. /\ Disconnects /\ UNCHANGED file /\ mem'.known \subseteq mem.known
      /\ mem'.flow = NoFlow
  <2>1. CASE Drops
        BY <1>1, <2>1, DropsNamed DEF DropsAll
  <2>2. CASE Crash
        BY <1>1, <2>2, CrashNamed DEF CrashesTo
  <2>   QED
        BY <2>1, <2>2
<1>3. Noted'
      BY <1>2 DEF Noted, Landed, Disconnects
<1>4. OneJoin'
      BY <1>2 DEF OneJoin, JoinOut, JoinsUp, JoinsDown, Disconnects, NoFlow
<1>   QED
      BY <1>3, <1>4

-----------------------------------------------------------------------------
CatchUpInv == CInv /\ Noted /\ OneJoin

\* The invariant holds at first.
LEMMA AtFirst == CatchUpInit => CatchUpInv
<1>   SUFFICES ASSUME CatchUpInit PROVE CatchUpInv
      OBVIOUS
<1>1. First \in FileName
      BY CatchUpAssumption
<1>   DEFINE nothing == [log |-> <<>>, clock |-> <<0, 0>>, applied |-> {}, at |-> First]
<1>2. /\ at = First /\ mem = Started(nothing) /\ file = nothing
      /\ project = [at |-> First, journal |-> <<>>, room |-> FALSE, join |-> <<>>]
      /\ up = <<>> /\ down = <<>> /\ made = 0
      /\ past = [mistaken |-> {}, ahead |-> {}, undone |-> FALSE, replayed |-> FALSE,
                 outdated |-> FALSE, live |-> {}, seen |-> {}, count |-> 0]
      BY DEF CatchUpInit
<1>3. mem = [log |-> <<>>, clock |-> <<0, 0>>, recorded |-> <<0, 0>>, applied |-> {},
             known |-> {}, count |-> 0, handlers |-> <<>>, flow |-> NoFlow]
      BY <1>2 DEF Started
<1>4. <<>> \in Logs(0) /\ DOMAIN <<>> = {}
  <2>1. DOMAIN <<>> = {} /\ <<>> = [i \in DOMAIN <<>> |-> <<>>[i]]
        OBVIOUS
  <2>   QED
        BY <2>1, LogNamed
<1>5. <<0, 0>> \in Clock /\ <<>> \in Handlers
      BY DEF Clock, Handlers
<1>6. mem \in Mems(0)
      BY <1>3, <1>4, <1>5, NoFlowTyped DEF Mems
<1>7. file \in Files(0)
      BY <1>1, <1>2, <1>4, <1>5 DEF Files
<1>8. Shaped
  <2>1. ProjectTypeOK
        BY <1>1, <1>2 DEF ProjectTypeOK
  <2>2. past \in Pasts
        BY <1>2 DEF Pasts
  <2>3. up \in Seq(Requests) /\ down \in Seq(Answers)
        BY <1>2
  <2>   QED
        BY <1>1, <1>2, <1>6, <1>7, <2>1, <2>2, <2>3 DEF Shaped, MemTypeOK, FileTypeOK
<1>9. /\ mem.flow.step = "off" /\ mem.flow.asked = {} /\ ~mem.flow.half /\ ~mem.flow.settled
      /\ mem.flow.listing = "none" /\ mem.flow.rows = {} /\ mem.flow.todo = {}
      BY <1>3 DEF NoFlow
<1>10. /\ DOMAIN project.journal = {} /\ DOMAIN up = {} /\ DOMAIN down = {}
       /\ DOMAIN mem.log = {}
       /\ DOMAIN file.log = {} /\ DOMAIN mem.handlers = {}
  <2>1. mem.log = <<>> /\ mem.handlers = <<>>
        BY <1>3
  <2>2. file.log = <<>>
        BY <1>2
  <2>3. project.journal = <<>> /\ up = <<>> /\ down = <<>>
        BY <1>2
  <2>   QED
        BY <1>4, <2>1, <2>2, <2>3
<1>11. Own = {} /\ Sent = {}
      BY <1>10 DEF Own, Sent
<1>12. RowsThere
  <2>1. mem.applied = {}
        BY <1>3
  <2>2. file.applied = {}
        BY <1>2
  <2>   QED
        BY <1>9, <1>10, <2>1, <2>2 DEF RowsThere
<1>13. Once /\ Carried /\ Unsent /\ Disconnected /\ Stages /\ Recorded /\ Shown
      BY <1>2, <1>9, <1>10, <1>11 DEF Once, Carried, Unsent, Disconnected, Stages, Recorded,
                                      Shown
<1>14. Clocks
      BY <1>2, <1>3, <1>11 DEF Clocks
<1>15. Joining
      BY <1>2, <1>9, <1>10 DEF Joining, Returns
<1>16. OwnNotTaken
      BY <1>2 DEF OwnNotTaken
<1>17. Noted /\ OneJoin
  <2>1. mem.known = {}
        BY <1>3
  <2>2. project.join = <<>>
        BY <1>2
  <2>   QED
        BY <1>9, <1>10, <2>1, <2>2 DEF Noted, OneJoin, JoinOut, JoinsUp, JoinsDown
<1>   QED
      BY <1>8, <1>12, <1>13, <1>14, <1>15, <1>16, <1>17 DEF CatchUpInv, CInv

\* Every step keeps it.
LEMMA NextKeeps == CatchUpInv /\ [CatchUpNext]_cvars => CatchUpInv'
<1>   SUFFICES ASSUME CInv, Noted, OneJoin, [CatchUpNext]_cvars
               PROVE  CInv' /\ Noted' /\ OneJoin'
      BY DEF CatchUpInv
<1>1. CASE UserRenames \/ UserChanges
      BY <1>1, UserKeeps, OthersNote
<1>2. CASE Renamed \/ MoveLive
      BY <1>2, LiveKeeps, OthersNote
<1>3. CASE ListingRead \/ Refresh
      BY <1>3, ListingKeeps, OthersNote
<1>4. CASE ApplyRow
      BY <1>4, ApplyingKeeps, OthersNote
<1>5. CASE Write
      BY <1>5, WritingKeeps, SendersNote
<1>6. CASE Send \/ Resend
      BY <1>6, SendingKeeps, SendersNote
<1>7. CASE Join
      BY <1>7, JoiningKeeps, SendersNote
<1>8. CASE Answered \/ AnswerRecorded
      BY <1>8, AnswersKeep, SettlersNote
<1>9. CASE SettleLanded
      BY <1>9, SettlingKeeps, SettlersNote
<1>10. CASE LandedLeaves
      BY <1>10, LeavingKeeps, SettlersNote
<1>11. CASE ServerApplies
      BY <1>11, LandingKeeps, ServerNotes
<1>12. CASE ServerTakesIn
      BY <1>12, TakingInKeeps, ServerNotes
<1>13. CASE ServerAnswersJoin
      BY <1>13, AnsweringKeeps, ServerNotes
<1>14. CASE TeammateRenames
      BY <1>14, TeammateKeeps, ServerNotes
<1>15. CASE Connects \/ JoinAgain
      BY <1>15, StartingKeeps, FlowNotes
<1>16. CASE StatusAnswered
      BY <1>16, StatusKeeps, FlowNotes
<1>17. CASE Gather
      BY <1>17, GatherKeeps, FlowNotes
<1>18. CASE FlowEnds
      BY <1>18, EndingKeeps, FlowNotes
<1>19. CASE JoinAnswered
      BY <1>19, JoinedKeeps, FlowNotes
<1>20. CASE Drops
      BY <1>20, DropKeeps, DroppedNotes
<1>21. CASE Crash
      BY <1>21, CrashKeeps, DroppedNotes
<1>22. CASE UNCHANGED cvars
  <2>1. Noted' /\ OneJoin'
        BY <1>22 DEF cvars, Noted, Landed, OneJoin, JoinOut, JoinsUp, JoinsDown
  <2>   QED
        BY <1>22, <2>1, StutterKeeps
<1>   QED
      BY <1>1, <1>2, <1>3, <1>4, <1>5, <1>6, <1>7, <1>8, <1>9, <1>10, <1>11, <1>12, <1>13,
         <1>14,
         <1>15, <1>16, <1>17, <1>18, <1>19, <1>20, <1>21, <1>22 DEF CatchUpNext

-----------------------------------------------------------------------------
\* CatchUpInv holds in every state of every behaviour, for any names and allowances.
THEOREM CatchUpInvariant == CatchUpSpec => []CatchUpInv
BY AtFirst, NextKeeps, PTL DEF CatchUpSpec

\* No operation of this device's that a catch-up returns is applied as a teammate's,
\* but for one a crash left ahead of state.json (onSocketConnect, settleUnanswered,
\* ownRows).
THEOREM OwnNotTakenAlways == CatchUpSpec => []OwnNotTaken
<1>1. CatchUpInv => OwnNotTaken
      BY DEF CatchUpInv, CInv
<1>   QED
      BY <1>1, CatchUpInvariant, PTL

\* Types; and the clocks of state.json, of the log and in memory, each at least the
\* one before.
THEOREM CatchUpTypesAlways == CatchUpSpec => []CatchUpTypeOK
<1>1. CatchUpInv => CatchUpTypeOK
  <2>   SUFFICES ASSUME CInv PROVE CatchUpTypeOK
        BY DEF CatchUpInv
  <2>1. mem.log \in Logs(made) /\ made \in Nat /\ mem \in Mems(made)
        BY MemNamed DEF CInv
  <2>2. DOMAIN mem.log \subseteq 1..made
        BY <2>1, LogNamed
  <2>3. mem.flow.step \in {"off", "ask", "settle", "gather", "again", "rows", "live"}
        BY <2>1 DEF Mems, Flows
  <2>4. at \in FileName /\ file.at \in FileName /\ project.at \in FileName
        BY DEF CInv, Shaped, FileTypeOK, Files, ProjectTypeOK
  <2>   QED
        BY <2>2, <2>3, <2>4 DEF CInv, RowsThere, Clocks, CatchUpTypeOK
<1>   QED
      BY <1>1, CatchUpInvariant, PTL

-----------------------------------------------------------------------------
(***************************************************************************)
(* The second proof: a teammate's rename that the server had before one of *)
(* the user's is not applied after it (NothingUndone).                     *)
(*                                                                         *)
(* Three things move the file for a teammate, and for each the argument    *)
(* says why no rename of the user's can have come later.  A broadcast: a   *)
(* rename the server had after it is in the log still, as the answer comes *)
(* behind the broadcast (Ordered, Pending); so none is there when it is    *)
(* taken up, and the count tells of one made since (Held).  The listing:   *)
(* what was renamed before it was asked for is queued until the refresh    *)
(* looks (Plain, Asked).  A row of the catch-up: one that was applied live *)
(* is known as such, or a clock covers it and no catch-up returns it       *)
(* (Remembered); any other is of after the listing, and the count and the  *)
(* listing's refresh tell (Refreshed).  Broadcasts come between a join and *)
(* the next loss of the room only (Quiet): what is settled before a join   *)
(* has none on its way.                                                    *)
(***************************************************************************)

\* The user's renames in the journal.
OwnRenames == {j \in Own : project.journal[j].kind = "rename"}

\* The states of operations, by where the connect flow is.
Plain ==
    \A i \in DOMAIN mem.log :
        /\ mem.log[i].st = "answered" => mem.log[i].kind = "change"
        /\ mem.log[i].st = "resent" => mem.flow.step = "live"
        /\ mem.flow.step = "off" => mem.log[i].st # "sent"
        /\ mem.flow.step \in {"ask", "settle"} => mem.log[i].st \in {"queued", "answered"}

\* No broadcast is on its way before the device is in the room, or after it is out of it.
Mute ==
    \/ mem.flow.step \in {"off", "ask", "settle", "again"}
    \/ mem.flow.step = "gather" /\ mem.flow.join = "refused"
    \/ JoinsUp # {}
Silent == ~project.room /\ \A n \in DOMAIN down : down[n].type # "renamed"
Quiet ==
    /\ Mute => Silent
    /\ \A n \in DOMAIN down : down[n].type = "refused" =>
          ~project.room /\ \A m \in DOMAIN down : n < m => down[m].type # "renamed"
\* A broadcast is of a later row than the answers before it.
Ordered ==
    \A m, n \in DOMAIN down :
        m < n /\ down[m].type = "ack" /\ down[n].type = "renamed" => down[m].row < down[n].row
\* A rename that the server had after one whose broadcast is on its way is still in the log.
Pending ==
    \A n \in DOMAIN down : down[n].type = "renamed" =>
       \A j \in OwnRenames : j > down[n].row => project.journal[j].id \in Renames(mem)

\* Nothing was renamed here since the journal was k long.
Untouched(k) == Renames(mem) = {} /\ ~OwnAfter(k)
\* Nor for a broadcast being applied, if the count is what it was.
Held ==
    \A n \in DOMAIN mem.handlers :
        /\ mem.handlers[n].count <= mem.count
        /\ mem.handlers[n].count = mem.count => Untouched(mem.handlers[n].row)
\* Nor for the listing: what was renamed before is queued, until the refresh looks.
Asked ==
    mem.flow.listing \in {"asked", "read"} =>
        /\ mem.flow.renames <= mem.count
        /\ mem.flow.renames = mem.count => \A i \in Renames(mem) : mem.log[i].st = "queued"
        /\ mem.flow.renames = mem.count /\ mem.flow.listing = "read" => ~OwnAfter(mem.flow.read)
Refreshed ==
    /\ mem.flow.step = "rows" => mem.flow.listing = "done"
    /\ mem.flow.listing = "done" /\ mem.flow.step \in {"gather", "rows"} =>
        /\ past.count <= mem.count
        /\ ~mem.flow.here /\ past.count = mem.count => Untouched(mem.flow.read)

\* A catch-up from this clock does not return the row.
Covered(k, c) == \A n \in {1, 2} : project.journal[k].clock[n] <= c[n]
Below(c) == \A n \in {1, 2} : c[n] <= mem.clock[n]
\* What was applied live is known to have been, or a catch-up from this clock does not return it.
Told(c) == \A k \in past.live : k \in mem.applied \/ Covered(k, c)
Had(rows) == \A k \in past.live : k \in rows => k \in mem.applied
\* A catch-up that is whole has what was applied live before it, or the clock covers that.
Fills(rows, whole) ==
    whole => \A k \in mem.flow.before : k \in rows \/ Covered(k, mem.clock)
Remembered ==
    /\ past.live \subseteq DOMAIN project.journal
    /\ mem.flow.step \in {"gather", "rows"} => mem.flow.before \subseteq DOMAIN project.journal
    /\ Told(mem.clock)
    /\ \A n \in DOMAIN up : up[n].type = "join" => Told(up[n].clock) /\ Below(up[n].clock)
    /\ project.join # <<>> => Told(project.join) /\ Below(project.join)
    /\ \A n \in DOMAIN down :
          down[n].type = "joined" => Had(down[n].rows) /\ Fills(down[n].rows, down[n].whole)
    /\ mem.flow.step = "gather" /\ mem.flow.join = "joined" =>
          Had(mem.flow.rows) /\ mem.flow.todo = mem.flow.rows
    /\ mem.flow.step \in {"gather", "rows"} /\ mem.flow.join = "joined" =>
          Fills(mem.flow.rows, mem.flow.whole)
    /\ mem.flow.step = "rows" =>
          /\ mem.flow.join = "joined"
          /\ past.seen \cap mem.flow.rows \subseteq mem.flow.had
          /\ \A k \in mem.flow.rows \ mem.flow.todo : Covered(k, mem.clock)

UInv ==
    /\ Plain /\ Quiet /\ Ordered /\ Pending /\ Held /\ Asked /\ Refreshed /\ Remembered
    /\ NothingUndone

-----------------------------------------------------------------------------
(* What each action does, as far as CatchUpProofs does not say.            *)

\* The effect of recording an operation.
RecordsAlso(kind) ==
    /\ mem'.count = (IF kind = "rename" THEN mem.count + 1 ELSE mem.count)
    /\ mem'.log[made + 1].kind = kind /\ made + 1 \notin DOMAIN mem.log
    /\ ~CanSendLive => mem'.log[made + 1].st = "queued"

\* What Records does not say of an operation recorded.
LEMMA RecordAlso ==
    ASSUME Shaped, NEW kind, NEW to, NEW drops, Record(kind, to, drops)
    PROVE  RecordsAlso(kind)
<1>1. mem \in Mems(made) /\ made \in Nat /\ mem.log \in Logs(made)
      BY MemNamed
<1>2. made + 1 \notin DOMAIN mem.log
  <2>1. DOMAIN mem.log \subseteq 1..made
        BY <1>1, LogNamed
  <2>   QED
        BY <1>1, <2>1
<1>   DEFINE l == [i \in (DOMAIN mem.log \ (IF CanSendLive THEN drops ELSE {})) \cup {made + 1} |->
                     IF i = made + 1
                     THEN QueuedOp(kind, at, to, IF CanSendLive THEN "writing" ELSE "queued")
                     ELSE mem.log[i]]
             count == IF kind = "rename" THEN mem.count + 1 ELSE mem.count
<1>3. l[made + 1].kind = kind /\ (~CanSendLive => l[made + 1].st = "queued")
      BY DEF QueuedOp
<1>4. mem' = [mem EXCEPT !.log = l, !.count = count]
      BY <1>1 DEF Record, Mems
<1>   HIDE DEF l
<1>5. mem'.log = l /\ mem'.count = count
      BY <1>1, <1>4 DEF Mems
<1>   QED
      BY <1>2, <1>3, <1>5 DEF RecordsAlso

\* Steps that leave the flow and the count alone.
Steady == mem'.flow = mem.flow /\ mem'.count = mem.count
\* They are these.
LEMMA SteadySteps ==
    ASSUME Shaped, Send \/ Resend \/ Answered \/ Renamed \/ MoveLive
    PROVE  Steady
<1>1. mem \in Mems(made)
      BY MemNamed
<1>2. CASE Send
      BY <1>1, <1>2 DEF Send, Emit, Steady, Mems
<1>3. CASE Resend
      BY <1>1, <1>3 DEF Resend, Emit, Steady, Mems
<1>4. CASE Answered
      BY <1>1, <1>4 DEF Answered, Settle, PersistVectorClock, AdoptOwnCounter, Steady, Mems
<1>5. CASE Renamed
      BY <1>1, <1>5 DEF Renamed, Steady, Mems
<1>6. CASE MoveLive
      BY <1>1, <1>6 DEF MoveLive, Steady, Mems
<1>   QED
      BY <1>2, <1>3, <1>4, <1>5, <1>6

\* Only an operation of another file waits for what its answer brought.
LEMMA AnsweredChange ==
    ASSUME Shaped, Answered, NEW i \in DOMAIN mem.log, i \in DOMAIN mem'.log
    PROVE  mem'.log[i].kind = mem.log[i].kind
           /\ \/ mem'.log[i].st = mem.log[i].st
              \/ mem'.log[i].st = "answered" /\ mem.log[i].kind = "change"
<1>   DEFINE k == Head(down).row
             id == project.journal[k].id
<1>1. mem \in Mems(made) /\ mem.log \in Logs(made) /\ made \in Nat
      BY MemNamed
<1>2. mem.log[i] \in QueuedOps
      BY <1>1, LogNamed
<1>3. CASE mem' = [mem EXCEPT !.log[id].st = "answered"] /\ mem.log[id].kind = "change"
  <2>1. mem'.log = [mem.log EXCEPT ![id].st = "answered"]
        BY <1>1, <1>3 DEF Mems
  <2>   HIDE DEF id
  <2>2. CASE i = id
        BY <1>2, <1>3, <2>1, <2>2 DEF QueuedOps
  <2>3. CASE i # id
        BY <2>1, <2>3
  <2>   QED
        BY <2>2, <2>3
<1>4. CASE mem' = Settle(mem, k)
  <2>1. mem'.log = Without(mem.log, {id})
        BY <1>1, <1>4 DEF Settle, PersistVectorClock, AdoptOwnCounter, Mems
  <2>   DEFINE gone == {id}
  <2>0. mem'.log = Without(mem.log, gone)
        BY <2>1
  <2>   HIDE DEF gone
  <2>3. /\ DOMAIN Without(mem.log, gone) = DOMAIN mem.log \ gone
        /\ \A j \in DOMAIN mem.log \ gone : Without(mem.log, gone)[j] = mem.log[j]
        BY <1>1, WithoutNamed
  <2>   QED
        BY <2>0, <2>3
<1>   QED
      BY <1>3, <1>4 DEF Answered

\* What a broadcast taken up leaves.
LEMMA RenamedAlso ==
    ASSUME Shaped, Renamed
    PROVE  /\ Head(down).type = "renamed"
           /\ \/ /\ RenamePendingHere /\ mem'.handlers = mem.handlers
                 /\ mem'.applied = mem.applied \cup {Head(down).row}
              \/ /\ ~RenamePendingHere /\ mem'.applied = mem.applied
                 /\ mem'.handlers = Append(mem.handlers, [row |-> Head(down).row, count |-> mem.count])
<1>1. mem \in Mems(made)
      BY MemNamed
<1>   QED
      BY <1>1 DEF Renamed, Mems

\* What a rename applied live leaves.
LEMMA MoveLiveAlso ==
    ASSUME Shaped, MoveLive
    PROVE  LET h == Head(mem.handlers)
               moves == h.count = mem.count /\ project.journal[h.row].to # at
           IN /\ mem.handlers # <<>> /\ mem'.handlers = Tail(mem.handlers)
              /\ mem'.applied = mem.applied \cup {h.row}
              /\ past'.undone = (past.undone \/ (moves /\ Undoes(mem.log, h.row)))
              /\ past'.live = past.live \cup {h.row}
              /\ past'.seen = past.seen /\ past'.count = past.count
<1>1. mem \in Mems(made) /\ past \in Pasts
      BY MemNamed DEF Shaped
<1>   QED
      BY <1>1 DEF MoveLive, Mems, Pasts

\* What the connect flow's steps leave alone.
Passes ==
    /\ mem'.count = mem.count /\ mem'.flow.before = mem.flow.before
    /\ mem'.flow.renames = mem.flow.renames
    /\ mem'.flow.read = mem.flow.read /\ mem'.flow.here = mem.flow.here
Looks ==
    past'.undone = past.undone /\ past'.live = past.live

\* A connect flow that starts counts nothing.
LEMMA FlowStartsAlso ==
    ASSUME Shaped, NEW retry \in BOOLEAN, mem' = FlowStarts(mem, retry)
    PROVE  mem'.count = mem.count
<1>1. mem \in Mems(made)
      BY MemNamed
<1>   QED
      BY <1>1 DEF FlowStarts, Mems

\* Nor does what it asks first.
LEMMA AsksAlso ==
    ASSUME Shaped, StatusAnswered \/ SettleLanded \/ LandedLeaves
    PROVE  mem'.count = mem.count
<1>1. mem \in Mems(made)
      BY MemNamed
<1>2. CASE StatusAnswered \/ LandedLeaves
      BY <1>1, <1>2 DEF StatusAnswered, LandedLeaves, Mems
<1>3. CASE SettleLanded
  <2>   DEFINE m == Settle(mem, RowOf(Earliest(mem.flow.asked)))
  <2>1. m.count = mem.count
        BY <1>1 DEF Settle, PersistVectorClock, AdoptOwnCounter, Mems
  <2>   DEFINE done == [m EXCEPT !.flow.asked = @ \ {Earliest(mem.flow.asked)}]
  <2>2. done.count = m.count
        BY <1>1 DEF Settle, PersistVectorClock, AdoptOwnCounter, Mems
  <2>3. mem' = done \/ mem' = [done EXCEPT !.log = mem.log, !.flow.asked = mem.flow.asked,
                                           !.flow.half = TRUE]
        BY <1>3 DEF SettleLanded
  <2>   HIDE DEF done
  <2>4. [done EXCEPT !.log = mem.log, !.flow.asked = mem.flow.asked, !.flow.half = TRUE].count
           = done.count
        OBVIOUS
  <2>   QED
        BY <2>1, <2>2, <2>3, <2>4
<1>   QED
      BY <1>2, <1>3

\* What a join notes: what was applied live before it, and the count.
LEMMA JoinAlso ==
    ASSUME Shaped, Join
    PROVE  /\ mem'.count = mem.count /\ mem'.flow.renames = mem.count
           /\ mem'.flow.before = mem.applied /\ mem'.flow.listing = "asked"
<1>1. mem \in Mems(made) /\ mem.flow \in Flows
      BY MemNamed DEF Mems
<1>   QED
      BY <1>1 DEF Join, Mems, Flows

\* What the listing being read leaves.
LEMMA ListingReadAlso ==
    ASSUME Shaped, ListingRead
    PROVE  /\ mem'.count = mem.count /\ mem'.flow.renames = mem.flow.renames
           /\ mem'.flow.before = mem.flow.before /\ mem'.flow.whole = mem.flow.whole
           /\ mem'.flow.read = Len(project.journal)
           /\ past'.undone = past.undone /\ past'.live = past.live /\ past'.seen = past.seen
<1>1. mem \in Mems(made) /\ mem.flow \in Flows /\ past \in Pasts
      BY MemNamed DEF Mems, Shaped
<1>   QED
      BY <1>1 DEF ListingRead, Mems, Flows, Pasts

\* What refreshFileIndex leaves, and whether it undoes a rename.
LEMMA RefreshAlso ==
    ASSUME Shaped, Refresh
    PROVE  LET l == Collapsed(mem.log)
               here == \/ \E i \in DOMAIN l : l[i].kind = "rename" /\ l[i].st = "queued"
                       \/ mem.count # mem.flow.renames
               moves == ~here /\ mem.flow.listed # at
           IN /\ mem'.count = mem.count /\ mem'.flow.here = here
              /\ mem'.flow.before = mem.flow.before /\ mem'.flow.whole = mem.flow.whole
              /\ mem'.flow.read = mem.flow.read
              /\ past'.undone = (past.undone \/ (moves /\ Undoes(l, mem.flow.read)))
              /\ past'.live = past.live /\ past'.seen = past.seen /\ past'.count = mem.count
<1>   DEFINE l == Collapsed(mem.log)
             here == \/ \E i \in DOMAIN l : l[i].kind = "rename" /\ l[i].st = "queued"
                     \/ mem.count # mem.flow.renames
             moves == ~here /\ mem.flow.listed # at
             u == past.undone \/ (moves /\ Undoes(l, mem.flow.read))
<1>1. mem \in Mems(made) /\ mem.flow \in Flows /\ past \in Pasts
      BY MemNamed DEF Mems, Shaped
<1>2. mem' = [mem EXCEPT !.log = l, !.flow = [mem.flow EXCEPT !.listing = "done", !.here = here]]
      BY <1>1 DEF Refresh, Mems, Flows
<1>3. past'.undone = u /\ past'.live = past.live /\ past'.seen = past.seen /\ past'.count = mem.count
      BY <1>1 DEF Refresh, Pasts
<1>   HIDE DEF l, here
<1>4. /\ mem'.count = mem.count /\ mem'.flow.here = here
      /\ mem'.flow.before = mem.flow.before /\ mem'.flow.whole = mem.flow.whole
      /\ mem'.flow.read = mem.flow.read
      BY <1>1, <1>2 DEF Mems, Flows
<1>   QED
      BY <1>3, <1>4 DEF here, l

\* What the answer of a join leaves.
LEMMA JoinAnsweredAlso ==
    ASSUME Shaped, JoinAnswered
    PROVE  Passes /\ (Head(down).type = "joined" => mem'.flow.whole = Head(down).whole)
<1>1. mem \in Mems(made) /\ mem.flow \in Flows
      BY MemNamed DEF Mems
<1>   QED
      BY <1>1 DEF JoinAnswered, Passes, Mems, Flows

\* What is noted when both are there.
LEMMA GatherAlso ==
    ASSUME Shaped, Gather
    PROVE  /\ Passes /\ mem'.flow.whole = mem.flow.whole
           /\ past'.undone = past.undone /\ past'.live = past.live
           /\ past'.seen = past.live /\ past'.count = past.count
           /\ mem.flow.join \in {"joined", "refused"}
           /\ mem.flow.join = "refused" => mem'.flow.step = "again"
           /\ mem.flow.join = "joined" => mem'.flow.step = "rows" /\ mem'.flow.had = mem.applied
<1>1. mem \in Mems(made) /\ mem.flow \in Flows /\ past \in Pasts
      BY MemNamed DEF Mems, Shaped
<1>   QED
      BY <1>1 DEF Gather, Passes, Mems, Flows, Pasts

\* What a row of the catch-up leaves, and whether it undoes a rename.
LEMMA ApplyRowAlso ==
    ASSUME Shaped, ApplyRow
    PROVE  LET k == Earliest(mem.flow.todo)
               moves == k \notin mem.flow.own /\ ~Skipped(k)
           IN /\ Passes /\ mem'.flow.whole = mem.flow.whole /\ mem'.flow.had = mem.flow.had
              /\ past'.undone = (past.undone \/ (moves /\ ~Unguarded(k) /\ Undoes(mem.log, k)))
              /\ past'.live = past.live /\ past'.seen = past.seen /\ past'.count = past.count
<1>1. mem \in Mems(made) /\ mem.flow \in Flows /\ past \in Pasts
      BY MemNamed DEF Mems, Shaped
<1>   DEFINE k == Earliest(mem.flow.todo)
             moves == k \notin mem.flow.own /\ ~Skipped(k)
             u == past.undone \/ (moves /\ ~Unguarded(k) /\ Undoes(mem.log, k))
<1>2. /\ past'.undone = u
      /\ past'.live = past.live /\ past'.seen = past.seen /\ past'.count = past.count
      BY <1>1 DEF ApplyRow, Pasts
<1>3. Passes /\ mem'.flow.whole = mem.flow.whole /\ mem'.flow.had = mem.flow.had
      BY <1>1 DEF ApplyRow, Passes, Mems, Flows
<1>   QED
      BY <1>2, <1>3

\* What forgetAppliedLive leaves.
LEMMA FlowEndsAlso ==
    ASSUME Shaped, FlowEnds
    PROVE  mem'.count = mem.count /\ mem'.applied = mem.applied \ SeenNow
<1>1. mem \in Mems(made)
      BY MemNamed
<1>   QED
      BY <1>1 DEF FlowEnds, PersistVectorClock, Mems

\* What a connection that goes leaves.
LEMMA DropsAlso ==
    ASSUME Shaped, Drops
    PROVE  /\ mem'.count = mem.count
           /\ \A i \in DOMAIN mem.log : mem'.log[i].kind = mem.log[i].kind
<1>1. mem \in Mems(made) /\ mem.log \in Logs(made) /\ made \in Nat
      BY MemNamed
<1>2. \A i \in DOMAIN mem.log : mem.log[i] \in QueuedOps
      BY <1>1, LogNamed
<1>   QED
      BY <1>1, <1>2 DEF Drops, Mems, QueuedOps

\* What a crash leaves of what was applied live.
LEMMA CrashAlso ==
    ASSUME Shaped, Crash
    PROVE  past'.undone = past.undone /\ past'.live = file.applied
<1>1. past \in Pasts
      BY DEF Shaped
<1>   QED
      BY <1>1 DEF Crash, Pasts

\* The kind of an operation that landed.
LEMMA ServerAppliesAlso ==
    ASSUME Shaped, ServerApplies
    PROVE  project'.journal[Len(project.journal) + 1].kind = mem.log[Head(up).id].kind
<1>   DEFINE p == Head(up)
             op == mem.log[p.id]
             row == Row(p.id, op.kind, project.at, op.to, <<p.clock[1] + 1, p.clock[2]>>)
<1>1. /\ project \in [at : FileName, journal : Seq(Rows), room : BOOLEAN, join : Clock \cup {<<>>}]
      BY DEF Shaped, ProjectTypeOK
<1>2. project'.journal = Append(project.journal, row)
      BY <1>1 DEF ServerApplies
<1>3. row.kind = op.kind
      BY DEF Row
<1>   HIDE DEF row
<1>   QED
      BY <1>1, <1>2, <1>3

\* What the server answers a join: rows the join has not seen, all of them or not.
LEMMA AnswersJoinAlso ==
    ASSUME Shaped, ServerAnswersJoin
    PROVE  \E d \in Answers :
              /\ down' = Append(down, d)
              /\ \/ /\ d.type = "joined" /\ d.rows \subseteq Unseen(project.join)
                    /\ d.whole => d.rows = Unseen(project.join)
                 \/ d.type = "refused" /\ ~project'.room
<1>1. /\ project \in [at : FileName, journal : Seq(Rows), room : BOOLEAN, join : Clock \cup {<<>>}]
      BY DEF Shaped, ProjectTypeOK
<1>   DEFINE answer(rows) == [type |-> "joined", whole |-> rows = Unseen(project.join), rows |-> rows]
<1>2. \A rows : rows \subseteq Unseen(project.join) =>
         /\ answer(rows) \in Answers
         /\ answer(rows).type = "joined" /\ answer(rows).rows = rows
         /\ answer(rows).whole => rows = Unseen(project.join)
  <2>1. Unseen(project.join) \subseteq Nat
        BY <1>1 DEF Unseen
  <2>   QED
        BY <2>1 DEF Answers
<1>3. CASE \E rows \in {Unseen(project.join), Newest(Unseen(project.join))} :
              down' = Append(down, answer(rows))
  <2>1. PICK rows \in {Unseen(project.join), Newest(Unseen(project.join))} :
              down' = Append(down, answer(rows))
        BY <1>3
  <2>2. rows \subseteq Unseen(project.join)
        BY <2>1 DEF Newest
  <2>   HIDE DEF answer
  <2>   QED
        BY <1>2, <2>1, <2>2
<1>4. CASE /\ down' = Append(down, [type |-> "refused"])
           /\ project' = [project EXCEPT !.join = <<>>, !.room = FALSE]
  <2>1. [type |-> "refused"] \in Answers /\ [type |-> "refused"].type = "refused" /\ ~project'.room
        BY <1>1, <1>4 DEF Answers
  <2>   QED
        BY <1>4, <2>1
<1>   QED
      BY <1>3, <1>4 DEF ServerAnswersJoin

-----------------------------------------------------------------------------
(* The broadcasts on their way.                                            *)

Shrinks == down' = down \/ (down # <<>> /\ down' = Tail(down))

\* Where an answer was before the first one was taken.
LEMMA ShrinksNamed ==
    ASSUME Shaped, Shrinks
    PROVE  /\ \E s \in {0, 1} : /\ \A n \in DOMAIN down' :
                                      /\ n \in Nat /\ n + s \in DOMAIN down
                                      /\ down'[n] = down[n + s]
                                /\ down # <<>> /\ down' = Tail(down) => s = 1
           /\ down # <<>> => 1 \in DOMAIN down /\ down[1] = Head(down)
<1>1. down \in Seq(Answers)
      BY DEF Shaped
<1>2. down # <<>> => 1 \in DOMAIN down /\ down[1] = Head(down)
      BY <1>1
<1>3. CASE down # <<>> /\ down' = Tail(down)
  <2>1. \A n \in DOMAIN down' : n \in Nat /\ n + 1 \in DOMAIN down /\ down'[n] = down[n + 1]
        BY <1>1, <1>3
  <2>   QED
        BY <1>2, <2>1
<1>4. CASE down' = down /\ ~(down # <<>> /\ down' = Tail(down))
  <2>1. \A n \in DOMAIN down' : n \in Nat /\ n + 0 \in DOMAIN down /\ down'[n] = down[n + 0]
        BY <1>1, <1>4
  <2>   QED
        BY <1>2, <1>4, <2>1
<1>   QED
      BY <1>3, <1>4 DEF Shrinks

\* Where answers are after another one.
LEMMA DownMore ==
    ASSUME Shaped, NEW d, down' = Append(down, d)
    PROVE  /\ \A n \in DOMAIN down' : \/ n \in DOMAIN down /\ down'[n] = down[n]
                                      \/ n = Len(down) + 1 /\ down'[n] = d
           /\ Len(down) \in Nat
           /\ \A n \in DOMAIN down : n \in Nat /\ n <= Len(down)
<1>1. down \in Seq(Answers)
      BY DEF Shaped
<1>   QED
      BY <1>1

DeviceNext ==
    \/ UserRenames \/ UserChanges \/ Write \/ Send \/ Resend \/ Answered \/ AnswerRecorded
    \/ Renamed \/ MoveLive \/ Connects \/ StatusAnswered \/ SettleLanded \/ LandedLeaves
    \/ Join \/ ListingRead \/ Refresh \/ JoinAnswered \/ Gather \/ JoinAgain \/ ApplyRow \/ FlowEnds

\* What the device does is nothing the server sees but through the socket.
LEMMA DeviceSteps ==
    ASSUME DeviceNext
    PROVE  UNCHANGED project /\ Shrinks
<1>1. CASE UserRenames \/ UserChanges \/ Write \/ Send \/ Resend \/ Answered \/ AnswerRecorded
      BY <1>1 DEF UserRenames, UserChanges, Record, Write, Send, Resend, Answered, AnswerRecorded,
                  Shrinks
<1>2. CASE Renamed \/ MoveLive \/ Connects \/ StatusAnswered \/ SettleLanded \/ LandedLeaves
      BY <1>2 DEF Renamed, MoveLive, Connects, StatusAnswered, SettleLanded, LandedLeaves, Shrinks
<1>3. CASE \/ Join \/ ListingRead \/ Refresh \/ JoinAnswered \/ Gather \/ JoinAgain \/ ApplyRow
           \/ FlowEnds
      BY <1>3 DEF Join, ListingRead, Refresh, JoinAnswered, Gather, JoinAgain, ApplyRow, FlowEnds,
                  Shrinks
<1>   QED
      BY <1>1, <1>2, <1>3 DEF DeviceNext

\* The order of what is on its way stays, and a later row comes last.
LEMMA OrderedStays ==
    ASSUME CInv, Ordered, [CatchUpNext]_cvars
    PROVE  Ordered'
<1>1. Shaped /\ RowsThere /\ Carried
      BY DEF CInv
<1>2. CASE Shrinks
  <2>1. PICK s \in {0, 1} : \A n \in DOMAIN down' : /\ n \in Nat /\ n + s \in DOMAIN down
                                                    /\ down'[n] = down[n + s]
        BY <1>1, <1>2, ShrinksNamed
  <2>2. \A m, n \in DOMAIN down' : m < n => m + s < n + s
        BY <2>1
  <2>   QED
        BY <2>1, <2>2 DEF Ordered
<1>3. CASE \E d : /\ down' = Append(down, d)
                  /\ d.type = "renamed" => d.row = Len(project.journal) + 1
  <2>1. PICK d : /\ down' = Append(down, d)
                 /\ d.type = "renamed" => d.row = Len(project.journal) + 1
        BY <1>3
  <2>2. /\ \A n \in DOMAIN down' : \/ n \in DOMAIN down /\ down'[n] = down[n]
                                   \/ n = Len(down) + 1 /\ down'[n] = d
        /\ Len(down) \in Nat
        /\ \A n \in DOMAIN down : n \in Nat /\ n <= Len(down)
        BY <1>1, <2>1, DownMore
  <2>3. \A n \in DOMAIN down : down[n].type = "ack" => down[n].row < Len(project.journal) + 1
    <3>1. project.journal \in Seq(Rows)
          BY <1>1 DEF Shaped, ProjectTypeOK
    <3>   QED
          BY <1>1, <3>1 DEF RowsThere
  <2>   QED
        BY <2>1, <2>2, <2>3 DEF Ordered
<1>4. CASE down' = <<>>
      BY <1>4 DEF Ordered
<1>5. CASE DeviceNext \/ UNCHANGED cvars
      BY <1>2, <1>5, DeviceSteps DEF Shrinks, cvars
<1>6. CASE ServerApplies
  <2>1. down' = Append(down, [type |-> "ack", row |-> Len(project.journal) + 1])
        BY <1>6 DEF ServerApplies
  <2>   QED
        BY <1>3, <2>1
<1>7. CASE ServerTakesIn
      BY <1>2, <1>7 DEF ServerTakesIn, Shrinks
<1>8. CASE ServerAnswersJoin
  <2>1. \E d \in Answers : down' = Append(down, d) /\ d.type \in {"joined", "refused"}
        BY <1>1, <1>8, ServerAnswersJoinNamed
  <2>   QED
        BY <1>3, <2>1
<1>9. CASE TeammateRenames
  <2>1. \/ down' = down
        \/ down' = Append(down, [type |-> "renamed", row |-> Len(project.journal) + 1])
        BY <1>9 DEF TeammateRenames
  <2>   QED
        BY <1>2, <1>3, <2>1 DEF Shrinks
<1>10. CASE Drops \/ Crash
      BY <1>4, <1>10 DEF Drops, Crash
<1>   QED
      BY <1>5, <1>6, <1>7, <1>8, <1>9, <1>10 DEF CatchUpNext, DeviceNext

\* The user's steps record an operation.
LEMMA UserRecords ==
    ASSUME Shaped, UserRenames \/ UserChanges
    PROVE  /\ past' = past
           /\ \/ UserRenames /\ Records("rename", QueuedMoves) /\ RecordsAlso("rename")
              \/ UserChanges /\ Records("change", {}) /\ RecordsAlso("change")
<1>1. at \in FileName
      BY DEF Shaped
<1>2. CASE UserRenames
  <2>1. PICK n \in FileName : Record("rename", n, QueuedMoves)
        BY <1>2 DEF UserRenames
  <2>   QED
        BY <1>2, <2>1, RecordNamed, RecordAlso DEF UserRenames
<1>3. CASE UserChanges
  <2>1. Record("change", at, {})
        BY <1>3 DEF UserChanges
  <2>   QED
        BY <1>1, <1>3, <2>1, RecordNamed, RecordAlso DEF UserChanges
<1>   QED
      BY <1>2, <1>3

\* An operation sent.
LEMMA SendEmits ==
    ASSUME Shaped, Send \/ Resend
    PROVE  /\ UNCHANGED <<at, file, project, down, made, past>> /\ Steady
           /\ mem'.applied = mem.applied /\ mem'.handlers = mem.handlers
           /\ \E i \in DOMAIN mem.log :
                 \/ mem.log[i].st = "writing" /\ CanSendLive /\ Emits(i, "sent")
                 \/ /\ mem.log[i].st = "writing" /\ Becomes(mem'.log, mem.log, i, "queued")
                    /\ mem'.clock = mem.clock /\ up' = up
                 \/ mem.log[i].st = "queued" /\ mem.flow.step = "live" /\ Emits(i, "resent")
<1>1. Steady
      BY SteadySteps
<1>2. CASE Send
      BY <1>1, <1>2, SendNamed DEF Emits, Inside
<1>3. CASE Resend
  <2>1. PICK i \in Ids(mem, {"queued"}) : Emit(i, "resent")
        BY <1>3 DEF Resend
  <2>2. /\ i \in DOMAIN mem.log /\ mem.log[i].st = "queued" /\ mem.flow.step = "live"
        /\ UNCHANGED <<at, file, project, down, made, past>>
        BY <1>3, <2>1 DEF Resend, Ids
  <2>3. Emits(i, "resent")
        BY <2>1, <2>2, EmitNamed
  <2>   QED
        BY <1>1, <2>2, <2>3 DEF Emits
<1>   QED
      BY <1>2, <1>3

\* What the device's steps do to the flow and to what it sends.
LEMMA MuteStays ==
    ASSUME CInv, OneJoin, DeviceNext, Mute'
    PROVE  Mute \/ (JoinAnswered /\ Head(down).type = "refused")
<1>1. Shaped /\ RowsThere /\ up \in Seq(Requests)
      BY DEF CInv, Shaped
<1>2. CASE /\ mem'.flow.step = mem.flow.step /\ mem'.flow.join = mem.flow.join
           /\ JoinsUp' = JoinsUp
      BY <1>2 DEF Mute
<1>3. up' = up => JoinsUp' = JoinsUp
      BY DEF JoinsUp
<1>4. CASE UserRenames \/ UserChanges
      BY <1>1, <1>2, <1>3, <1>4, UserRecords DEF Records
<1>5. CASE Write
      BY <1>2, <1>3, <1>5 DEF Write
<1>6. CASE Send \/ Resend
  <2>1. /\ mem'.flow = mem.flow
        /\ \/ up' = up
           \/ \E p : up' = Append(up, p) /\ p.type = "op"
    <3>1. \A i : [type |-> "op", id |-> i, clock |-> mem'.clock].type = "op"
          OBVIOUS
    <3>   QED
          BY <1>1, <1>6, <3>1, SendEmits DEF Steady, Emits
  <2>2. CASE \E p : up' = Append(up, p) /\ p.type = "op"
    <3>1. PICK p : up' = Append(up, p) /\ p.type = "op"
          BY <2>2
    <3>2. /\ \A n \in DOMAIN up' : \/ n \in DOMAIN up /\ up'[n] = up[n]
                                   \/ up'[n] = p
          /\ \A n \in DOMAIN up : n \in DOMAIN up' /\ up'[n] = up[n]
          BY <1>1, <3>1
    <3>3. JoinsUp' = JoinsUp
          BY <3>1, <3>2 DEF JoinsUp
    <3>   QED
          BY <1>2, <2>1, <3>3
  <2>   QED
        BY <1>2, <1>3, <2>1, <2>2
<1>7. CASE Answered
      BY <1>1, <1>2, <1>3, <1>7, AnsweredNamed DEF Inside, Dwells
<1>8. CASE AnswerRecorded
      BY <1>1, <1>2, <1>3, <1>8, AnswerRecordedNamed DEF Inside, Dwells, CInv, Unsent
<1>9. CASE Renamed
      BY <1>1, <1>2, <1>3, <1>9, RenamedNamed DEF Inside, Dwells
<1>10. CASE MoveLive
      BY <1>1, <1>2, <1>3, <1>10, MoveLiveNamed DEF Inside, Dwells
<1>11. CASE Connects \/ JoinAgain
      BY <1>11 DEF Connects, JoinAgain, Mute
<1>12. CASE StatusAnswered
      BY <1>12 DEF StatusAnswered, Mute
<1>13. CASE SettleLanded \/ Join
      BY <1>13 DEF SettleLanded, Join, Mute
<1>14. CASE LandedLeaves
      BY <1>14 DEF LandedLeaves, Mute, CInv, Stages
<1>15. CASE ListingRead
      BY <1>1, <1>2, <1>3, <1>15, ListingReadNamed DEF FlowOnly, Inside
<1>16. CASE Refresh
      BY <1>1, <1>2, <1>3, <1>16, RefreshNamed DEF Refreshes, Inside
<1>17. CASE JoinAnswered /\ Head(down).type # "refused"
  <2>1. JoinsUp' = JoinsUp /\ mem'.flow.join # "refused" /\ mem'.flow.step = mem.flow.step
    <3>1. /\ FlowOnly /\ mem'.flow.step = mem.flow.step /\ mem'.flow.join \in {"joined", "refused"}
          /\ mem'.flow.join = "refused" => Head(down).type = "refused"
          BY <1>1, <1>17, JoinAnsweredNamed
    <3>   QED
          BY <1>3, <1>17, <3>1 DEF FlowOnly, Inside
  <2>   QED
        BY <2>1 DEF Mute
<1>18. CASE Gather
  <2>1. /\ JoinsUp' = JoinsUp /\ mem.flow.step = "gather" /\ mem.flow.join \in {"joined", "refused"}
        /\ mem.flow.join = "joined" => mem'.flow.step = "rows"
        BY <1>1, <1>3, <1>18, GatherNamed, GatherAlso DEF FlowOnly, Inside
  <2>   QED
        BY <2>1 DEF Mute
<1>19. CASE ApplyRow
  <2>1. Applies(Earliest(mem.flow.todo))
        BY <1>1, <1>19, ApplyRowNamed
  <2>   QED
        BY <1>2, <1>3, <2>1 DEF Applies, Inside
<1>20. CASE FlowEnds
  <2>1. mem'.flow.step = "live" /\ JoinsUp' = JoinsUp
        BY <1>1, <1>3, <1>20, FlowEndsNamed DEF Inside
  <2>   QED
        BY <2>1 DEF Mute
<1>   QED
      BY <1>4, <1>5, <1>6, <1>7, <1>8, <1>9, <1>10, <1>11, <1>12, <1>13, <1>14, <1>15, <1>16, <1>17,
         <1>18, <1>19, <1>20 DEF DeviceNext, JoinAnswered

\* The room is entered and left between two broadcasts, never with one on its way.
LEMMA QuietStays ==
    ASSUME CInv, OneJoin, Quiet, [CatchUpNext]_cvars
    PROVE  Quiet'
<1>1. Shaped /\ RowsThere /\ Carried
      BY DEF CInv
<1>2. CASE Shrinks /\ project'.room = project.room /\ (Mute' => Mute)
  <2>1. PICK s \in {0, 1} : \A n \in DOMAIN down' : /\ n \in Nat /\ n + s \in DOMAIN down
                                                    /\ down'[n] = down[n + s]
        BY <1>1, <1>2, ShrinksNamed
  <2>2. \A m, n \in DOMAIN down' : m < n => m + s < n + s
        BY <2>1
  <2>   QED
        BY <1>2, <2>1, <2>2 DEF Quiet, Silent
<1>3. CASE DeviceNext
  <2>1. project' = project /\ Shrinks
        BY <1>3, DeviceSteps
  <2>2. CASE JoinAnswered /\ Head(down).type = "refused"
    <3>1. down # <<>> /\ down' = Tail(down)
          BY <2>2 DEF JoinAnswered
    <3>2. \A n \in DOMAIN down' : n \in Nat \ {0} /\ n + 1 \in DOMAIN down /\ down'[n] = down[n + 1]
          BY <1>1, <3>1 DEF Shaped
    <3>3. 1 \in DOMAIN down /\ down[1].type = "refused"
          BY <1>1, <2>1, <2>2, <3>1, ShrinksNamed
    <3>4. ~project.room /\ \A n \in DOMAIN down' : down'[n].type # "renamed"
          BY <3>2, <3>3 DEF Quiet
    <3>   QED
          BY <2>1, <3>4 DEF Quiet, Silent
  <2>   QED
        BY <1>2, <1>3, <2>1, <2>2, MuteStays
<1>4. CASE UNCHANGED cvars
      BY <1>2, <1>4 DEF cvars, Shrinks, Mute, JoinsUp
<1>5. CASE ServerApplies
  <2>   DEFINE ack == [type |-> "ack", row |-> Len(project.journal) + 1]
  <2>1. /\ up # <<>> /\ up' = Tail(up) /\ mem' = mem /\ project'.room = project.room
        /\ down' = Append(down, ack) /\ ack.type = "ack"
        BY <1>1, <1>5 DEF ServerApplies, Shaped, ProjectTypeOK
  <2>   HIDE DEF ack
  <2>2. /\ \A n \in DOMAIN down' : \/ n \in DOMAIN down /\ down'[n] = down[n]
                                   \/ n = Len(down) + 1 /\ down'[n] = ack
        BY <1>1, <2>1, DownMore
  <2>3. JoinsUp' # {} => JoinsUp # {}
    <3>1. \A n \in DOMAIN up' : n + 1 \in DOMAIN up /\ up'[n] = up[n + 1]
          BY <1>1, <2>1, HeadGone
    <3>   QED
          BY <3>1 DEF JoinsUp
  <2>4. Mute' => Mute
        BY <2>1, <2>3 DEF Mute
  <2>   QED
        BY <2>1, <2>2, <2>4 DEF Quiet, Silent
<1>6. CASE ServerTakesIn
  <2>1. /\ up # <<>> /\ Head(up).type = "join" /\ up' = Tail(up) /\ mem' = mem /\ down' = down
        BY <1>6 DEF ServerTakesIn
  <2>2. /\ 1 \in DOMAIN up /\ up[1] = Head(up)
        /\ \A n \in DOMAIN up' : n + 1 \in DOMAIN up /\ n \in Nat \ {0} /\ up'[n] = up[n + 1]
        BY <1>1, <2>1, HeadGone
  <2>3. 1 \in JoinsUp /\ \A n \in JoinsUp' : n + 1 \in JoinsUp /\ n + 1 # 1
        BY <2>1, <2>2 DEF JoinsUp
  <2>4. /\ JoinsUp' = {} /\ JoinsDown = {} /\ mem.flow.step = "gather"
        /\ mem.flow.join = "none"
        BY <2>3 DEF OneJoin, JoinOut
  <2>5. ~Mute' /\ \A n \in DOMAIN down' : down'[n].type # "refused"
        BY <2>1, <2>4 DEF Mute, JoinsDown
  <2>   QED
        BY <2>5 DEF Quiet
<1>7. CASE ServerAnswersJoin
  <2>1. /\ UNCHANGED <<mem, file, up>> /\ project.join # <<>>
        /\ project'.room => project.room
        BY <1>1, <1>7, ServerAnswersJoinNamed
  <2>2. PICK d \in Answers : /\ down' = Append(down, d)
                             /\ \/ d.type = "joined"
                                \/ d.type = "refused" /\ ~project'.room
        BY <1>1, <1>7, AnswersJoinAlso
  <2>3. /\ \A n \in DOMAIN down' : \/ n \in DOMAIN down /\ down'[n] = down[n]
                                   \/ n = Len(down) + 1 /\ down'[n] = d
        /\ Len(down) \in Nat
        /\ \A n \in DOMAIN down : n \in Nat /\ n <= Len(down)
        BY <1>1, <2>2, DownMore
  <2>4. \A n \in DOMAIN down : down[n].type # "refused"
        BY <2>1 DEF OneJoin, JoinsDown
  <2>5. Mute' => Mute
        BY <2>1 DEF Mute, JoinsUp
  <2>6. Mute' => Silent'
        BY <2>1, <2>2, <2>3, <2>5 DEF Quiet, Silent
  <2>7. \A n \in DOMAIN down' : down'[n].type = "refused" =>
           ~project'.room /\ \A m \in DOMAIN down' : n < m => down'[m].type # "renamed"
        BY <2>2, <2>3, <2>4
  <2>   QED
        BY <2>6, <2>7 DEF Quiet
<1>8. CASE TeammateRenames
  <2>   DEFINE news == [type |-> "renamed", row |-> Len(project.journal) + 1]
  <2>1. /\ UNCHANGED <<mem, file, up>> /\ project'.room = project.room
        /\ \/ down' = down \/ (project.room /\ down' = Append(down, news))
        BY <1>1, <1>8, TeammateRenamesNamed
  <2>2. Mute' => Mute
        BY <2>1 DEF Mute, JoinsUp
  <2>3. CASE down' = down
        BY <1>2, <2>1, <2>2, <2>3 DEF Shrinks
  <2>4. CASE project.room /\ down' = Append(down, news)
    <3>1. ~Mute /\ \A n \in DOMAIN down : down[n].type # "refused"
          BY <2>4 DEF Quiet, Silent
    <3>2. news.type # "refused"
          OBVIOUS
    <3>   HIDE DEF news
    <3>3. \A n \in DOMAIN down' : \/ n \in DOMAIN down /\ down'[n] = down[n]
                                  \/ n = Len(down) + 1 /\ down'[n] = news
          BY <1>1, <2>4, DownMore
    <3>   QED
          BY <2>2, <3>1, <3>2, <3>3 DEF Quiet
  <2>   QED
        BY <2>1, <2>3, <2>4
<1>9. CASE Drops \/ Crash
  <2>1. down' = <<>> /\ ~project'.room
    <3>1. Disconnects
          BY <1>1, <1>9, DropsNamed, CrashNamed
    <3>   QED
          BY <3>1 DEF Disconnects
  <2>   QED
        BY <2>1 DEF Quiet, Silent
<1>   QED
      BY <1>3, <1>4, <1>5, <1>6, <1>7, <1>8, <1>9 DEF CatchUpNext, DeviceNext

-----------------------------------------------------------------------------
(* The operations of the log.                                              *)

LogShrinks ==
    \A i \in DOMAIN mem'.log :
        /\ i \in DOMAIN mem.log
        /\ mem'.log[i].st = mem.log[i].st /\ mem'.log[i].kind = mem.log[i].kind

\* Collapsing makes no other operation of one.
LEMMA CollapsedKinds ==
    ASSUME NEW n \in Nat, NEW l \in Logs(n)
    PROVE  \A i \in DOMAIN Collapsed(l) : i \in DOMAIN l /\ Collapsed(l)[i].kind = l[i].kind
<1>   DEFINE chain == {i \in DOMAIN l : l[i].kind = "rename" /\ l[i].st = "queued"}
             first == CHOOSE i \in chain : \A j \in chain : i <= j
             last  == CHOOSE i \in chain : \A j \in chain : i >= j
             one   == Without(l, chain \ {first})
<1>1. DOMAIN Collapsed(l) \subseteq DOMAIN l
      BY CollapsedNamed DEF Fewer
<1>2. /\ DOMAIN Without(l, chain) = DOMAIN l \ chain
      /\ \A i \in DOMAIN l \ chain : Without(l, chain)[i] = l[i]
  <2>   HIDE DEF chain
  <2>   QED
        BY WithoutNamed
<1>3. /\ one \in Logs(n) /\ DOMAIN one = DOMAIN l \ (chain \ {first})
      /\ \A i \in DOMAIN l \ (chain \ {first}) : one[i] = l[i]
  <2>   HIDE DEF chain, first
  <2>   QED
        BY WithoutNamed
<1>4. \/ Collapsed(l) = l \/ Collapsed(l) = Without(l, chain)
      \/ Collapsed(l) = [one EXCEPT ![first].to = l[last].to]
      BY DEF Collapsed
<1>   HIDE DEF chain, first, last, one
<1>5. CASE Collapsed(l) = [one EXCEPT ![first].to = l[last].to]
  <2>1. \A i \in DOMAIN one : one[i] \in QueuedOps
        BY <1>3, LogNamed
  <2>2. \A i \in DOMAIN one : Collapsed(l)[i].kind = one[i].kind
        BY <1>5, <2>1 DEF QueuedOps
  <2>3. DOMAIN Collapsed(l) = DOMAIN one
        BY <1>5
  <2>   QED
        BY <1>3, <2>2, <2>3
<1>   QED
      BY <1>1, <1>2, <1>4, <1>5

\* A log without some of its operations.
LEMMA WithoutShrinks ==
    ASSUME Shaped, NEW S, mem'.log = Without(mem.log, S)
    PROVE  LogShrinks
<1>1. mem.log \in Logs(made) /\ made \in Nat
      BY MemNamed
<1>2. /\ DOMAIN Without(mem.log, S) = DOMAIN mem.log \ S
      /\ \A i \in DOMAIN mem.log \ S : Without(mem.log, S)[i] = mem.log[i]
      BY <1>1, WithoutNamed
<1>   QED
      BY <1>2 DEF LogShrinks

\* An answer recorded is of an operation that no rename was.
LEMMA AnswerRecordedAlso ==
    ASSUME CInv, AnswerRecorded
    PROVE  /\ UNCHANGED <<at, file, project, up, down, made, past>>
           /\ mem'.flow = mem.flow /\ mem'.count = mem.count
           /\ \E i \in DOMAIN mem.log :
                 /\ mem.log[i].st = "answered"
                 /\ \E k \in DOMAIN project.journal : project.journal[k].id = i /\ Settles(mem', k)
<1>1. PICK i \in Ids(mem, {"answered"}) : mem' = Settle(mem, RowOf(i))
      BY DEF AnswerRecorded
<1>2. i \in DOMAIN mem.log /\ mem.log[i].st = "answered" /\ Landed(i)
      BY <1>1 DEF Ids, CInv, Unsent
<1>3. /\ RowOf(i) \in DOMAIN project.journal /\ project.journal[RowOf(i)].id = i
      /\ Settles(mem', RowOf(i))
      BY <1>1, <1>2, RowOfNamed, SettleNamed DEF CInv
<1>   QED
      BY <1>2, <1>3 DEF AnswerRecorded, Settles

\* What takes operations out of the log, at most.
LEMMA LogShrinking ==
    ASSUME CInv,
           \/ Write \/ AnswerRecorded \/ Renamed \/ MoveLive \/ Connects \/ JoinAgain
           \/ StatusAnswered \/ SettleLanded \/ LandedLeaves \/ Join \/ ListingRead \/ Refresh
           \/ JoinAnswered \/ Gather \/ ApplyRow \/ FlowEnds
    PROVE  LogShrinks
<1>1. Shaped /\ RowsThere
      BY DEF CInv
<1>2. CASE mem'.log = mem.log
      BY <1>2 DEF LogShrinks
<1>3. CASE Write \/ Renamed \/ MoveLive
      BY <1>1, <1>2, <1>3, RenamedNamed, MoveLiveNamed DEF Write, Keeps
<1>4. CASE AnswerRecorded
      BY <1>1, <1>4, AnswerRecordedAlso, WithoutShrinks DEF Settles
<1>5. CASE Connects \/ JoinAgain
  <2>1. PICK retry \in BOOLEAN : mem' = FlowStarts(mem, retry)
        BY <1>5 DEF Connects, JoinAgain
  <2>   QED
        BY <1>1, <1>2, <2>1, FlowStartsNamed DEF Starts
<1>6. CASE StatusAnswered \/ ListingRead \/ JoinAnswered \/ Gather
      BY <1>1, <1>2, <1>6, StatusAnsweredNamed, ListingReadNamed, JoinAnsweredNamed, GatherNamed
      DEF FlowOnly, Keeps
<1>7. CASE SettleLanded
  <2>1. \A i \in mem.flow.asked : Landed(i)
        BY <1>7 DEF CInv, Stages, SettleLanded
  <2>2. TakesIn(Earliest(mem.flow.asked), RowOf(Earliest(mem.flow.asked)))
        BY <1>1, <1>7, <2>1, SettleLandedNamed
  <2>   QED
        BY <1>1, <1>2, <2>2, WithoutShrinks DEF TakesIn
<1>8. CASE LandedLeaves
      BY <1>1, <1>8, LandedLeavesNamed, WithoutShrinks DEF Leaves
<1>9. CASE Join
      BY <1>1, <1>2, <1>9, JoinNamed DEF Joins, Keeps
<1>10. CASE Refresh
  <2>1. mem'.log = Collapsed(mem.log)
        BY <1>1, <1>10, RefreshNamed DEF Refreshes
  <2>   QED
        BY <1>1, <2>1, MemNamed, CollapsedNamed, CollapsedKinds DEF Fewer, LogShrinks
<1>11. CASE ApplyRow
      BY <1>1, <1>2, <1>11, ApplyRowNamed DEF Applies
<1>12. CASE FlowEnds
      BY <1>1, <1>2, <1>12, FlowEndsNamed
<1>   QED
      BY <1>3, <1>4, <1>5, <1>6, <1>7, <1>8, <1>9, <1>10, <1>11, <1>12

\* Fewer operations are as plain.
LEMMA PlainFewer ==
    ASSUME Plain, LogShrinks,
           mem.flow.step = "live" => mem'.flow.step = "live",
           mem'.flow.step = "off" => mem.flow.step = "off",
           mem'.flow.step \in {"ask", "settle"} => mem.flow.step \in {"ask", "settle"}
    PROVE  Plain'
BY DEF Plain, LogShrinks

\* An operation is in a state that the connect flow allows.
LEMMA PlainStays ==
    ASSUME CInv, Noted, Plain, [CatchUpNext]_cvars
    PROVE  Plain'
<1>1. Shaped /\ RowsThere
      BY DEF CInv
<1>2. CASE UserRenames \/ UserChanges
  <2>1. PICK kind, drops : Records(kind, drops) /\ RecordsAlso(kind)
        BY <1>1, <1>2, UserRecords
  <2>2. mem.flow.step \in {"ask", "settle"} => ~CanSendLive
        BY DEF CanSendLive, CInv, Stages
  <2>   QED
        BY <2>1, <2>2 DEF Plain, Records, RecordsAlso
<1>3. CASE Send \/ Resend
  <2>1. PICK i \in DOMAIN mem.log :
           \/ mem.log[i].st = "writing" /\ CanSendLive /\ Emits(i, "sent")
           \/ mem.log[i].st = "writing" /\ Becomes(mem'.log, mem.log, i, "queued")
           \/ mem.log[i].st = "queued" /\ mem.flow.step = "live" /\ Emits(i, "resent")
        BY <1>1, <1>3, SendEmits
  <2>2. mem'.flow = mem.flow
        BY <1>1, <1>3, SendEmits DEF Steady
  <2>3. CanSendLive => mem.flow.step \notin {"off", "ask", "settle"}
        BY DEF CanSendLive, CInv, Stages
  <2>   QED
        BY <2>1, <2>2, <2>3 DEF Plain, Emits, Becomes
<1>4. CASE Answered
  <2>1. mem'.flow = mem.flow
        BY <1>1, <1>4, SteadySteps DEF Steady
  <2>2. DOMAIN mem'.log \subseteq DOMAIN mem.log
    <3>1. PICK k : \/ Settles(mem', k)
                   \/ \E i \in DOMAIN mem.log : Becomes(mem'.log, mem.log, i, "answered")
                   \/ Keeps
          BY <1>1, <1>4, AnsweredNamed
    <3>2. ASSUME Settles(mem', k) PROVE LogShrinks
          BY <1>1, <3>2, WithoutShrinks DEF Settles
    <3>   QED
          BY <3>1, <3>2 DEF Becomes, Keeps, LogShrinks
  <2>3. \A i \in DOMAIN mem'.log :
           /\ mem'.log[i].kind = mem.log[i].kind
           /\ \/ mem'.log[i].st = mem.log[i].st
              \/ mem'.log[i].st = "answered" /\ mem.log[i].kind = "change"
        BY <1>1, <1>4, <2>2, AnsweredChange
  <2>   QED
        BY <2>1, <2>2, <2>3 DEF Plain
<1>5. CASE \/ Write \/ AnswerRecorded \/ Renamed \/ MoveLive \/ StatusAnswered
           \/ SettleLanded \/ LandedLeaves \/ Join \/ ListingRead \/ Refresh
           \/ JoinAnswered \/ Gather \/ ApplyRow \/ FlowEnds
  <2>1. LogShrinks
        BY <1>5, LogShrinking
  <2>2. CASE mem'.flow.step = mem.flow.step
        BY <2>1, <2>2, PlainFewer
  <2>3. CASE Write \/ AnswerRecorded \/ Renamed \/ MoveLive
        BY <1>1, <2>2, <2>3, AnswerRecordedAlso, RenamedNamed, MoveLiveNamed DEF Write, Dwells
  <2>4. CASE StatusAnswered
        BY <1>1, <2>1, <2>4, StatusAnsweredNamed, PlainFewer
  <2>5. CASE SettleLanded
    <3>1. \A i \in mem.flow.asked : Landed(i)
          BY <2>5 DEF CInv, Stages, SettleLanded
    <3>   QED
          BY <1>1, <2>2, <2>5, <3>1, SettleLandedNamed DEF TakesIn, AsksOn
  <2>6. CASE LandedLeaves
        BY <1>1, <2>2, <2>6, LandedLeavesNamed DEF Leaves, AsksOn
  <2>7. CASE Join
        BY <1>1, <2>1, <2>7, JoinNamed, PlainFewer DEF Joins
  <2>8. CASE ListingRead \/ Refresh \/ JoinAnswered
        BY <1>1, <2>2, <2>8, ListingReadNamed, RefreshNamed, JoinAnsweredNamed DEF Refreshes
  <2>9. CASE Gather
        BY <1>1, <2>1, <2>9, GatherNamed, PlainFewer
  <2>10. CASE ApplyRow
        BY <1>1, <2>2, <2>10, ApplyRowNamed DEF Applies
  <2>11. CASE FlowEnds
        BY <1>1, <2>1, <2>11, FlowEndsNamed, PlainFewer
  <2>   QED
        BY <1>5, <2>3, <2>4, <2>5, <2>6, <2>7, <2>8, <2>9, <2>10, <2>11
<1>6. CASE Connects \/ JoinAgain
  <2>1. LogShrinks
        BY <1>6, LogShrinking
  <2>2. PICK retry \in BOOLEAN : mem' = FlowStarts(mem, retry)
        BY <1>6 DEF Connects, JoinAgain
  <2>3. mem'.flow.step \in {"ask", "settle"}
        BY <1>1, <2>2, FlowStartsNamed DEF Starts
  <2>4. \A i \in DOMAIN mem.log : mem.log[i].st \in {"queued", "writing", "sent", "answered", "resent"}
        BY <1>1, MemNamed, LogNamed DEF QueuedOps
  <2>5. \A i \in DOMAIN mem.log : mem.log[i].st \in {"queued", "answered"}
        BY <1>6, <2>4 DEF Plain, Connects, JoinAgain, Ids
  <2>   QED
        BY <2>1, <2>3, <2>5 DEF Plain, LogShrinks
<1>7. CASE UNCHANGED mem
      BY <1>7 DEF Plain
<1>8. CASE Drops
  <2>1. /\ mem'.flow.step = "off" /\ DOMAIN mem'.log = DOMAIN mem.log
        /\ \A i \in DOMAIN mem.log :
              \/ mem'.log[i] = mem.log[i] /\ mem.log[i].st \notin {"sent", "resent"}
              \/ mem'.log[i].st = "queued"
        BY <1>1, <1>8, DropsNamed DEF DropsAll, NoFlow
  <2>   QED
        BY <2>1 DEF Plain
<1>9. CASE Crash
  <2>1. mem'.flow.step = "off" /\ mem'.log = file.log
        BY <1>1, <1>9, CrashNamed DEF CrashesTo, NoFlow
  <2>   QED
        BY <2>1 DEF Plain, Noted
<1>10. CASE ServerApplies \/ ServerTakesIn \/ ServerAnswersJoin \/ TeammateRenames \/ UNCHANGED cvars
      BY <1>7, <1>10 DEF ServerApplies, ServerTakesIn, ServerAnswersJoin, TeammateRenames, cvars
<1>   QED
      BY <1>2, <1>3, <1>4, <1>5, <1>6, <1>8, <1>9, <1>10 DEF CatchUpNext

-----------------------------------------------------------------------------
(* The renames the server had after a broadcast.                           *)

\* The own renames in the journal stay, and what is on its way of the device's steps.
LEMMA PendingKept ==
    ASSUME Shaped, Pending, Shrinks, project' = project,
           \A j \in OwnRenames : project.journal[j].id \in Renames(mem) =>
              \/ project.journal[j].id \in Renames(mem')
              \/ \A n \in DOMAIN down' : down'[n].type = "renamed" => ~(j > down'[n].row)
    PROVE  Pending'
<1>1. OwnRenames' = OwnRenames
      BY DEF OwnRenames, Own
<1>2. PICK s \in {0, 1} : \A n \in DOMAIN down' : /\ n \in Nat /\ n + s \in DOMAIN down
                                                  /\ down'[n] = down[n + s]
      BY ShrinksNamed
<1>   QED
      BY <1>1, <1>2 DEF Pending, Renames

\* So they stay in the log where nothing leaves it.
LEMMA PendingSame ==
    ASSUME Shaped, Pending, Shrinks, project' = project,
           \A i \in Renames(mem) : i \in Renames(mem') \/ ~Landed(i)
    PROVE  Pending'
<1>1. \A j \in OwnRenames : Landed(project.journal[j].id)
      BY DEF OwnRenames, Own, Landed
<1>   QED
      BY <1>1, PendingKept

\* The row of an operation is its only one.
LEMMA OneRow ==
    ASSUME CInv, NEW j \in OwnRenames, NEW k \in DOMAIN project.journal,
           project.journal[j].id = project.journal[k].id
    PROVE  j = k
BY DEF OwnRenames, Own, CInv, Once

\* What is settled is gone, and no more.
LEMMA SettlesRenames ==
    ASSUME Shaped, NEW k, Settles(mem', k)
    PROVE  \A i \in Renames(mem) : i \in Renames(mem') \/ i = project.journal[k].id
<1>   DEFINE gone == {project.journal[k].id}
<1>1. mem'.log = Without(mem.log, gone)
      BY DEF Settles
<1>   HIDE DEF gone
<1>2. mem.log \in Logs(made) /\ made \in Nat
      BY MemNamed
<1>3. /\ DOMAIN Without(mem.log, gone) = DOMAIN mem.log \ gone
      /\ \A i \in DOMAIN mem.log \ gone : Without(mem.log, gone)[i] = mem.log[i]
      BY <1>2, WithoutNamed
<1>   QED
      BY <1>1, <1>3 DEF Renames, gone

\* A rename that the server had after one whose broadcast is on its way stays in the log: the
\* answer comes after the broadcast, and what is superseded or collapsed has not landed.
LEMMA PendingStays ==
    ASSUME CInv, Noted, OneJoin, Plain, Quiet, Ordered, Pending, Quiet', [CatchUpNext]_cvars
    PROVE  Pending'
<1>1. Shaped /\ RowsThere /\ Carried
      BY DEF CInv
<1>2. CASE DeviceNext
  <2>1. project' = project /\ Shrinks
        BY <1>2, DeviceSteps
  <2>2. CASE \A i \in Renames(mem) : i \in Renames(mem') \/ ~Landed(i)
        BY <1>1, <2>1, <2>2, PendingSame
  <2>3. CASE mem'.log = mem.log
        BY <2>2, <2>3 DEF Renames
  <2>4. CASE \A n \in DOMAIN down' : down'[n].type # "renamed"
        BY <2>4 DEF Pending
  <2>5. CASE UserRenames \/ UserChanges
    <3>1. PICK kind, drops : /\ Records(kind, drops)
                             /\ \A i \in drops : mem.log[i].st = "queued"
          BY <1>1, <2>5, UserRecords DEF QueuedMoves, Ids
    <3>2. \A i \in DOMAIN mem.log \ DOMAIN mem'.log : CanSendLive /\ mem.log[i].st = "queued"
          BY <3>1 DEF Records
    <3>3. CanSendLive => mem.flow.step \notin {"off", "ask", "settle"}
          BY DEF CanSendLive, CInv, Stages
    <3>4. \A i \in DOMAIN mem.log \ DOMAIN mem'.log : ~Landed(i)
          BY <3>2, <3>3 DEF CInv, Unsent
    <3>5. /\ made + 1 \notin DOMAIN mem.log
          /\ \A i \in DOMAIN mem'.log \ {made + 1} : mem'.log[i] = mem.log[i]
          BY <1>1, <2>5, <3>1, UserRecords DEF Records, RecordsAlso
    <3>   QED
          BY <2>2, <3>4, <3>5 DEF Renames
  <2>6. CASE Send \/ Resend
    <3>1. PICK i, st : Becomes(mem'.log, mem.log, i, st) /\ i \in DOMAIN mem.log
          BY <1>1, <2>6, SendEmits DEF Emits
    <3>   QED
          BY <2>2, <3>1 DEF Becomes, Renames
  <2>7. CASE Answered
    <3>1. /\ down # <<>> /\ Head(down).type = "ack" /\ down' = Tail(down)
          /\ \/ Settles(mem', Head(down).row)
             \/ \E i \in DOMAIN mem.log : Becomes(mem'.log, mem.log, i, "answered")
             \/ Keeps
          BY <1>1, <2>7, AnsweredNamed
    <3>2. CASE \E i \in DOMAIN mem.log : Becomes(mem'.log, mem.log, i, "answered")
          BY <2>2, <3>2 DEF Becomes, Renames
    <3>3. CASE Settles(mem', Head(down).row)
      <4>1. 1 \in DOMAIN down /\ down[1] = Head(down) /\ Head(down).row \in DOMAIN project.journal
            BY <1>1, <3>1 DEF Shaped, RowsThere
      <4>2. \A n \in DOMAIN down' : n \in Nat \ {0} /\ n + 1 \in DOMAIN down /\ down'[n] = down[n + 1]
            BY <1>1, <3>1 DEF Shaped
      <4>3. \A n \in DOMAIN down' : down'[n].type = "renamed" => Head(down).row < down'[n].row
        <5>1. \A n \in Nat \ {0} : 1 < n + 1
              OBVIOUS
        <5>   QED
              BY <3>1, <4>1, <4>2, <5>1 DEF Ordered
      <4>4. ASSUME NEW j \in OwnRenames, project.journal[j].id \in Renames(mem)
            PROVE  \/ project.journal[j].id \in Renames(mem')
                   \/ \A n \in DOMAIN down' : down'[n].type = "renamed" => ~(j > down'[n].row)
        <5>1. CASE project.journal[j].id = project.journal[Head(down).row].id
          <6>1. j = Head(down).row
                BY <4>1, <5>1, OneRow
          <6>2. \A n \in DOMAIN down' :
                   down'[n].type = "renamed" => down'[n].row \in DOMAIN project.journal
                BY <1>1, <4>2 DEF RowsThere
          <6>3. \A n \in DOMAIN down' : down'[n].type = "renamed" => down'[n].row \in Nat
                BY <1>1, <6>2 DEF Shaped, ProjectTypeOK
          <6>4. Head(down).row \in Nat
                BY <1>1, <4>1 DEF Shaped, ProjectTypeOK
          <6>   QED
                BY <4>3, <6>1, <6>3, <6>4
        <5>   QED
              BY <1>1, <3>3, <4>4, <5>1, SettlesRenames
      <4>   QED
            BY <1>1, <2>1, <4>4, PendingKept
    <3>   QED
          BY <2>3, <3>1, <3>2, <3>3 DEF Keeps
  <2>8. CASE AnswerRecorded
    <3>1. PICK i \in DOMAIN mem.log, k \in DOMAIN project.journal :
             mem.log[i].st = "answered" /\ project.journal[k].id = i /\ Settles(mem', k)
          BY <2>8, AnswerRecordedAlso
    <3>2. i \notin Renames(mem)
          BY <3>1 DEF Plain, Renames
    <3>   QED
          BY <1>1, <2>2, <3>1, <3>2, SettlesRenames
  <2>9. CASE Write \/ Renamed \/ MoveLive
        BY <1>1, <2>3, <2>9, RenamedNamed, MoveLiveNamed DEF Write, Keeps
  <2>10. CASE Connects \/ JoinAgain
    <3>1. PICK retry \in BOOLEAN : mem' = FlowStarts(mem, retry)
          BY <2>10 DEF Connects, JoinAgain
    <3>   QED
          BY <1>1, <2>3, <3>1, FlowStartsNamed DEF Starts
  <2>11. CASE StatusAnswered \/ ListingRead \/ JoinAnswered \/ Gather
        BY <1>1, <2>3, <2>11, StatusAnsweredNamed, ListingReadNamed, JoinAnsweredNamed, GatherNamed
        DEF FlowOnly, Keeps
  <2>12. CASE SettleLanded \/ LandedLeaves
    <3>1. mem.flow.step = "settle"
          BY <2>12 DEF SettleLanded, LandedLeaves, CInv, Stages
    <3>2. mem'.flow.step = "settle"
          <4>1. CASE SettleLanded
            <5>1. \A i \in mem.flow.asked : Landed(i)
                  BY <3>1 DEF CInv, Stages
            <5>   QED
                  BY <1>1, <3>1, <4>1, <5>1, SettleLandedNamed DEF TakesIn, AsksOn
          <4>2. CASE LandedLeaves
                BY <1>1, <3>1, <4>2, LandedLeavesNamed DEF Leaves, AsksOn
          <4>   QED
                BY <2>12, <4>1, <4>2
    <3>   QED
          BY <2>4, <3>2 DEF Quiet, Mute, Silent
  <2>13. CASE Join
        BY <1>1, <2>3, <2>13, JoinNamed DEF Joins, Keeps
  <2>14. CASE Refresh
    <3>1. mem'.log = Collapsed(mem.log) /\ mem.flow.step = "gather"
          BY <1>1, <2>14, RefreshNamed DEF Refreshes, CInv, Stages
    <3>2. \A i \in DOMAIN mem.log \ DOMAIN mem'.log : ~Landed(i)
      <4>1. \A i \in DOMAIN mem.log \ DOMAIN mem'.log : mem.log[i].st = "queued"
            BY <1>1, <3>1, MemNamed, CollapsedNamed
      <4>   QED
            BY <3>1, <4>1 DEF CInv, Unsent
    <3>3. LogShrinks
          BY <2>14, LogShrinking
    <3>   QED
          BY <2>2, <3>2, <3>3 DEF Renames, LogShrinks
  <2>15. CASE ApplyRow
        BY <1>1, <2>3, <2>15, ApplyRowNamed DEF Applies
  <2>16. CASE FlowEnds
        BY <1>1, <2>3, <2>16, FlowEndsNamed
  <2>   QED
        BY <1>2, <2>5, <2>6, <2>7, <2>8, <2>9, <2>10, <2>11, <2>12, <2>13, <2>14, <2>15, <2>16
        DEF DeviceNext
<1>3. CASE ServerApplies
  <2>   DEFINE ack == [type |-> "ack", row |-> Len(project.journal) + 1]
  <2>1. /\ up # <<>> /\ Head(up).type = "op" /\ up' = Tail(up) /\ mem' = mem
        /\ down' = Append(down, ack) /\ ack.type = "ack"
        BY <1>3 DEF ServerApplies
  <2>   HIDE DEF ack
  <2>2. Head(up).id \in DOMAIN mem.log
    <3>1. 1 \in DOMAIN up /\ up[1] = Head(up)
          BY <1>1, <2>1, HeadGone
    <3>   QED
          BY <1>1, <2>1, <3>1 DEF Carried, Sent
  <2>3. Lands(Head(up))
        BY <1>1, <1>3, <2>2, ServerAppliesNamed
  <2>4. PICK row \in Rows : project'.journal = Append(project.journal, row) /\ row.id = Head(up).id
        BY <2>3 DEF Lands
  <2>5. Grows(row)
        BY <1>1, <2>4, GrowsNamed
  <2>6. row.kind = mem.log[Head(up).id].kind
        BY <1>1, <1>3, <2>5, ServerAppliesAlso DEF Grows
  <2>7. \A n \in DOMAIN down' : \/ n \in DOMAIN down /\ down'[n] = down[n]
                                \/ n = Len(down) + 1 /\ down'[n] = ack
        BY <1>1, <2>1, DownMore
  <2>8. \A j \in OwnRenames' : \/ j \in OwnRenames /\ project'.journal[j] = project.journal[j]
                               \/ project'.journal[j] = row /\ row.kind = "rename"
        BY <2>5 DEF OwnRenames, Own, Grows
  <2>9. row.kind = "rename" => row.id \in Renames(mem')
        BY <2>1, <2>2, <2>4, <2>6 DEF Renames
  <2>   QED
        BY <2>1, <2>7, <2>8, <2>9 DEF Pending
<1>4. CASE TeammateRenames
  <2>   DEFINE news == [type |-> "renamed", row |-> Len(project.journal) + 1]
  <2>1. /\ mem' = mem
        /\ down' = down \/ down' = Append(down, news)
        /\ news.row = Len(project.journal) + 1
        BY <1>4 DEF TeammateRenames
  <2>   HIDE DEF news
  <2>2. PICK row \in Rows : project'.journal = Append(project.journal, row) /\ row.id = 0
        BY <1>1, <1>4, TeammateRenamesNamed
  <2>3. Grows(row)
        BY <1>1, <2>2, GrowsNamed
  <2>4. \A j \in OwnRenames' : j \in OwnRenames /\ project'.journal[j] = project.journal[j]
        BY <2>2, <2>3 DEF OwnRenames, Own, Grows
  <2>5. \A j \in OwnRenames : j <= Len(project.journal) /\ j \in Nat /\ Len(project.journal) \in Nat
    <3>1. project.journal \in Seq(Rows)
          BY <1>1 DEF Shaped, ProjectTypeOK
    <3>   QED
          BY <3>1 DEF OwnRenames, Own
  <2>6. \A n \in DOMAIN down' : \/ n \in DOMAIN down /\ down'[n] = down[n]
                                \/ down'[n] = news
        BY <1>1, <2>1, DownMore
  <2>   QED
        BY <2>1, <2>4, <2>5, <2>6 DEF Pending
<1>5. CASE ServerTakesIn
  <2>1. mem' = mem /\ down' = down /\ project'.journal = project.journal
        BY <1>1, <1>5, ServerTakesInNamed
  <2>   QED
        BY <2>1 DEF Pending, OwnRenames, Own
<1>6. CASE ServerAnswersJoin
  <2>1. /\ mem' = mem /\ project'.journal = project.journal
        /\ \E d \in Answers : down' = Append(down, d) /\ d.type \in {"joined", "refused"}
        BY <1>1, <1>6, ServerAnswersJoinNamed
  <2>2. PICK d \in Answers : down' = Append(down, d) /\ d.type \in {"joined", "refused"}
        BY <2>1
  <2>3. \A n \in DOMAIN down' : \/ n \in DOMAIN down /\ down'[n] = down[n]
                                \/ down'[n] = d
        BY <1>1, <2>2, DownMore
  <2>   QED
        BY <2>1, <2>2, <2>3 DEF Pending, OwnRenames, Own
<1>7. CASE Drops \/ Crash
      BY <1>7 DEF Drops, Crash, Pending
<1>8. CASE UNCHANGED cvars
      BY <1>8 DEF cvars, Pending, OwnRenames, Own
<1>   QED
      BY <1>2, <1>3, <1>4, <1>5, <1>6, <1>7, <1>8 DEF CatchUpNext, DeviceNext

-----------------------------------------------------------------------------
(* What was renamed here since.                                            *)

\* An answer takes no more than its operation out of the log.
LEMMA AnsweredShrinks ==
    ASSUME Shaped, RowsThere, Answered
    PROVE  \A i \in DOMAIN mem'.log :
              /\ i \in DOMAIN mem.log /\ mem'.log[i].kind = mem.log[i].kind
              /\ \/ mem'.log[i].st = mem.log[i].st
                 \/ mem'.log[i].st = "answered" /\ mem.log[i].kind = "change"
<1>1. PICK k : \/ Settles(mem', k)
               \/ \E i \in DOMAIN mem.log : Becomes(mem'.log, mem.log, i, "answered")
               \/ Keeps
      BY AnsweredNamed
<1>2. ASSUME Settles(mem', k) PROVE LogShrinks
      BY <1>2, WithoutShrinks DEF Settles
<1>3. DOMAIN mem'.log \subseteq DOMAIN mem.log
      BY <1>1, <1>2 DEF Becomes, Keeps, LogShrinks
<1>   QED
      BY <1>3, AnsweredChange

\* A rename is counted, and nothing else adds one.
LEMMA CountGrows ==
    ASSUME CInv, DeviceNext
    PROVE  /\ mem.count \in Nat /\ mem'.count \in Nat /\ mem.count <= mem'.count
           /\ mem'.count = mem.count => Renames(mem') \subseteq Renames(mem)
<1>1. Shaped /\ RowsThere /\ mem.count \in Nat
      BY MemNamed DEF CInv, Mems
<1>2. CASE UserRenames \/ UserChanges
  <2>1. PICK kind \in {"rename", "change"} :
           \E drops : Records(kind, drops) /\ RecordsAlso(kind)
        BY <1>1, <1>2, UserRecords
  <2>2. PICK drops : Records(kind, drops) /\ RecordsAlso(kind)
        BY <2>1
  <2>3. CASE kind = "rename"
    <3>1. mem'.count = mem.count + 1
          BY <2>2, <2>3 DEF RecordsAlso
    <3>   QED
          BY <1>1, <3>1
  <2>4. CASE kind = "change"
        BY <1>1, <2>2, <2>4 DEF Records, RecordsAlso, Renames
  <2>   QED
        BY <2>3, <2>4
<1>3. CASE Send \/ Resend
  <2>1. PICK i, st : Becomes(mem'.log, mem.log, i, st)
        BY <1>1, <1>3, SendEmits DEF Emits
  <2>2. mem'.count = mem.count
        BY <1>1, <1>3, SendEmits DEF Steady
  <2>   QED
        BY <1>1, <2>1, <2>2 DEF Becomes, Renames
<1>4. CASE Answered
  <2>1. mem'.count = mem.count
        BY <1>1, <1>4, SteadySteps DEF Steady
  <2>   QED
        BY <1>1, <1>4, <2>1, AnsweredShrinks DEF Renames
<1>5. CASE LogShrinks /\ mem'.count = mem.count
      BY <1>1, <1>5 DEF LogShrinks, Renames
<1>6. CASE Write \/ AnswerRecorded \/ Renamed \/ MoveLive
      BY <1>1, <1>5, <1>6, LogShrinking, AnswerRecordedAlso, SteadySteps DEF Steady, Write
<1>7. CASE Connects \/ JoinAgain
  <2>1. PICK retry \in BOOLEAN : mem' = FlowStarts(mem, retry)
        BY <1>7 DEF Connects, JoinAgain
  <2>   QED
        BY <1>1, <1>5, <1>7, <2>1, LogShrinking, FlowStartsAlso
<1>8. CASE StatusAnswered \/ SettleLanded \/ LandedLeaves
      BY <1>1, <1>5, <1>8, LogShrinking, AsksAlso
<1>9. CASE Join \/ ListingRead \/ Refresh
      BY <1>1, <1>5, <1>9, LogShrinking, JoinAlso, ListingReadAlso, RefreshAlso
<1>10. CASE JoinAnswered \/ Gather
      BY <1>1, <1>5, <1>10, LogShrinking, JoinAnsweredAlso, GatherAlso DEF Passes
<1>11. CASE ApplyRow
      BY <1>1, <1>5, <1>11, LogShrinking, ApplyRowAlso DEF Passes
<1>12. CASE FlowEnds
      BY <1>1, <1>5, <1>12, LogShrinking, FlowEndsAlso
<1>   QED
      BY <1>2, <1>3, <1>4, <1>6, <1>7, <1>8, <1>9, <1>10, <1>11, <1>12 DEF DeviceNext

\* Only a broadcast is begun or done with.
LEMMA HandlersStay ==
    ASSUME CInv, DeviceNext, ~Renamed, ~MoveLive
    PROVE  mem'.handlers = mem.handlers
<1>1. Shaped /\ RowsThere
      BY DEF CInv
<1>2. CASE UserRenames \/ UserChanges
      BY <1>1, <1>2, UserRecords DEF Records
<1>3. CASE Send \/ Resend \/ Write
      BY <1>1, <1>3, SendEmits DEF Write
<1>4. CASE Answered \/ AnswerRecorded
      BY <1>1, <1>4, AnsweredNamed, AnswerRecordedNamed DEF CInv, Unsent
<1>5. CASE Connects \/ JoinAgain
  <2>1. PICK retry \in BOOLEAN : mem' = FlowStarts(mem, retry)
        BY <1>5 DEF Connects, JoinAgain
  <2>   QED
        BY <1>1, <2>1, FlowStartsNamed DEF Starts
<1>6. CASE StatusAnswered \/ ListingRead \/ JoinAnswered \/ Gather
      BY <1>1, <1>6, StatusAnsweredNamed, ListingReadNamed, JoinAnsweredNamed, GatherNamed
      DEF FlowOnly
<1>7. CASE SettleLanded
  <2>1. \A i \in mem.flow.asked : Landed(i)
        BY <1>7 DEF CInv, Stages, SettleLanded
  <2>   QED
        BY <1>1, <1>7, <2>1, SettleLandedNamed DEF TakesIn
<1>8. CASE LandedLeaves
      BY <1>1, <1>8, LandedLeavesNamed DEF Leaves
<1>9. CASE Join \/ Refresh
      BY <1>1, <1>9, JoinNamed, RefreshNamed DEF Joins, Refreshes
<1>10. CASE ApplyRow \/ FlowEnds
      BY <1>1, <1>10, ApplyRowNamed, FlowEndsNamed DEF Applies
<1>   QED
      BY <1>2, <1>3, <1>4, <1>5, <1>6, <1>7, <1>8, <1>9, <1>10 DEF DeviceNext

\* The renames after a row of the journal.
LEMMA OwnAfterNamed ==
    ASSUME NEW k
    PROVE  OwnAfter(k) <=> \E j \in OwnRenames : j > k
BY DEF OwnAfter, OwnRenames, Own

\* What was untouched is, if no rename is added.
LEMMA UntouchedStays ==
    ASSUME NEW k, Untouched(k), Renames(mem') \subseteq Renames(mem), project'.journal = project.journal
    PROVE  Untouched(k)'
BY DEF Untouched, OwnAfter

ServerNext == ServerApplies \/ ServerTakesIn \/ ServerAnswersJoin \/ TeammateRenames

\* While every rename here is queued, none lands.
LEMMA NoneLands ==
    ASSUME CInv, ServerNext, \A i \in Renames(mem) : mem.log[i].st = "queued"
    PROVE  mem' = mem /\ OwnRenames' = OwnRenames
<1>1. Shaped
      BY DEF CInv
<1>2. CASE ServerTakesIn \/ ServerAnswersJoin
  <2>1. mem' = mem /\ project'.journal = project.journal
        BY <1>1, <1>2, ServerTakesInNamed, ServerAnswersJoinNamed
  <2>   QED
        BY <2>1 DEF OwnRenames, Own
<1>3. CASE TeammateRenames
  <2>1. mem' = mem /\ \E row \in Rows : project'.journal = Append(project.journal, row) /\ row.id = 0
        BY <1>1, <1>3, TeammateRenamesNamed
  <2>2. PICK row \in Rows : project'.journal = Append(project.journal, row) /\ row.id = 0
        BY <2>1
  <2>3. Grows(row)
        BY <1>1, <2>2, GrowsNamed
  <2>   QED
        BY <2>1, <2>2, <2>3 DEF OwnRenames, Own, Grows
<1>4. CASE ServerApplies
  <2>1. up # <<>> /\ Head(up).type = "op" /\ up' = Tail(up) /\ mem' = mem
        BY <1>4 DEF ServerApplies
  <2>2. 1 \in DOMAIN up /\ up[1] = Head(up)
        BY <1>1, <2>1, HeadGone
  <2>3. Head(up).id \in DOMAIN mem.log /\ mem.log[Head(up).id].st \in {"sent", "resent"}
        BY <2>1, <2>2 DEF Carried, Sent, CInv
  <2>4. mem.log[Head(up).id].kind # "rename"
        BY <2>3 DEF Renames
  <2>5. PICK row \in Rows : project'.journal = Append(project.journal, row)
        BY <1>1, <1>4, <2>3, ServerAppliesNamed DEF Lands
  <2>6. Grows(row)
        BY <1>1, <2>5, GrowsNamed
  <2>7. row.kind # "rename"
        BY <1>1, <1>4, <2>4, <2>6, ServerAppliesAlso DEF Grows
  <2>   QED
        BY <2>1, <2>6, <2>7 DEF OwnRenames, Own, Grows
<1>   QED
      BY <1>2, <1>3, <1>4 DEF ServerNext

\* So what is untouched stays so.
LEMMA ServerTouchesNot ==
    ASSUME CInv, ServerNext, NEW k, Untouched(k)
    PROVE  Untouched(k)'
<1>1. mem' = mem /\ OwnRenames' = OwnRenames
      BY NoneLands DEF Untouched
<1>2. ~\E j \in OwnRenames' : j > k
      BY <1>1, OwnAfterNamed DEF Untouched
<1>3. OwnAfter(k)' <=> \E j \in OwnRenames' : j > k
      BY DEF OwnAfter, OwnRenames, Own
<1>   QED
      BY <1>1, <1>2, <1>3 DEF Untouched

\* What a broadcast being applied is.
LEMMA HandlerTyped ==
    ASSUME Shaped, NEW n \in DOMAIN mem.handlers
    PROVE  mem.handlers[n] \in [row : Nat, count : Nat]
<1>   DEFINE H == [row : Nat, count : Nat]
<1>1. mem.handlers \in Seq(H)
      BY MemNamed DEF Mems, Handlers
<1>   HIDE DEF H
<1>2. mem.handlers[n] \in H
      BY <1>1
<1>   QED
      BY <1>2 DEF H

\* The same of the next state, with the rows and the counts named.
LEMMA HeldNamed ==
    Held' <=> \A n \in DOMAIN mem'.handlers :
                 /\ mem'.handlers[n].count <= mem'.count
                 /\ mem'.handlers[n].count = mem'.count =>
                       Renames(mem') = {} /\ ~\E j \in OwnRenames' : j > mem'.handlers[n].row
BY DEF Held, Untouched, OwnAfter, OwnRenames, Own

\* A broadcast being applied is of a row that nothing of the user's came after, unless the
\* count tells (handleServerRename).
LEMMA HeldStays ==
    ASSUME CInv, Pending, Held, [CatchUpNext]_cvars
    PROVE  Held'
<1>1. Shaped /\ RowsThere /\ mem.count \in Nat /\ mem.handlers \in Handlers
      BY MemNamed DEF CInv, Mems
<1>2. CASE DeviceNext
  <2>1. /\ mem.count \in Nat /\ mem'.count \in Nat /\ mem.count <= mem'.count
        /\ mem'.count = mem.count => Renames(mem') \subseteq Renames(mem)
        BY <1>2, CountGrows
  <2>2. project' = project
        BY <1>2, DeviceSteps
  <2>   DEFINE Fine(h) == /\ h.count <= mem'.count
                          /\ h.count = mem'.count =>
                                Renames(mem') = {} /\ ~\E j \in OwnRenames' : j > h.row
  <2>3. ASSUME NEW h \in [row : Nat, count : Nat], h.count <= mem.count,
               h.count = mem.count => Untouched(h.row)
        PROVE  Fine(h)
    <3>1. h.count <= mem'.count /\ (h.count = mem'.count => mem'.count = mem.count)
          BY <2>1, <2>3
    <3>2. OwnRenames' = OwnRenames
          BY <2>2 DEF OwnRenames, Own
    <3>3. h.count = mem.count => Renames(mem) = {} /\ ~\E j \in OwnRenames : j > h.row
          BY <2>3, OwnAfterNamed DEF Untouched
    <3>   QED
          BY <2>1, <3>1, <3>2, <3>3
  <2>4. ASSUME NEW n \in DOMAIN mem.handlers PROVE Fine(mem.handlers[n])
    <3>   HIDE DEF Fine
    <3>1. mem.handlers[n] \in [row : Nat, count : Nat]
          BY <1>1, <2>4, HandlerTyped
    <3>   QED
          BY <2>3, <2>4, <3>1 DEF Held
  <2>5. ASSUME \A n \in DOMAIN mem'.handlers : Fine(mem'.handlers[n]) PROVE Held'
        BY <2>5, HeldNamed
  <2>   HIDE DEF Fine
  <2>6. CASE mem'.handlers = mem.handlers
        BY <2>4, <2>5, <2>6
  <2>7. CASE Renamed
    <3>   DEFINE h == [row |-> Head(down).row, count |-> mem.count]
    <3>1. CASE ~RenamePendingHere /\ mem'.handlers = Append(mem.handlers, h)
      <4>1. Head(down).type = "renamed" /\ 1 \in DOMAIN down /\ down[1] = Head(down)
            BY <1>1, <2>7 DEF Renamed, Shaped
      <4>2. Head(down).row \in DOMAIN project.journal
            BY <1>1, <4>1 DEF RowsThere
      <4>3. Renames(mem) = {}
            BY <3>1 DEF RenamePendingHere
      <4>4. ~\E j \in OwnRenames : j > Head(down).row
            BY <4>1, <4>3 DEF Pending
      <4>5. Untouched(Head(down).row)
            BY <4>3, <4>4, OwnAfterNamed DEF Untouched
      <4>6. h \in [row : Nat, count : Nat]
            BY <1>1, <4>2 DEF Shaped, ProjectTypeOK
      <4>7. h.count <= mem.count /\ (h.count = mem.count => Untouched(h.row))
            BY <1>1, <4>5
      <4>8. mem'.handlers = Append(mem.handlers, h)
            BY <3>1
      <4>   HIDE DEF h
      <4>9. Fine(h)
            BY <2>3, <4>6, <4>7
      <4>10. \A n \in DOMAIN mem'.handlers :
                \/ n \in DOMAIN mem.handlers /\ mem'.handlers[n] = mem.handlers[n]
                \/ mem'.handlers[n] = h
            BY <1>1, <4>6, <4>8 DEF Handlers
      <4>   QED
            BY <2>4, <2>5, <4>9, <4>10
    <3>   QED
          BY <1>1, <2>6, <2>7, <3>1, RenamedAlso
  <2>8. CASE MoveLive
    <3>1. mem.handlers # <<>> /\ mem'.handlers = Tail(mem.handlers)
          BY <1>1, <2>8, MoveLiveAlso
    <3>2. \A n \in DOMAIN mem'.handlers :
             n + 1 \in DOMAIN mem.handlers /\ mem'.handlers[n] = mem.handlers[n + 1]
          BY <1>1, <3>1 DEF Handlers
    <3>   QED
          BY <2>4, <2>5, <3>2
  <2>   QED
        BY <1>2, <2>6, <2>7, <2>8, HandlersStay
<1>3. CASE ServerNext
  <2>1. mem' = mem
        BY <1>3 DEF ServerNext, ServerApplies, ServerTakesIn, ServerAnswersJoin, TeammateRenames
  <2>2. ASSUME NEW n \in DOMAIN mem.handlers, mem.handlers[n].count = mem.count
        PROVE  Renames(mem) = {} /\ ~\E j \in OwnRenames' : j > mem.handlers[n].row
    <3>1. Renames(mem) = {} /\ ~\E j \in OwnRenames : j > mem.handlers[n].row
          BY <2>2, OwnAfterNamed DEF Held, Untouched
    <3>2. OwnRenames' = OwnRenames
          BY <1>3, <3>1, NoneLands
    <3>   QED
          BY <3>1, <3>2
  <2>   QED
        BY <2>1, <2>2, HeldNamed DEF Held
<1>4. CASE Drops
  <2>1. /\ mem'.handlers = mem.handlers /\ mem'.count = mem.count
        /\ Renames(mem') \subseteq Renames(mem) /\ project'.journal = project.journal
        BY <1>1, <1>4, DropsNamed, DropsAlso DEF DropsAll, Disconnects, Renames
  <2>   QED
        BY <2>1 DEF Held, Untouched, OwnAfter
<1>5. CASE Crash
      BY <1>1, <1>5, CrashNamed DEF CrashesTo, Held
<1>6. CASE UNCHANGED cvars
      BY <1>6 DEF cvars, Held, Untouched, OwnAfter
<1>   QED
      BY <1>2, <1>3, <1>4, <1>5, <1>6 DEF CatchUpNext, DeviceNext, ServerNext


-----------------------------------------------------------------------------
(* The listing.                                                            *)

\* Steps that the connect flow takes no notice of.
Aside ==
    \/ UserRenames \/ UserChanges \/ Write \/ Send \/ Resend \/ Answered \/ AnswerRecorded
    \/ Renamed \/ MoveLive

\* They leave it as it was, and what the server has.
LEMMA AsideRests ==
    ASSUME CInv, Aside
    PROVE  /\ mem'.flow = mem.flow /\ project' = project
           /\ past'.count = past.count /\ past'.seen = past.seen
<1>1. Shaped /\ RowsThere
      BY DEF CInv
<1>2. DeviceNext
      BY DEF Aside, DeviceNext
<1>3. project' = project
      BY <1>2, DeviceSteps
<1>4. CASE UserRenames \/ UserChanges
      BY <1>1, <1>3, <1>4, UserRecords DEF Records
<1>5. CASE Write
      BY <1>3, <1>5 DEF Write
<1>6. CASE Send \/ Resend
      BY <1>1, <1>3, <1>6, SendEmits DEF Steady
<1>7. CASE Answered
      BY <1>1, <1>3, <1>7, SteadySteps, AnsweredNamed DEF Steady
<1>8. CASE AnswerRecorded
      BY <1>1, <1>3, <1>8, AnswerRecordedAlso
<1>9. CASE Renamed
      BY <1>1, <1>3, <1>9, SteadySteps, RenamedNamed DEF Steady
<1>10. CASE MoveLive
      BY <1>1, <1>3, <1>10, SteadySteps, MoveLiveAlso DEF Steady
<1>   QED
      BY <1>4, <1>5, <1>6, <1>7, <1>8, <1>9, <1>10 DEF Aside

\* A rename that is queued stays so while the flow waits for the listing.
LEMMA QueuedStay ==
    ASSUME CInv, Aside, mem.flow.step = "gather", mem'.count = mem.count,
           \A i \in Renames(mem) : mem.log[i].st = "queued"
    PROVE  \A i \in Renames(mem') : mem'.log[i].st = "queued"
<1>1. Shaped /\ RowsThere /\ mem.count \in Nat
      BY MemNamed DEF CInv, Mems
<1>2. CASE UserRenames \/ UserChanges
  <2>1. PICK kind, drops : Records(kind, drops) /\ RecordsAlso(kind)
        BY <1>1, <1>2, UserRecords
  <2>2. kind # "rename"
        BY <1>1, <2>1 DEF RecordsAlso
  <2>   QED
        BY <2>1, <2>2 DEF Records, RecordsAlso, Renames
<1>3. CASE Send \/ Resend
  <2>1. PICK i \in DOMAIN mem.log :
           \/ mem.log[i].st = "writing" /\ CanSendLive /\ Emits(i, "sent")
           \/ mem.log[i].st = "writing" /\ Becomes(mem'.log, mem.log, i, "queued")
        BY <1>1, <1>3, SendEmits
  <2>2. \E st : Becomes(mem'.log, mem.log, i, st)
        BY <2>1 DEF Emits
  <2>3. i \notin Renames(mem)
        BY <2>1
  <2>   QED
        BY <2>2, <2>3 DEF Becomes, Renames
<1>4. CASE Answered
      BY <1>1, <1>4, AnsweredShrinks DEF Renames
<1>5. CASE Write \/ AnswerRecorded \/ Renamed \/ MoveLive
  <2>1. LogShrinks
        BY <1>5, LogShrinking
  <2>   QED
        BY <2>1 DEF LogShrinks, Renames
<1>   QED
      BY <1>2, <1>3, <1>4, <1>5 DEF Aside

\* What was renamed here before the listing was asked for is queued until the refresh looks, and
\* came after nothing that the listing has, unless the count tells (refreshFileIndex).
LEMMA AskedStays ==
    ASSUME CInv, CInv', Plain, Asked, [CatchUpNext]_cvars
    PROVE  Asked'
<1>1. Shaped /\ RowsThere
      BY DEF CInv
<1>2. mem.flow.renames \in Nat /\ mem.count \in Nat /\ mem'.flow.renames \in Nat
  <2>1. mem' \in Mems(made')
        BY DEF CInv, Shaped, MemTypeOK
  <2>   QED
        BY <1>1, <2>1, MemNamed DEF Mems, Flows
<1>3. CASE mem'.flow.step # "gather"
      BY <1>3 DEF CInv, Stages, Asked
<1>4. CASE Aside
  <2>1. mem'.flow = mem.flow /\ project' = project
        BY <1>4, AsideRests
  <2>2. mem'.count \in Nat /\ mem.count <= mem'.count
        BY <1>4, CountGrows DEF Aside, DeviceNext
  <2>3. ASSUME mem.flow.listing \in {"asked", "read"}
        PROVE  /\ mem.flow.renames <= mem'.count
               /\ mem.flow.renames = mem'.count => /\ mem.flow.renames = mem.count
                                                   /\ mem'.count = mem.count
    <3>1. mem.flow.renames <= mem.count
          BY <2>3 DEF Asked
    <3>   QED
          BY <1>2, <2>2, <3>1
  <2>4. ASSUME mem.flow.listing \in {"asked", "read"}, mem.flow.renames = mem'.count
        PROVE  \A i \in Renames(mem') : mem'.log[i].st = "queued"
    <3>1. mem'.count = mem.count /\ mem.flow.renames = mem.count
          BY <2>3, <2>4
    <3>2. mem.flow.step = "gather" /\ \A i \in Renames(mem) : mem.log[i].st = "queued"
          BY <2>4, <3>1 DEF Asked, CInv, Stages
    <3>   QED
          BY <1>4, <3>1, <3>2, QueuedStay
  <2>   QED
        BY <2>1, <2>3, <2>4 DEF Asked, OwnAfter
<1>5. CASE Connects \/ JoinAgain
  <2>1. PICK retry \in BOOLEAN : mem' = FlowStarts(mem, retry)
        BY <1>5 DEF Connects, JoinAgain
  <2>   QED
        BY <1>1, <1>3, <2>1, FlowStartsNamed DEF Starts
<1>6. CASE StatusAnswered \/ Gather \/ FlowEnds
      BY <1>1, <1>3, <1>6, StatusAnsweredNamed, GatherNamed, FlowEndsNamed
<1>7. CASE SettleLanded
  <2>1. mem.flow.step = "settle" /\ \A i \in mem.flow.asked : Landed(i)
        BY <1>7 DEF CInv, Stages, SettleLanded
  <2>   QED
        BY <1>1, <1>3, <1>7, <2>1, SettleLandedNamed DEF TakesIn, AsksOn
<1>8. CASE LandedLeaves
  <2>1. mem.flow.step = "settle"
        BY <1>8 DEF CInv, Stages, LandedLeaves
  <2>   QED
        BY <1>1, <1>3, <1>8, <2>1, LandedLeavesNamed DEF Leaves, AsksOn
<1>9. CASE ApplyRow
      BY <1>1, <1>3, <1>9, ApplyRowNamed DEF Applies
<1>10. CASE Join
  <2>1. /\ mem'.log = mem.log /\ mem.flow.step = "settle"
        /\ mem'.count = mem.count /\ mem'.flow.renames = mem.count /\ mem'.flow.listing = "asked"
        BY <1>1, <1>10, JoinNamed, JoinAlso DEF Joins, Keeps
  <2>2. \A i \in DOMAIN mem.log : mem.log[i].kind = "rename" => mem.log[i].st = "queued"
        BY <2>1 DEF Plain
  <2>   QED
        BY <1>2, <2>1, <2>2 DEF Asked, Renames
<1>11. CASE ListingRead
  <2>1. /\ mem'.log = mem.log /\ mem.flow.listing = "asked" /\ project' = project
        /\ mem'.count = mem.count /\ mem'.flow.renames = mem.flow.renames
        /\ mem'.flow.read = Len(project.journal)
        BY <1>1, <1>11, ListingReadNamed, ListingReadAlso DEF FlowOnly, Inside, Keeps
  <2>2. ~OwnAfter(Len(project.journal))
    <3>1. project.journal \in Seq(Rows)
          BY <1>1 DEF Shaped, ProjectTypeOK
    <3>   QED
          BY <3>1 DEF OwnAfter
  <2>3. ~OwnAfter(mem.flow.read)'
        BY <2>1, <2>2 DEF OwnAfter
  <2>   QED
        BY <2>1, <2>3 DEF Asked, Renames
<1>12. CASE Refresh
      BY <1>1, <1>12, RefreshNamed DEF Refreshes, Asked
<1>13. CASE JoinAnswered
  <2>1. /\ mem'.log = mem.log /\ mem'.flow.listing = mem.flow.listing /\ project' = project
        /\ mem'.count = mem.count /\ mem'.flow.renames = mem.flow.renames
        /\ mem'.flow.read = mem.flow.read
        BY <1>1, <1>13, JoinAnsweredNamed, JoinAnsweredAlso DEF FlowOnly, Inside, Keeps, Passes
  <2>   QED
        BY <2>1 DEF Asked, Renames, OwnAfter
<1>14. CASE ServerNext
  <2>1. mem' = mem
        BY <1>14 DEF ServerNext, ServerApplies, ServerTakesIn, ServerAnswersJoin, TeammateRenames
  <2>2. ASSUME mem.flow.listing = "read", mem.flow.renames = mem.count
        PROVE  ~OwnAfter(mem.flow.read)'
    <3>1. (\A i \in Renames(mem) : mem.log[i].st = "queued") /\ ~OwnAfter(mem.flow.read)
          BY <2>2 DEF Asked
    <3>2. OwnRenames' = OwnRenames
          BY <1>14, <3>1, NoneLands
    <3>3. OwnAfter(mem.flow.read)' <=> \E j \in OwnRenames' : j > mem.flow.read
          BY <2>1 DEF OwnAfter, OwnRenames, Own
    <3>   QED
          BY <3>1, <3>2, <3>3, OwnAfterNamed
  <2>   QED
        BY <2>1, <2>2 DEF Asked
<1>15. CASE Drops \/ Crash
  <2>1. mem'.flow = NoFlow
        BY <1>1, <1>15, DropsNamed, CrashNamed DEF DropsAll, CrashesTo
  <2>   QED
        BY <2>1 DEF Asked, NoFlow
<1>16. CASE UNCHANGED cvars
      BY <1>16 DEF cvars, Asked, OwnAfter
<1>   QED
      BY <1>4, <1>5, <1>6, <1>7, <1>8, <1>9, <1>10, <1>11, <1>12, <1>13, <1>14, <1>15, <1>16
      DEF CatchUpNext, Aside, ServerNext

\* Where the refresh sees no rename here, there is none since the listing was read.
LEMMA RefreshSaw ==
    ASSUME CInv, Asked, Refresh
    PROVE  LET l == Collapsed(mem.log)
               here == \/ \E i \in DOMAIN l : l[i].kind = "rename" /\ l[i].st = "queued"
                       \/ mem.count # mem.flow.renames
           IN ~here => (\A i \in DOMAIN l : l[i].kind # "rename") /\ ~OwnAfter(mem.flow.read)
<1>   DEFINE l == Collapsed(mem.log)
             here == \/ \E i \in DOMAIN l : l[i].kind = "rename" /\ l[i].st = "queued"
                     \/ mem.count # mem.flow.renames
<1>1. mem.flow.listing = "read" /\ mem'.log = l
      BY RefreshNamed DEF CInv, Refreshes
<1>2. \A i \in DOMAIN l : /\ i \in DOMAIN mem.log /\ l[i].kind = mem.log[i].kind
                          /\ l[i].st = mem.log[i].st
  <2>1. LogShrinks
        BY LogShrinking
  <2>   QED
        BY <1>1, <2>1 DEF LogShrinks
<1>   HIDE DEF l
<1>3. ASSUME ~here
      PROVE  (\A i \in DOMAIN l : l[i].kind # "rename") /\ ~OwnAfter(mem.flow.read)
  <2>1. /\ \A i \in Renames(mem) : mem.log[i].st = "queued"
        /\ ~OwnAfter(mem.flow.read)
        BY <1>1, <1>3 DEF Asked
  <2>2. \A i \in DOMAIN l : ~(l[i].kind = "rename" /\ l[i].st = "queued")
        BY <1>3
  <2>   QED
        BY <1>2, <2>1, <2>2 DEF Renames
<1>   QED
      BY <1>3 DEF l

\* Nothing was renamed here since the listing was read, unless the refresh saw it, or the count
\* tells (refreshFileIndex).
LEMMA RefreshedStays ==
    ASSUME CInv, CInv', Asked, Refreshed, [CatchUpNext]_cvars
    PROVE  Refreshed'
<1>1. Shaped /\ RowsThere
      BY DEF CInv
<1>2. mem.count \in Nat /\ past.count \in Nat
      BY <1>1, MemNamed DEF Mems, Shaped, Pasts
<1>3. CASE mem'.flow.step \notin {"gather", "rows"}
      BY <1>3 DEF Refreshed
<1>4. CASE Aside
  <2>1. mem'.flow = mem.flow /\ project' = project /\ past'.count = past.count
        BY <1>4, AsideRests
  <2>2. /\ mem'.count \in Nat /\ mem.count <= mem'.count
        /\ mem'.count = mem.count => Renames(mem') \subseteq Renames(mem)
        BY <1>4, CountGrows DEF Aside, DeviceNext
  <2>3. ASSUME past.count <= mem.count
        PROVE  /\ past.count <= mem'.count
               /\ past.count = mem'.count => past.count = mem.count /\ mem'.count = mem.count
        BY <1>2, <2>2, <2>3
  <2>   QED
        BY <2>1, <2>2, <2>3 DEF Refreshed, Untouched, OwnAfter
<1>5. CASE Connects \/ JoinAgain
  <2>1. PICK retry \in BOOLEAN : mem' = FlowStarts(mem, retry)
        BY <1>5 DEF Connects, JoinAgain
  <2>   QED
        BY <1>1, <1>3, <2>1, FlowStartsNamed DEF Starts
<1>6. CASE StatusAnswered \/ FlowEnds
      BY <1>1, <1>3, <1>6, StatusAnsweredNamed, FlowEndsNamed
<1>7. CASE SettleLanded
  <2>1. mem.flow.step = "settle" /\ \A i \in mem.flow.asked : Landed(i)
        BY <1>7 DEF CInv, Stages, SettleLanded
  <2>   QED
        BY <1>1, <1>3, <1>7, <2>1, SettleLandedNamed DEF TakesIn, AsksOn
<1>8. CASE LandedLeaves
  <2>1. mem.flow.step = "settle"
        BY <1>8 DEF CInv, Stages, LandedLeaves
  <2>   QED
        BY <1>1, <1>3, <1>8, <2>1, LandedLeavesNamed DEF Leaves, AsksOn
<1>9. CASE Join
  <2>1. mem'.flow.listing = "asked" /\ mem'.flow.step = "gather"
        BY <1>1, <1>9, JoinNamed, JoinAlso DEF Joins
  <2>   QED
        BY <2>1 DEF Refreshed
<1>10. CASE ListingRead
  <2>1. mem'.flow.listing = "read"
        BY <1>1, <1>10, ListingReadNamed
  <2>2. mem'.flow.step = "gather"
        BY <2>1 DEF CInv, Stages
  <2>   QED
        BY <2>1, <2>2 DEF Refreshed
<1>11. CASE Refresh
  <2>   DEFINE l == Collapsed(mem.log)
               here == \/ \E i \in DOMAIN l : l[i].kind = "rename" /\ l[i].st = "queued"
                       \/ mem.count # mem.flow.renames
  <2>1. /\ mem.flow.listing = "read" /\ mem'.flow.listing = "done" /\ project' = project
        /\ mem'.count = mem.count /\ mem'.flow.here = here /\ mem'.log = l
        /\ mem'.flow.read = mem.flow.read /\ past'.count = mem.count
        BY <1>1, <1>11, RefreshNamed, RefreshAlso DEF Refreshes, Inside
  <2>3. ASSUME ~here
        PROVE  Renames(mem') = {} /\ ~OwnAfter(mem.flow.read)
        BY <1>11, <2>1, <2>3, RefreshSaw DEF Renames
  <2>   HIDE DEF l
  <2>4. mem'.flow.step # "rows"
    <3>1. mem.flow.step = "gather"
          BY <2>1 DEF CInv, Stages
    <3>   QED
          BY <1>1, <1>11, <3>1, RefreshNamed DEF Refreshes
  <2>   HIDE DEF here
  <2>   QED
        BY <1>2, <2>1, <2>3, <2>4 DEF Refreshed, Untouched, OwnAfter
<1>12. CASE JoinAnswered
  <2>1. /\ mem'.log = mem.log /\ mem'.flow.listing = mem.flow.listing /\ project' = project
        /\ mem'.flow.step = mem.flow.step /\ past' = past
        /\ mem'.count = mem.count /\ mem'.flow.here = mem.flow.here
        /\ mem'.flow.read = mem.flow.read
        BY <1>1, <1>12, JoinAnsweredNamed, JoinAnsweredAlso DEF FlowOnly, Inside, Keeps, Passes
  <2>   QED
        BY <2>1 DEF Refreshed, Untouched, Renames, OwnAfter
<1>13. CASE Gather
  <2>1. /\ mem'.log = mem.log /\ mem'.flow.listing = "done" /\ project' = project
        /\ mem.flow.listing = "done" /\ mem.flow.step = "gather" /\ past'.count = past.count
        /\ mem'.count = mem.count /\ mem'.flow.here = mem.flow.here
        /\ mem'.flow.read = mem.flow.read
        BY <1>1, <1>13, GatherNamed, GatherAlso DEF FlowOnly, Inside, Keeps, Passes
  <2>   QED
        BY <2>1 DEF Refreshed, Untouched, Renames, OwnAfter
<1>14. CASE ApplyRow
  <2>1. Applies(Earliest(mem.flow.todo))
        BY <1>1, <1>14, ApplyRowNamed
  <2>2. /\ mem'.log = mem.log /\ mem'.flow.listing = mem.flow.listing /\ project' = project
        /\ mem'.flow.step = mem.flow.step /\ past'.count = past.count
        /\ mem'.count = mem.count /\ mem'.flow.here = mem.flow.here
        /\ mem'.flow.read = mem.flow.read
        BY <1>1, <1>14, <2>1, ApplyRowAlso DEF Applies, Inside, Passes
  <2>   QED
        BY <2>2 DEF Refreshed, Untouched, Renames, OwnAfter
<1>15. CASE ServerNext
  <2>1. mem' = mem /\ past' = past
        BY <1>15 DEF ServerNext, ServerApplies, ServerTakesIn, ServerAnswersJoin, TeammateRenames
  <2>2. ASSUME Untouched(mem.flow.read)
        PROVE  Untouched(mem.flow.read)'
    <3>1. Renames(mem) = {} /\ ~OwnAfter(mem.flow.read)
          BY <2>2 DEF Untouched
    <3>2. OwnRenames' = OwnRenames
          BY <1>15, <3>1, NoneLands
    <3>3. OwnAfter(mem.flow.read)' <=> \E j \in OwnRenames' : j > mem.flow.read
          BY <2>1 DEF OwnAfter, OwnRenames, Own
    <3>   QED
          BY <2>1, <3>1, <3>2, <3>3, OwnAfterNamed DEF Untouched
  <2>   QED
        BY <2>1, <2>2 DEF Refreshed
<1>16. CASE Drops \/ Crash
  <2>1. mem'.flow = NoFlow
        BY <1>1, <1>16, DropsNamed, CrashNamed DEF DropsAll, CrashesTo
  <2>   QED
        BY <1>3, <2>1 DEF NoFlow
<1>17. CASE UNCHANGED cvars
      BY <1>17 DEF cvars, Refreshed, Untouched, OwnAfter
<1>   QED
      BY <1>4, <1>5, <1>6, <1>7, <1>8, <1>9, <1>10, <1>11, <1>12, <1>13, <1>14, <1>15, <1>16, <1>17
      DEF CatchUpNext, Aside, ServerNext

-----------------------------------------------------------------------------
(* What was applied live.                                                  *)

\* The journal's rows stay, the clock grows, and what was applied live is remembered as such.
Lasts ==
    /\ \A k \in DOMAIN project.journal :
          k \in DOMAIN project'.journal /\ project'.journal[k] = project.journal[k]
    /\ \A n \in {1, 2} : mem.clock[n] <= mem'.clock[n]
    /\ mem.applied \subseteq mem'.applied /\ past'.live \subseteq past.live \cup mem'.applied

\* Covered by a clock is covered by a later one.
LEMMA CoversOn ==
    ASSUME Shaped, Shaped', Lasts, NEW k \in DOMAIN project.journal, Covered(k, mem.clock)
    PROVE  \A n \in {1, 2} : project'.journal[k].clock[n] <= mem'.clock[n]
<1>1. project.journal[k].clock \in Clock
  <2>1. project.journal \in Seq(Rows)
        BY DEF Shaped, ProjectTypeOK
  <2>2. project.journal[k] \in Rows
        BY <2>1
  <2>   QED
        BY <2>2 DEF Rows
<1>2. mem.clock \in Clock /\ mem'.clock \in Clock
      BY DEF Shaped, MemTypeOK, Mems
<1>3. \A n \in {1, 2} : /\ project.journal[k].clock[n] \in Nat
                          /\ mem.clock[n] \in Nat /\ mem'.clock[n] \in Nat
      BY <1>1, <1>2 DEF Clock
<1>4. project'.journal[k] = project.journal[k]
      BY DEF Lasts
<1>5. ASSUME NEW n \in {1, 2} PROVE project.journal[k].clock[n] <= mem'.clock[n]
  <2>1. project.journal[k].clock[n] <= mem.clock[n] /\ mem.clock[n] <= mem'.clock[n]
        BY DEF Covered, Lasts
  <2>   QED
        BY <1>3, <2>1
<1>   QED
      BY <1>4, <1>5

\* So what was applied live is still remembered, or covered.
LEMMA ToldStays ==
    ASSUME Shaped, Shaped', RowsThere', Remembered, Lasts
    PROVE  past'.live \subseteq DOMAIN project'.journal /\ Told(mem.clock)'
<1>1. past'.live \subseteq DOMAIN project'.journal
      BY DEF RowsThere, Remembered, Lasts
<1>2. \A k \in past'.live : \/ k \in mem'.applied
                            \/ \A n \in {1, 2} : project'.journal[k].clock[n] <= mem'.clock[n]
      BY CoversOn DEF Remembered, Told, Lasts
<1>   QED
      BY <1>1, <1>2 DEF Told, Covered

\* No join is out, and no catch-up is at hand.
LEMMA RememberedOff ==
    ASSUME OneJoin', mem'.flow.step \notin {"gather", "rows"},
           past'.live \subseteq DOMAIN project'.journal, Told(mem.clock)'
    PROVE  Remembered'
<1>1. ~JoinOut'
      BY DEF OneJoin
<1>2. /\ \A n \in DOMAIN up' : up'[n].type # "join"
      /\ \A n \in DOMAIN down' : down'[n].type # "joined"
      /\ project'.join = <<>>
      BY <1>1 DEF JoinOut, JoinsUp, JoinsDown
<1>   QED
      BY <1>2 DEF Remembered

\* Where the flow was, with no join or answer of one that was not on its way.
Onward ==
    /\ \A n \in DOMAIN up' : up'[n].type = "join" => \E m \in DOMAIN up : up[m] = up'[n]
    /\ \A n \in DOMAIN down' : down'[n].type = "joined" => \E m \in DOMAIN down : down[m] = down'[n]
    /\ project'.join = project.join /\ past'.seen = past.seen
    /\ mem'.flow.step = mem.flow.step /\ mem'.flow.join = mem.flow.join
    /\ mem'.flow.before = mem.flow.before /\ mem'.flow.whole = mem.flow.whole
    /\ mem'.flow.rows = mem.flow.rows /\ mem'.flow.todo = mem.flow.todo
    /\ mem.flow.step = "rows" => mem'.flow.had = mem.flow.had

\* So Remembered holds on.
LEMMA RememberedOn ==
    ASSUME CInv, CInv', OneJoin', Remembered, Lasts, Onward
    PROVE  Remembered'
<1>1. Shaped /\ RowsThere /\ Shaped' /\ RowsThere'
      BY DEF CInv
<1>2. past'.live \subseteq DOMAIN project'.journal /\ Told(mem.clock)'
      BY <1>1, ToldStays
<1>3. mem.flow.step \in {"gather", "rows"} => mem'.flow.before \subseteq DOMAIN project'.journal
      BY DEF Remembered, Lasts, Onward
<1>   DEFINE Tells(c) == \A k \in past'.live : k \in mem'.applied
                            \/ \A n \in {1, 2} : project'.journal[k].clock[n] <= c[n]
             Under(c) == \A n \in {1, 2} : c[n] <= mem'.clock[n]
             Has(rows) == \A k \in past'.live : k \in rows => k \in mem'.applied
             Full(rows, whole) ==
                whole => \A k \in mem'.flow.before :
                            \/ k \in rows
                            \/ \A n \in {1, 2} : project'.journal[k].clock[n] <= mem'.clock[n]
<1>4. ASSUME NEW c \in Clock, Told(c), Below(c) PROVE Tells(c) /\ Under(c)
  <2>1. Tells(c)
        BY <1>4 DEF Told, Covered, Lasts, Remembered
  <2>2. Under(c)
    <3>1. mem.clock \in Clock /\ mem'.clock \in Clock
          BY <1>1 DEF Shaped, MemTypeOK, Mems
    <3>   QED
          BY <1>4, <3>1 DEF Below, Lasts, Clock
  <2>   QED
        BY <2>1, <2>2
<1>5. ASSUME NEW rows, Had(rows) PROVE Has(rows)
      BY <1>5 DEF Had, Lasts
<1>6. ASSUME NEW rows, NEW whole, Fills(rows, whole), mem.flow.step \in {"gather", "rows"}
      PROVE  Full(rows, whole)
      BY <1>1, <1>6, CoversOn DEF Fills, Onward, Remembered
<1>7. \A n \in DOMAIN up' : up'[n].type = "join" => Tells(up'[n].clock) /\ Under(up'[n].clock)
  <2>   SUFFICES ASSUME NEW n \in DOMAIN up', up'[n].type = "join"
                 PROVE  Tells(up'[n].clock) /\ Under(up'[n].clock)
        OBVIOUS
  <2>   HIDE DEF Tells, Under
  <2>1. PICK m \in DOMAIN up : up[m] = up'[n]
        BY DEF Onward
  <2>2. Told(up[m].clock) /\ Below(up[m].clock)
        BY <2>1 DEF Remembered
  <2>3. up[m].clock \in Clock
        BY <1>1, <2>1 DEF Shaped, Requests
  <2>   QED
        BY <1>4, <2>1, <2>2, <2>3
<1>8. project'.join # <<>> => Tells(project'.join) /\ Under(project'.join)
  <2>   HIDE DEF Tells, Under
  <2>1. project.join # <<>> => project.join \in Clock
        BY <1>1 DEF Shaped, ProjectTypeOK
  <2>   QED
        BY <1>4, <2>1 DEF Remembered, Onward
<1>9. \A n \in DOMAIN down' : down'[n].type = "joined" => Has(down'[n].rows)
      BY <1>5 DEF Remembered, Onward
<1>10. \A n \in DOMAIN down' : down'[n].type = "joined" => Full(down'[n].rows, down'[n].whole)
  <2>   SUFFICES ASSUME NEW n \in DOMAIN down', down'[n].type = "joined"
                 PROVE  Full(down'[n].rows, down'[n].whole)
        OBVIOUS
  <2>   HIDE DEF Full
  <2>1. JoinOut'
        BY DEF JoinOut, JoinsDown
  <2>2. mem.flow.step = "gather"
        BY <2>1 DEF OneJoin, Onward
  <2>3. PICK m \in DOMAIN down : down[m] = down'[n]
        BY DEF Onward
  <2>   QED
        BY <1>6, <2>2, <2>3 DEF Remembered
<1>11. mem'.flow.step = "gather" /\ mem'.flow.join = "joined" =>
          Has(mem'.flow.rows) /\ mem'.flow.todo = mem'.flow.rows
      BY <1>5 DEF Remembered, Onward
<1>12. mem'.flow.step \in {"gather", "rows"} /\ mem'.flow.join = "joined" =>
          Full(mem'.flow.rows, mem'.flow.whole)
  <2>   HIDE DEF Full
  <2>   QED
        BY <1>6 DEF Remembered, Onward
<1>13. mem'.flow.step = "rows" =>
          /\ mem'.flow.join = "joined"
          /\ past'.seen \cap mem'.flow.rows \subseteq mem'.flow.had
          /\ \A k \in mem'.flow.rows \ mem'.flow.todo :
                \A n \in {1, 2} : project'.journal[k].clock[n] <= mem'.clock[n]
  <2>1. mem.flow.rows \subseteq DOMAIN project.journal
        BY <1>1 DEF RowsThere
  <2>   QED
        BY <1>1, <2>1, CoversOn DEF Remembered, Onward
<1>14. mem'.flow.step \in {"gather", "rows"} => mem'.flow.before \subseteq DOMAIN project'.journal
      BY <1>3 DEF Onward
<1>   QED
      BY <1>2, <1>7, <1>8, <1>9, <1>10, <1>11, <1>12, <1>13, <1>14
      DEF Remembered, Told, Below, Had, Fills, Covered

\* What was applied live is remembered until no catch-up returns it: a join's clock covers what has
\* been forgotten, and a catch-up that is whole has the rest (noteAppliedLive, forgetAppliedLive).
LEMMA RememberedStays ==
    ASSUME CInv, CInv', OneJoin, OneJoin', Remembered, [CatchUpNext]_cvars
    PROVE  Remembered'
<1>1. Shaped /\ RowsThere /\ Shaped' /\ RowsThere'
      BY DEF CInv
<1>2. /\ mem.clock \in Clock /\ mem'.clock \in Clock /\ project.journal \in Seq(Rows)
      /\ \A n \in {1, 2} : mem.clock[n] \in Nat /\ mem.clock[n] <= mem.clock[n]
  <2>1. mem.clock \in Clock /\ mem'.clock \in Clock /\ project.journal \in Seq(Rows)
        BY <1>1 DEF Shaped, MemTypeOK, Mems, ProjectTypeOK
  <2>   QED
        BY <2>1 DEF Clock
<1>3. ASSUME Lasts, mem'.flow.step \notin {"gather", "rows"} PROVE Remembered'
      BY <1>1, <1>3, ToldStays, RememberedOff
<1>4. ASSUME project'.journal = project.journal, mem'.clock = mem.clock,
             mem.applied \subseteq mem'.applied, past'.live \subseteq past.live \cup mem'.applied
      PROVE  Lasts
      BY <1>2, <1>4 DEF Lasts
<1>5. \A e \in {0, 1} : mem'.clock = <<mem.clock[1] + e, mem.clock[2]>> =>
         \A n \in {1, 2} : mem.clock[n] <= mem'.clock[n]
      BY <1>2 DEF Clock
<1>6. \A c : mem'.clock = <<Larger(mem.clock[1], c), mem.clock[2]>> =>
         \A n \in {1, 2} : mem.clock[n] <= mem'.clock[n]
  <2>1. \A c : mem'.clock = <<Larger(mem.clock[1], c), mem.clock[2]>> =>
           mem'.clock[1] = Larger(mem.clock[1], c) /\ mem'.clock[2] = mem.clock[2]
        OBVIOUS
  <2>   QED
        BY <1>2, <2>1 DEF Clock, Larger
<1>7. ASSUME Shrinks PROVE \A n \in DOMAIN down' : \E m \in DOMAIN down : down[m] = down'[n]
  <2>1. PICK e \in {0, 1} : \A n \in DOMAIN down' : n + e \in DOMAIN down /\ down'[n] = down[n + e]
        BY <1>1, <1>7, ShrinksNamed
  <2>   QED
        BY <2>1
<1>8. ASSUME Lasts, Shrinks, mem'.flow = mem.flow, project' = project, past'.seen = past.seen,
             \A n \in DOMAIN up' : up'[n].type = "join" => \E m \in DOMAIN up : up[m] = up'[n]
      PROVE  Remembered'
  <2>1. Onward
        BY <1>7, <1>8 DEF Onward
  <2>   QED
        BY <1>8, <2>1, RememberedOn
<1>9. ASSUME Lasts, Shrinks, mem'.flow = mem.flow, project' = project, past'.seen = past.seen,
             up' = up
      PROVE  Remembered'
      BY <1>8, <1>9
<1>10. CASE DeviceNext
  <2>1. project' = project /\ Shrinks
        BY <1>10, DeviceSteps
  <2>2. CASE Aside
    <3>1. mem'.flow = mem.flow /\ past'.seen = past.seen
          BY <2>2, AsideRests
    <3>2. CASE UserRenames \/ UserChanges
      <4>1. PICK kind, drops : Records(kind, drops) /\ past' = past
            BY <1>1, <3>2, UserRecords
      <4>   QED
            BY <1>4, <1>9, <2>1, <3>1, <4>1 DEF Records
    <3>3. CASE Write
          BY <1>4, <1>9, <2>1, <3>1, <3>3 DEF Write
    <3>4. CASE Send \/ Resend
      <4>1. /\ past' = past /\ mem'.applied = mem.applied
            /\ \/ mem'.clock = <<mem.clock[1] + 1, mem.clock[2]>>
                  /\ \E i : up' = Append(up, [type |-> "op", id |-> i, clock |-> mem'.clock])
               \/ mem'.clock = mem.clock /\ up' = up
            BY <1>1, <3>4, SendEmits DEF Emits
      <4>2. Lasts
            BY <1>4, <1>5, <2>1, <4>1 DEF Lasts
      <4>3. \A n \in DOMAIN up' : up'[n].type = "join" => \E m \in DOMAIN up : up[m] = up'[n]
        <5>1. CASE \E i : up' = Append(up, [type |-> "op", id |-> i, clock |-> mem'.clock])
          <6>1. PICK o : up' = Append(up, o) /\ o.type = "op"
                BY <5>1
          <6>2. up \in Seq(Requests)
                BY <1>1 DEF Shaped
          <6>3. \A n \in DOMAIN up' : up'[n] = o \/ (n \in DOMAIN up /\ up'[n] = up[n])
                BY <6>1, <6>2
          <6>   QED
                BY <6>1, <6>3
        <5>   QED
              BY <4>1, <5>1
      <4>   QED
            BY <1>8, <2>1, <3>1, <4>2, <4>3
    <3>5. CASE Answered
      <4>1. /\ past' = past /\ mem'.applied = mem.applied /\ up' = up
            /\ \/ mem'.clock = mem.clock
               \/ mem'.clock = <<Larger(mem.clock[1], project.journal[Head(down).row].clock[1]),
                                 mem.clock[2]>>
            BY <1>1, <3>5, AnsweredNamed DEF Inside, Settles, Keeps
      <4>2. Lasts
            BY <1>4, <1>6, <2>1, <4>1 DEF Lasts
      <4>   QED
            BY <1>9, <2>1, <3>1, <4>1, <4>2
    <3>6. CASE AnswerRecorded
      <4>1. /\ past' = past /\ mem'.applied = mem.applied /\ up' = up
            /\ \E k \in DOMAIN project.journal :
                  mem'.clock = <<Larger(mem.clock[1], project.journal[k].clock[1]), mem.clock[2]>>
            BY <3>6, AnswerRecordedAlso DEF Settles
      <4>2. Lasts
            BY <1>6, <2>1, <4>1 DEF Lasts
      <4>   QED
            BY <1>9, <2>1, <3>1, <4>1, <4>2
    <3>7. CASE Renamed
      <4>1. /\ past' = past /\ mem.applied \subseteq mem'.applied /\ up' = up
            /\ mem'.clock = mem.clock
            BY <1>1, <3>7, RenamedNamed, RenamedAlso DEF Inside, Keeps
      <4>   QED
            BY <1>4, <1>9, <2>1, <3>1, <4>1
    <3>8. CASE MoveLive
      <4>1. /\ past'.live = past.live \cup {Head(mem.handlers).row} /\ up' = up
            /\ mem'.applied = mem.applied \cup {Head(mem.handlers).row}
            /\ mem'.clock = mem.clock
            BY <1>1, <3>8, MoveLiveNamed, MoveLiveAlso DEF Inside, Keeps
      <4>2. Lasts
            BY <1>4, <2>1, <4>1
      <4>   QED
            BY <1>9, <2>1, <3>1, <4>1, <4>2
    <3>   QED
          BY <2>2, <3>2, <3>3, <3>4, <3>5, <3>6, <3>7, <3>8 DEF Aside
  <2>3. CASE Connects \/ JoinAgain
    <3>1. PICK retry \in BOOLEAN : mem' = FlowStarts(mem, retry) /\ past' = past
          BY <2>3 DEF Connects, JoinAgain
    <3>2. /\ mem'.clock = mem.clock /\ mem'.applied = mem.applied
          /\ mem'.flow.step \in {"ask", "settle"}
          BY <1>1, <3>1, FlowStartsNamed DEF Starts
    <3>   QED
          BY <1>3, <1>4, <2>1, <3>1, <3>2
  <2>4. CASE StatusAnswered
        BY <1>1, <1>3, <1>4, <2>1, <2>4, StatusAnsweredNamed DEF FlowOnly, Keeps
  <2>5. CASE SettleLanded
    <3>1. mem.flow.step = "settle" /\ \A i \in mem.flow.asked : Landed(i)
          BY <2>5 DEF CInv, Stages, SettleLanded
    <3>2. TakesIn(Earliest(mem.flow.asked), RowOf(Earliest(mem.flow.asked)))
          BY <1>1, <2>5, <3>1, SettleLandedNamed
    <3>3. Lasts
          BY <1>6, <2>1, <3>2 DEF TakesIn, Lasts
    <3>   QED
          BY <1>3, <3>1, <3>2, <3>3 DEF TakesIn, AsksOn
  <2>6. CASE LandedLeaves
    <3>1. mem.flow.step = "settle"
          BY <2>6 DEF CInv, Stages, LandedLeaves
    <3>   QED
          BY <1>1, <1>3, <1>4, <2>1, <2>6, <3>1, LandedLeavesNamed DEF Leaves, AsksOn
  <2>7. CASE ListingRead \/ Refresh
    <3>1. mem.flow.step = "gather"
          BY <1>1, <2>7, ListingReadNamed, RefreshNamed DEF Refreshes, CInv, Stages
    <3>2. /\ mem'.clock = mem.clock /\ mem'.applied = mem.applied /\ up' = up
          /\ past'.live = past.live /\ past'.seen = past.seen
          /\ mem'.flow.step = mem.flow.step /\ mem'.flow.join = mem.flow.join
          /\ mem'.flow.before = mem.flow.before /\ mem'.flow.whole = mem.flow.whole
          /\ mem'.flow.rows = mem.flow.rows /\ mem'.flow.todo = mem.flow.todo
          BY <1>1, <2>7, ListingReadNamed, ListingReadAlso, RefreshNamed, RefreshAlso
          DEF FlowOnly, Inside, Keeps, Refreshes
    <3>3. Onward
          BY <1>7, <2>1, <3>1, <3>2 DEF Onward
    <3>   QED
          BY <1>4, <2>1, <3>2, <3>3, RememberedOn
  <2>8. CASE Join
    <3>   DEFINE j == [type |-> "join", clock |-> mem.clock]
    <3>1. /\ mem'.clock = mem.clock /\ mem'.applied = mem.applied /\ past' = past /\ down' = down
          /\ mem.flow.step = "settle" /\ mem'.flow.step = "gather" /\ mem'.flow.join = mem.flow.join
          /\ mem'.flow.before = mem.applied /\ up' = Append(up, j)
          BY <1>1, <2>8, JoinNamed, JoinAlso DEF Joins, Keeps
    <3>2. mem'.flow.join = "none" /\ ~JoinOut
          BY <3>1 DEF OneJoin
    <3>3. /\ \A n \in DOMAIN up : up[n].type # "join"
          /\ \A n \in DOMAIN down' : down'[n].type # "joined"
          /\ project'.join = <<>>
          BY <2>1, <3>1, <3>2 DEF JoinOut, JoinsUp, JoinsDown
    <3>4. j.clock = mem'.clock
          BY <3>1
    <3>5. past'.live \subseteq DOMAIN project'.journal /\ Told(mem.clock)'
          BY <1>1, <1>4, <2>1, <3>1, ToldStays
    <3>   HIDE DEF j
    <3>6. \A n \in DOMAIN up' : up'[n].type = "join" => up'[n].clock = mem'.clock
      <4>1. up \in Seq(Requests)
            BY <1>1 DEF Shaped
      <4>2. \A n \in DOMAIN up' : up'[n] = j \/ (n \in DOMAIN up /\ up'[n] = up[n])
            BY <3>1, <4>1
      <4>   QED
            BY <3>3, <3>4, <4>2
    <3>7. mem'.flow.before \subseteq DOMAIN project'.journal
          BY <1>1, <3>1 DEF RowsThere
    <3>   QED
          BY <1>2, <3>1, <3>2, <3>3, <3>5, <3>6, <3>7 DEF Remembered, Told, Below, Covered
  <2>9. CASE JoinAnswered
    <3>1. /\ mem'.clock = mem.clock /\ mem'.applied = mem.applied /\ past' = past
          /\ down # <<>> /\ Head(down).type \in {"joined", "refused"}
          /\ mem'.flow.step = mem.flow.step /\ mem'.flow.before = mem.flow.before
          /\ \/ /\ Head(down).type = "joined" /\ mem'.flow.join = "joined"
                /\ mem'.flow.rows = Head(down).rows /\ mem'.flow.todo = Head(down).rows
                /\ mem'.flow.whole = Head(down).whole
             \/ mem'.flow.join = "refused"
          BY <1>1, <2>9, JoinAnsweredNamed, JoinAnsweredAlso DEF FlowOnly, Keeps, Passes
    <3>2. 1 \in DOMAIN down /\ down[1] = Head(down)
          BY <1>1, <2>1, <3>1, ShrinksNamed
    <3>3. JoinOut
          BY <3>1, <3>2 DEF JoinOut, JoinsDown
    <3>4. mem.flow.step = "gather" /\ ~JoinOut'
          BY <3>1, <3>3 DEF OneJoin
    <3>5. /\ \A n \in DOMAIN up' : up'[n].type # "join"
          /\ \A n \in DOMAIN down' : down'[n].type # "joined"
          /\ project'.join = <<>>
          BY <3>4 DEF JoinOut, JoinsUp, JoinsDown
    <3>6. Head(down).type = "joined" => Had(Head(down).rows) /\ Fills(Head(down).rows, Head(down).whole)
          BY <3>2 DEF Remembered
    <3>7. past'.live \subseteq DOMAIN project'.journal /\ Told(mem.clock)'
          BY <1>1, <1>4, <2>1, <3>1, ToldStays
    <3>8. mem'.flow.before \subseteq DOMAIN project'.journal
          BY <2>1, <3>1, <3>4 DEF Remembered
    <3>   QED
          BY <2>1, <3>1, <3>4, <3>5, <3>6, <3>7, <3>8 DEF Remembered, Had, Fills, Covered
  <2>10. CASE Gather
    <3>1. /\ mem'.clock = mem.clock /\ mem'.applied = mem.applied
          /\ past'.live = past.live /\ past'.seen = past.live
          /\ mem.flow.step = "gather" /\ mem'.flow.before = mem.flow.before
          /\ mem'.flow.rows = mem.flow.rows /\ mem'.flow.todo = mem.flow.todo
          /\ mem'.flow.whole = mem.flow.whole /\ mem'.flow.join = mem.flow.join
          /\ mem.flow.join \in {"joined", "refused"}
          /\ mem.flow.join = "refused" => mem'.flow.step = "again"
          /\ mem.flow.join = "joined" => mem'.flow.step = "rows" /\ mem'.flow.had = mem.applied
          BY <1>1, <2>10, GatherNamed, GatherAlso DEF FlowOnly, Keeps, Passes
    <3>2. Lasts
          BY <1>4, <2>1, <3>1
    <3>3. CASE mem.flow.join = "refused"
          BY <1>3, <3>1, <3>2, <3>3
    <3>4. CASE mem.flow.join = "joined"
      <4>1. ~JoinOut'
            BY <3>1, <3>4 DEF OneJoin
      <4>2. /\ \A n \in DOMAIN up' : up'[n].type # "join"
            /\ \A n \in DOMAIN down' : down'[n].type # "joined"
            /\ project'.join = <<>>
            BY <4>1 DEF JoinOut, JoinsUp, JoinsDown
      <4>3. past'.live \subseteq DOMAIN project'.journal /\ Told(mem.clock)'
            BY <1>1, <3>2, ToldStays
      <4>4. /\ Had(mem.flow.rows) /\ mem.flow.todo = mem.flow.rows
            /\ Fills(mem.flow.rows, mem.flow.whole)
            /\ mem'.flow.before \subseteq DOMAIN project'.journal
            BY <2>1, <3>1, <3>4 DEF Remembered
      <4>5. mem'.flow.rows \ mem'.flow.todo = {}
            BY <3>1, <4>4
      <4>6. past'.seen \cap mem'.flow.rows \subseteq mem'.flow.had
            BY <3>1, <3>4, <4>4 DEF Had
      <4>   QED
            BY <2>1, <3>1, <3>4, <4>2, <4>3, <4>4, <4>5, <4>6 DEF Remembered, Fills, Covered
    <3>   QED
          BY <3>1, <3>3, <3>4
  <2>11. CASE ApplyRow
    <3>   DEFINE k == Earliest(mem.flow.todo)
    <3>1. /\ k \in mem.flow.todo /\ k \in DOMAIN project.journal
          /\ mem'.clock = MergedClock(mem.clock, project.journal[k].clock)
          /\ mem'.applied = mem.applied
          /\ past'.live = past.live /\ past'.seen = past.seen
          /\ mem.flow.step = "rows" /\ mem'.flow.step = "rows" /\ mem'.flow.before = mem.flow.before
          /\ mem'.flow.rows = mem.flow.rows /\ mem'.flow.todo = mem.flow.todo \ {k}
          /\ mem'.flow.whole = mem.flow.whole /\ mem'.flow.join = mem.flow.join
          /\ mem'.flow.had = mem.flow.had
          BY <1>1, <2>11, ApplyRowNamed, ApplyRowAlso DEF Applies, Passes
    <3>   HIDE DEF k
    <3>2. project.journal[k].clock \in Clock
      <4>1. project.journal[k] \in Rows
            BY <1>2, <3>1
      <4>   QED
            BY <4>1 DEF Rows
    <3>3. \A n \in {1, 2} : /\ mem.clock[n] <= mem'.clock[n]
                            /\ project.journal[k].clock[n] <= mem'.clock[n]
      <4>1. /\ mem'.clock[1] = Larger(mem.clock[1], project.journal[k].clock[1])
            /\ mem'.clock[2] = Larger(mem.clock[2], project.journal[k].clock[2])
            BY <3>1 DEF MergedClock
      <4>2. \A n \in {1, 2} : mem.clock[n] \in Nat /\ project.journal[k].clock[n] \in Nat
            BY <1>2, <3>2 DEF Clock
      <4>   QED
            BY <4>1, <4>2 DEF Larger
    <3>4. Lasts
          BY <2>1, <3>1, <3>3 DEF Lasts
    <3>5. ~JoinOut'
          BY <3>1 DEF OneJoin
    <3>6. /\ \A n \in DOMAIN up' : up'[n].type # "join"
          /\ \A n \in DOMAIN down' : down'[n].type # "joined"
          /\ project'.join = <<>>
          BY <3>5 DEF JoinOut, JoinsUp, JoinsDown
    <3>7. past'.live \subseteq DOMAIN project'.journal /\ Told(mem.clock)'
          BY <1>1, <3>4, ToldStays
    <3>8. /\ mem.flow.join = "joined" /\ mem.flow.before \subseteq DOMAIN project.journal
          /\ past.seen \cap mem.flow.rows \subseteq mem.flow.had
          /\ \A i \in mem.flow.rows \ mem.flow.todo : Covered(i, mem.clock)
          /\ Fills(mem.flow.rows, mem.flow.whole)
          BY <3>1 DEF Remembered
    <3>9. ASSUME NEW i \in mem.flow.rows \ (mem.flow.todo \ {k})
          PROVE  \A n \in {1, 2} : project'.journal[i].clock[n] <= mem'.clock[n]
      <4>1. CASE i = k
            BY <2>1, <3>3, <4>1
      <4>2. CASE i # k
        <5>1. i \in DOMAIN project.journal /\ Covered(i, mem.clock)
              BY <1>1, <3>8, <4>2 DEF RowsThere
        <5>   QED
              BY <1>1, <3>4, <5>1, CoversOn
      <4>   QED
            BY <4>1, <4>2
    <3>10. ASSUME mem.flow.whole, NEW i \in mem.flow.before
           PROVE  \/ i \in mem.flow.rows
                  \/ \A n \in {1, 2} : project'.journal[i].clock[n] <= mem'.clock[n]
      <4>1. i \in DOMAIN project.journal /\ (i \in mem.flow.rows \/ Covered(i, mem.clock))
            BY <3>8, <3>10 DEF Fills
      <4>   QED
            BY <1>1, <3>4, <4>1, CoversOn
    <3>   QED
          BY <2>1, <3>1, <3>6, <3>7, <3>8, <3>9, <3>10 DEF Remembered, Fills, Covered
  <2>12. CASE FlowEnds
    <3>1. /\ mem'.clock = mem.clock /\ mem'.applied = mem.applied \ SeenNow /\ past' = past
          /\ mem.flow.step = "rows" /\ mem.flow.todo = {} /\ mem'.flow.step = "live"
          BY <1>1, <2>12, FlowEndsNamed, FlowEndsAlso
    <3>2. ASSUME NEW k \in past.live PROVE k \in mem'.applied \/ Covered(k, mem.clock)
      <4>1. k \in mem.applied \/ Covered(k, mem.clock)
            BY DEF Remembered, Told
      <4>2. k \in SeenNow => \/ k \in mem.flow.rows
                             \/ mem.flow.whole /\ k \in mem.flow.before
            BY DEF SeenNow
      <4>3. k \in mem.flow.rows => Covered(k, mem.clock)
            BY <3>1 DEF Remembered
      <4>4. mem.flow.whole /\ k \in mem.flow.before => k \in mem.flow.rows \/ Covered(k, mem.clock)
            BY <3>1 DEF Remembered, Fills
      <4>   QED
            BY <3>1, <4>1, <4>2, <4>3, <4>4
    <3>3. past'.live \subseteq DOMAIN project'.journal /\ Told(mem.clock)'
          BY <2>1, <3>1, <3>2 DEF Remembered, Told, Covered
    <3>   QED
          BY <3>1, <3>3, RememberedOff
  <2>   QED
        BY <1>10, <2>2, <2>3, <2>4, <2>5, <2>6, <2>7, <2>8, <2>9, <2>10, <2>11, <2>12
        DEF DeviceNext, Aside
<1>11. CASE ServerApplies \/ TeammateRenames
  <2>1. /\ mem' = mem /\ past' = past /\ project'.join = project.join
        /\ \E row \in Rows : project'.journal = Append(project.journal, row)
    <3>1. CASE TeammateRenames
          BY <1>1, <3>1, TeammateRenamesNamed
    <3>2. CASE ServerApplies
      <4>1. Head(up).id \in DOMAIN mem.log
        <5>1. up # <<>> /\ Head(up).type = "op" /\ up' = Tail(up)
              BY <3>2 DEF ServerApplies
        <5>2. 1 \in DOMAIN up /\ up[1] = Head(up)
              BY <1>1, <5>1, HeadGone
        <5>   QED
              BY <5>1, <5>2 DEF CInv, Carried, Sent
      <4>   QED
            BY <1>1, <3>2, <4>1, ServerAppliesNamed DEF Lands
    <3>   QED
          BY <1>11, <3>1, <3>2
  <2>2. PICK row \in Rows : Grows(row)
        BY <1>1, <2>1, GrowsNamed
  <2>3. Lasts
        BY <1>2, <2>1, <2>2 DEF Grows, Lasts
  <2>4. \A n \in DOMAIN up' : \E m \in DOMAIN up : up[m] = up'[n]
    <3>1. CASE up' = up
          BY <3>1
    <3>2. CASE up # <<>> /\ up' = Tail(up)
          BY <1>1, <3>2, HeadGone
    <3>   QED
          BY <1>11, <3>1, <3>2 DEF ServerApplies, TeammateRenames
  <2>5. \A n \in DOMAIN down' : down'[n].type = "joined" => \E m \in DOMAIN down : down[m] = down'[n]
    <3>1. CASE down' = down
          BY <3>1
    <3>2. CASE \E d : down' = Append(down, d) /\ d.type # "joined"
          BY <1>1, <3>2, DownMore
    <3>3. \/ down' = down
          \/ \E type \in {"ack", "renamed"} :
                down' = Append(down, [type |-> type, row |-> Len(project.journal) + 1])
          BY <1>11 DEF ServerApplies, TeammateRenames
    <3>   QED
          BY <3>1, <3>2, <3>3
  <2>6. Onward
        BY <2>1, <2>4, <2>5 DEF Onward
  <2>   QED
        BY <2>3, <2>6, RememberedOn
<1>12. CASE ServerTakesIn
  <2>1. /\ up # <<>> /\ Head(up).type = "join" /\ up' = Tail(up)
        /\ UNCHANGED <<mem, down, past>> /\ project'.journal = project.journal
        /\ project'.join = Head(up).clock
        BY <1>1, <1>12, ServerTakesInNamed
  <2>2. /\ 1 \in DOMAIN up /\ up[1] = Head(up)
        /\ \A n \in DOMAIN up' : n + 1 \in DOMAIN up /\ up'[n] = up[n + 1]
        BY <1>1, <2>1, HeadGone
  <2>3. Told(Head(up).clock) /\ Below(Head(up).clock)
        BY <2>1, <2>2 DEF Remembered
  <2>4. \A n \in DOMAIN up' : up'[n].type = "join" => Told(up'[n].clock) /\ Below(up'[n].clock)
        BY <2>2 DEF Remembered
  <2>5. Told(mem.clock)
        BY DEF Remembered
  <2>   QED
        BY <2>1, <2>3, <2>4, <2>5 DEF Remembered, Told, Below, Had, Fills, Covered
<1>13. CASE ServerAnswersJoin
  <2>1. /\ UNCHANGED <<mem, up, past>> /\ project'.journal = project.journal
        /\ project.join # <<>> /\ project'.join = <<>>
        BY <1>1, <1>13, ServerAnswersJoinNamed
  <2>2. PICK d \in Answers : /\ down' = Append(down, d)
                             /\ \/ /\ d.type = "joined" /\ d.rows \subseteq Unseen(project.join)
                                   /\ d.whole => d.rows = Unseen(project.join)
                                \/ d.type = "refused"
        BY <1>1, <1>13, AnswersJoinAlso
  <2>3. \A n \in DOMAIN down' : (n \in DOMAIN down /\ down'[n] = down[n]) \/ down'[n] = d
        BY <1>1, <2>2, DownMore
  <2>4. /\ Told(project.join) /\ Below(project.join) /\ project.join \in Clock
        /\ mem.flow.step = "gather"
        BY <1>1, <2>1 DEF Remembered, OneJoin, JoinOut, Shaped, ProjectTypeOK
  <2>5. ASSUME NEW k \in DOMAIN project.journal
        PROVE  /\ k \in Unseen(project.join) => ~Covered(k, project.join)
               /\ k \notin Unseen(project.join) => Covered(k, mem.clock)
    <3>1. project.journal[k].clock \in Clock
      <4>1. project.journal[k] \in Rows
            BY <1>2, <2>5
      <4>   QED
            BY <4>1 DEF Rows
    <3>2. \A n \in {1, 2} : /\ project.journal[k].clock[n] \in Nat /\ project.join[n] \in Nat
                            /\ mem.clock[n] \in Nat /\ project.join[n] <= mem.clock[n]
          BY <1>2, <2>4, <3>1 DEF Clock, Below
    <3>   QED
          BY <2>5, <3>2 DEF Unseen, Covered
  <2>6. d.type = "joined" => Had(d.rows)
        BY <2>2, <2>4, <2>5 DEF Had, Told, Unseen
  <2>7. d.type = "joined" => Fills(d.rows, d.whole)
    <3>1. mem.flow.before \subseteq DOMAIN project.journal
          BY <2>4 DEF Remembered
    <3>   QED
          BY <2>2, <2>5, <3>1 DEF Fills
  <2>8. \A n \in DOMAIN down' :
           down'[n].type = "joined" => Had(down'[n].rows) /\ Fills(down'[n].rows, down'[n].whole)
        BY <2>3, <2>6, <2>7 DEF Remembered
  <2>   QED
        BY <2>1, <2>8 DEF Remembered, Told, Below, Had, Fills, Covered
<1>14. CASE Drops
  <2>1. /\ mem'.clock = mem.clock /\ mem'.applied = mem.applied /\ past' = past
        /\ project'.journal = project.journal /\ mem'.flow.step = "off"
        BY <1>1, <1>14, DropsNamed DEF DropsAll, Disconnects, NoFlow
  <2>   QED
        BY <1>3, <1>4, <2>1
<1>15. CASE Crash
  <2>1. /\ past'.live = mem'.applied /\ mem'.flow.step = "off"
        BY <1>1, <1>15, CrashNamed, CrashAlso DEF CrashesTo, NoFlow
  <2>2. past'.live \subseteq DOMAIN project'.journal /\ Told(mem.clock)'
        BY <1>1, <2>1 DEF RowsThere, Told
  <2>   QED
        BY <2>1, <2>2, RememberedOff
<1>16. CASE UNCHANGED cvars
  <2>1. Lasts /\ Shrinks
        BY <1>4, <1>16 DEF cvars, Shrinks
  <2>   QED
        BY <1>9, <1>16, <2>1 DEF cvars
<1>   QED
      BY <1>10, <1>11, <1>12, <1>13, <1>14, <1>15, <1>16 DEF CatchUpNext, DeviceNext

-----------------------------------------------------------------------------
(* What moves the file.                                                    *)

\* A broadcast, the listing and a row of the catch-up move it only where nothing was renamed here
\* since.
LEMMA UndoneStays ==
    ASSUME CInv, Held, Asked, Refreshed, Remembered, NothingUndone, [CatchUpNext]_cvars
    PROVE  NothingUndone'
<1>1. Shaped /\ RowsThere
      BY DEF CInv
<1>2. ASSUME past'.undone = past.undone PROVE NothingUndone'
      BY <1>2 DEF NothingUndone
<1>3. CASE UserRenames \/ UserChanges
      BY <1>1, <1>2, <1>3, UserRecords
<1>4. CASE Write \/ Connects \/ JoinAgain
      BY <1>2, <1>4 DEF Write, Connects, JoinAgain
<1>5. CASE Send \/ Resend \/ AnswerRecorded
      BY <1>1, <1>2, <1>5, SendEmits, AnswerRecordedAlso
<1>6. CASE Answered \/ Renamed \/ StatusAnswered
      BY <1>2, <1>6 DEF Answered, Renamed, StatusAnswered
<1>7. CASE SettleLanded \/ LandedLeaves \/ Join \/ JoinAnswered \/ FlowEnds
      BY <1>2, <1>7 DEF SettleLanded, LandedLeaves, Join, JoinAnswered, FlowEnds
<1>8. CASE ListingRead \/ Gather
      BY <1>1, <1>2, <1>8, ListingReadAlso, GatherAlso
<1>9. CASE ServerNext
      BY <1>2, <1>9 DEF ServerNext, ServerApplies, ServerTakesIn, ServerAnswersJoin, TeammateRenames
<1>10. CASE Drops
      BY <1>2, <1>10 DEF Drops
<1>11. CASE Crash
      BY <1>1, <1>2, <1>11, CrashAlso
<1>12. CASE UNCHANGED cvars
      BY <1>2, <1>12 DEF cvars
<1>13. CASE MoveLive
  <2>   DEFINE h == Head(mem.handlers)
               moves == h.count = mem.count /\ project.journal[h.row].to # at
  <2>1. /\ mem.handlers # <<>>
        /\ past'.undone = (past.undone \/ (moves /\ Undoes(mem.log, h.row)))
        BY <1>1, <1>13, MoveLiveAlso
  <2>2. 1 \in DOMAIN mem.handlers /\ mem.handlers[1] = h
        BY <1>1, <2>1, MemNamed DEF Mems, Handlers
  <2>3. h.count = mem.count => Untouched(h.row)
        BY <2>2 DEF Held
  <2>4. moves => ~Undoes(mem.log, h.row)
        BY <2>3 DEF Untouched, Undoes, Renames
  <2>   QED
        BY <2>1, <2>4 DEF NothingUndone
<1>14. CASE Refresh
  <2>   DEFINE l == Collapsed(mem.log)
               here == \/ \E i \in DOMAIN l : l[i].kind = "rename" /\ l[i].st = "queued"
                       \/ mem.count # mem.flow.renames
               moves == ~here /\ mem.flow.listed # at
  <2>1. /\ past'.undone = (past.undone \/ (moves /\ Undoes(l, mem.flow.read)))
        /\ mem.flow.listing = "read"
        BY <1>1, <1>14, RefreshAlso, RefreshNamed DEF Refreshes
  <2>2. ~here => ~Undoes(l, mem.flow.read)
        BY <1>14, RefreshSaw DEF Undoes
  <2>   QED
        BY <2>1, <2>2 DEF NothingUndone
<1>15. CASE ApplyRow
  <2>   DEFINE k == Earliest(mem.flow.todo)
               moves == k \notin mem.flow.own /\ ~Skipped(k)
  <2>1. past'.undone = (past.undone \/ (moves /\ ~Unguarded(k) /\ Undoes(mem.log, k)))
        BY <1>1, <1>15, ApplyRowAlso
  <2>2. k \in mem.flow.todo /\ mem.flow.step = "rows" /\ k \in DOMAIN project.journal
        BY <1>1, <1>15, ApplyRowNamed DEF Applies
  <2>   HIDE DEF k
  <2>3. ASSUME ~Skipped(k), ~Unguarded(k) PROVE ~Undoes(mem.log, k)
    <3>1. k \notin mem.flow.had /\ ~mem.flow.here
          BY <2>3 DEF Skipped
    <3>2. k \notin past.seen
          BY <1>1, <2>2, <3>1 DEF Remembered, RowsThere
    <3>3. ~(k <= mem.flow.read) /\ mem.count = past.count
          BY <2>3, <3>2 DEF Unguarded
    <3>4. Renames(mem) = {} /\ ~OwnAfter(mem.flow.read)
          BY <2>2, <3>1, <3>3 DEF Refreshed, Untouched
    <3>5. k \in Nat /\ mem.flow.read \in Nat /\ project.journal \in Seq(Rows)
          BY <1>1, <2>2, MemNamed DEF Mems, Flows, Shaped, ProjectTypeOK
    <3>6. ~OwnAfter(k)
          BY <3>3, <3>4, <3>5 DEF OwnAfter
    <3>   QED
          BY <3>4, <3>6 DEF Undoes, Renames
  <2>   QED
        BY <2>1, <2>3 DEF NothingUndone
<1>   QED
      BY <1>3, <1>4, <1>5, <1>6, <1>7, <1>8, <1>9, <1>10, <1>11, <1>12, <1>13, <1>14, <1>15
      DEF CatchUpNext, ServerNext

-----------------------------------------------------------------------------
UndoneInv == CatchUpInv /\ UInv

\* The invariant holds at first.
LEMMA UndoneAtFirst == CatchUpInit => UndoneInv
<1>   SUFFICES ASSUME CatchUpInit PROVE UndoneInv
      OBVIOUS
<1>1. CatchUpInv
      BY AtFirst
<1>   DEFINE nothing == [log |-> <<>>, clock |-> <<0, 0>>, applied |-> {}, at |-> First]
<1>2. /\ mem = Started(nothing)
      /\ project = [at |-> First, journal |-> <<>>, room |-> FALSE, join |-> <<>>]
      /\ up = <<>> /\ down = <<>>
      /\ past = [mistaken |-> {}, ahead |-> {}, undone |-> FALSE, replayed |-> FALSE,
                 outdated |-> FALSE, live |-> {}, seen |-> {}, count |-> 0]
      BY DEF CatchUpInit
<1>3. mem = [log |-> <<>>, clock |-> <<0, 0>>, recorded |-> <<0, 0>>, applied |-> {},
             known |-> {}, count |-> 0, handlers |-> <<>>, flow |-> NoFlow]
      BY <1>2 DEF Started
<1>4. mem.log = <<>> /\ mem.handlers = <<>> /\ mem.flow.step = "off" /\ mem.flow.listing = "none"
      BY <1>3 DEF NoFlow
<1>5. /\ DOMAIN mem.log = {} /\ DOMAIN mem.handlers = {} /\ DOMAIN up = {} /\ DOMAIN down = {}
  <2>1. DOMAIN <<>> = {}
        OBVIOUS
  <2>2. up = <<>> /\ down = <<>>
        BY <1>2
  <2>   QED
        BY <1>4, <2>1, <2>2
<1>6. project.room = FALSE /\ project.join = <<>> /\ past.undone = FALSE /\ past.live = {}
      BY <1>2
<1>7. Plain /\ Quiet /\ Ordered /\ Pending
      BY <1>5, <1>6 DEF Plain, Quiet, Silent, Ordered, Pending
<1>8. Held /\ Asked /\ Refreshed
      BY <1>4, <1>5 DEF Held, Asked, Refreshed
<1>9. Remembered
      BY <1>4, <1>5, <1>6 DEF Remembered, Told
<1>10. NothingUndone
      BY <1>6 DEF NothingUndone
<1>   QED
      BY <1>1, <1>7, <1>8, <1>9, <1>10 DEF UndoneInv, UInv

\* Every step keeps it.
LEMMA UndoneNextKeeps == UndoneInv /\ [CatchUpNext]_cvars => UndoneInv'
<1>   SUFFICES ASSUME UndoneInv, [CatchUpNext]_cvars PROVE UndoneInv'
      OBVIOUS
<1>1. CatchUpInv'
      BY NextKeeps DEF UndoneInv
<1>2. CInv /\ Noted /\ OneJoin /\ CInv' /\ OneJoin'
      BY <1>1 DEF UndoneInv, CatchUpInv
<1>3. Quiet'
      BY <1>2, QuietStays DEF UndoneInv, UInv
<1>4. Plain' /\ Ordered' /\ Pending'
      BY <1>2, <1>3, PlainStays, OrderedStays, PendingStays DEF UndoneInv, UInv
<1>5. Held' /\ Asked' /\ Refreshed'
      BY <1>2, HeldStays, AskedStays, RefreshedStays DEF UndoneInv, UInv
<1>6. Remembered' /\ NothingUndone'
      BY <1>2, RememberedStays, UndoneStays DEF UndoneInv, UInv
<1>   QED
      BY <1>1, <1>3, <1>4, <1>5, <1>6 DEF UndoneInv, UInv

\* UndoneInv holds in every state of every behaviour, for any names and allowances.
THEOREM UndoneInvariant == CatchUpSpec => []UndoneInv
BY UndoneAtFirst, UndoneNextKeeps, PTL DEF CatchUpSpec

\* A teammate's rename that the server had before one of the user's is not applied after it: not
\* live, not by the listing, and not by a catch-up, but for what the guards do not know
\* (handleServerRename, refreshFileIndex, applyServerOperation).
THEOREM NothingUndoneAlways == CatchUpSpec => []NothingUndone
<1>1. UndoneInv => NothingUndone
      BY DEF UndoneInv, UInv
<1>   QED
      BY <1>1, UndoneInvariant, PTL

=============================================================================
