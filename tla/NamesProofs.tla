----------------------------- MODULE NamesProofs -----------------------------
(***************************************************************************)
(* The third proof about CatchUp: when all is sent and answered, the file  *)
(* has the name the server has for it (NamesAgree).                        *)
(*                                                                         *)
(* The user's renames go out, and land, in turn (Turns), so the one that   *)
(* lands last names the file as the user did (MemEnds): while one has not  *)
(* landed, the names will be the same (Unlanded).  Broadcasts come in the  *)
(* order of their rows, each with all later ones behind it (InLine,        *)
(* Closed), so while the last rename's broadcast comes or is in hand, they *)
(* will be too.  Else they are the same already.  One of the three holds   *)
(* on the connection once the refresh is over (Settling); or the last      *)
(* rename is in the catch-up and no guard skips its row (Due), as the      *)
(* listing's name is where the first rename after it starts (ListedName),  *)
(* the catch-up has no gap after the listing (Gathered), and a rename      *)
(* after it is applied, on its way or in the catch-up (Accounted).  The    *)
(* clocks say why a join returns it: no clock that goes out with a join    *)
(* covers a row made after the listing was read (JoinClock).  Across a     *)
(* restart the log of state.json takes the place of the other (FileEnds).  *)
(***************************************************************************)
EXTENDS CatchUpProofs

\* Renames in the journal, the last of them, and a teammate's.
RenameRows == {k \in DOMAIN project.journal : project.journal[k].kind = "rename"}
Latest(k) == k \in RenameRows /\ \A j \in RenameRows : j <= k
MateRows == {k \in DOMAIN project.journal : project.journal[k].id = 0}
RowIs(k, i) == k \in DOMAIN project.journal /\ project.journal[k].id = i

\* On the connection, once the join is out; and it is not refused.
Joined == mem.flow.step \in {"gather", "rows", "live"}
Refused == mem.flow.join = "refused" \/ \E n \in DOMAIN down : down[n].type = "refused"
Looking == mem.flow.listing \in {"asked", "read"}

\* A row of operation is of that operation's kind; and a teammate's row is none's.
Kinds ==
    /\ \A k \in DOMAIN project.journal, i \in DOMAIN mem.log :
          project.journal[k].id = i => project.journal[k].kind = mem.log[i].kind
    /\ \A k \in DOMAIN project.journal, i \in DOMAIN file.log :
          project.journal[k].id = i => project.journal[k].kind = file.log[i].kind
    /\ \A i \in DOMAIN file.log \cap DOMAIN mem.log : file.log[i].kind = mem.log[i].kind
    /\ 0 \notin mem.known /\ mem.flow.own \subseteq Own
    /\ \A n \in DOMAIN down : down[n].type = "ack" => down[n].row \in Own

\* Where the flow is.
Entering ==
    /\ mem.flow.step \in {"ask", "settle"} \/ JoinsUp # {} => mem.handlers = <<>>
    /\ \A n \in JoinsUp : n = 1
    /\ Joined => mem.flow.settled /\ mem.flow.listing # "none" /\ mem.flow.renames <= mem.count
    /\ Joined /\ ~Refused => project.room \/ JoinsUp # {}
    /\ mem.flow.step \in {"rows", "live"} => mem.flow.join = "joined" /\ mem.flow.listing = "done"

\* The server's name is where its last rename took the file.
Named == \A k \in RenameRows : Latest(k) => project.at = project.journal[k].to
\* The listing's name is the server's, but for the renames after it; the first of them takes it from there.
ListedName ==
    mem.flow.listing \in {"read", "done"} =>
       /\ mem.flow.read <= Len(project.journal)
       /\ (\A k \in RenameRows : k <= mem.flow.read) => project.at = mem.flow.listed
       /\ \A f \in RenameRows :
             f > mem.flow.read /\ (\A j \in RenameRows : j > mem.flow.read => f <= j)
                => project.journal[f].from = mem.flow.listed

\* Of the user's renames in a log, those that went out were sent, and land, in turn.
OnWay == {"sent", "resent"}
InTurn ==
    \A i, j \in Renames(mem) : i < j /\ mem.log[j].st \in OnWay => mem.log[i].st \in OnWay
Exclusive ==
    mem.flow.settled =>
       \A i, j \in Renames(mem) : mem.log[i].st = "queued" => mem.log[j].st \in {"queued", "resent"}
UpInTurn ==
    \A m, n \in Sent :
        m < n /\ up[m].id \in Renames(mem) /\ up[n].id \in Renames(mem) => up[m].id < up[n].id
OutThere ==
    \A i \in Renames(mem) : mem.log[i].st \in OnWay => Landed(i) \/ \E n \in Sent : up[n].id = i
InLog(l) == {i \in DOMAIN l : l[i].kind = "rename"}
LandInTurn(l) ==
    \A i, j \in InLog(l) : i < j => \A k \in DOMAIN project.journal :
       RowIs(k, j) => \E h \in DOMAIN project.journal : RowIs(h, i) /\ h < k
FileFollows ==
    \A i, j \in InLog(file.log) : i < j /\ j \in DOMAIN mem.log => i \in DOMAIN mem.log \/ Landed(i)
Turns ==
    /\ InTurn /\ Exclusive /\ UpInTurn /\ OutThere
    /\ LandInTurn(mem.log) /\ LandInTurn(file.log) /\ FileFollows
\* What landed has its answer coming, while connected; and what is settled has none.
AckFor(i) == \E n \in DOMAIN down : down[n].type = "ack" /\ RowIs(down[n].row, i)
AckComing ==
    \A i \in Renames(mem) :
        /\ Joined \/ mem.flow.step = "again" => (Landed(i) => AckFor(i))
        /\ mem.flow.step \in {"ask", "settle"} => ~AckFor(i)

\* Answers and broadcasts come in the order of their rows, behind what is being applied.
Numbered == {n \in DOMAIN down : down[n].type \in {"ack", "renamed"}}
InLine ==
    /\ \A m, n \in Numbered : m < n => down[m].row < down[n].row
    /\ \A h \in DOMAIN mem.handlers, n \in DOMAIN down :
          down[n].type = "renamed" => mem.handlers[h].row < down[n].row
    /\ \A g, h \in DOMAIN mem.handlers : g < h => mem.handlers[g].row < mem.handlers[h].row
    /\ Joined => \A h \in DOMAIN mem.handlers : mem.handlers[h].count >= mem.flow.renames
\* A broadcast on its way, and one being applied which the user has not overtaken.
Coming(k) == \E n \in DOMAIN down : down[n].type = "renamed" /\ down[n].row = k
InHand(k) == \E n \in DOMAIN mem.handlers : mem.handlers[n].row = k /\ mem.handlers[n].count = mem.count
AtWork(k) == \E n \in DOMAIN mem.handlers : mem.handlers[n].row = k
\* They are a teammate's renames.
Mates ==
    /\ \A k \in MateRows : project.journal[k].kind = "rename"
    /\ \A k : Coming(k) \/ AtWork(k) => k \in MateRows
\* Behind one of a teammate's comes every later one.
Closed ==
    project.room =>
       \A k \in DOMAIN project.journal : Coming(k) \/ InHand(k) => \A j \in MateRows : j > k => Coming(j) \/ InHand(j)

\* A join's clock is less than any row's after the listing was read.
Counters ==
    /\ mem.clock[2] <= Cardinality(MateRows) /\ file.clock[2] <= Cardinality(MateRows)
    /\ \A k \in DOMAIN project.journal : project.journal[k].clock[2] <= Cardinality(MateRows)
JoinClock(c) ==
    /\ mem.flow.listing # "asked" =>
          \A k \in DOMAIN project.journal : k > mem.flow.read => \E n \in {1, 2} : project.journal[k].clock[n] > c[n]
    /\ \A n \in Sent : up[n].clock[1] >= c[1]
JoinClocks ==
    /\ \A n \in JoinsUp : JoinClock(up[n].clock)
    /\ project.join # <<>> => JoinClock(project.join)
\* So a catch-up has every row from the listing to the last it has.
Gathered(rows) ==
    mem.flow.listing # "asked" =>
       \A k \in rows : k > mem.flow.read => \A j \in DOMAIN project.journal : mem.flow.read < j /\ j < k => j \in rows
GatheredAll ==
    /\ \A n \in DOMAIN down : down[n].type = "joined" => Gathered(down[n].rows)
    /\ Gathered(mem.flow.rows)
\* A teammate's rename after the listing is applied, on its way, or in the catch-up.
Accounted ==
    mem.flow.step \in {"gather", "rows"} /\ ~Refused /\ mem.flow.listing # "asked" =>
       \A k \in MateRows : k > mem.flow.read =>
          \/ k \in mem.applied \/ Coming(k) \/ AtWork(k)
          \/ JoinsUp # {} \/ project.join # <<>>
          \/ k \in mem.flow.rows \/ \E n \in DOMAIN down : down[n].type = "joined" /\ k \in down[n].rows
HadKnown == mem.flow.step = "rows" => mem.flow.had \subseteq mem.applied

\* A log whose last rename takes the file to this name; or one whose renames, all queued,
\* lead back to where they start.
Last(l, i) == i \in InLog(l) /\ \A j \in InLog(l) : j <= i
Leading(l, i) == i \in InLog(l) /\ \A j \in InLog(l) : i <= j
Ends(l, n) == \A i \in InLog(l) : Last(l, i) => l[i].to = n
Cancels(l) ==
    /\ \A i \in InLog(l) : l[i].st = "queued" /\ ~Landed(i)
    /\ \A i, j \in InLog(l) : Leading(l, i) /\ Last(l, j) => i # j /\ l[i].from = l[j].to
MemEnds ==
    ~past.replayed => Ends(mem.log, at) \/ (Cancels(mem.log) /\ mem.flow.listing # "done")
FileEnds ==
    ~past.replayed =>
       \/ Ends(file.log, file.at)
       \/ /\ Cancels(file.log)
          /\ \A i \in Renames(mem) \cap DOMAIN file.log : mem.log[i].st = "queued" /\ mem.flow.listing # "done"
\* While the listing is awaited, state.json has the renames of the log, unless there is a new one.
FileKept ==
    Looking /\ mem.count = mem.flow.renames =>
       /\ InLog(file.log) = Renames(mem)
       /\ \A i \in Renames(mem) : file.log[i].from = mem.log[i].from /\ file.log[i].to = mem.log[i].to
NoneQueued == Looking /\ mem.count # mem.flow.renames => \A i \in Renames(mem) : mem.log[i].st # "queued"

\* Something will bring the file to the server's name, or that to the file's.
Unlanded == \E i \in Renames(mem) : ~Landed(i)
Settling == \/ Unlanded \/ at = project.at
            \/ \E k \in RenameRows : Latest(k) /\ (Coming(k) \/ InHand(k))
Due(k) ==
    /\ k \in MateRows /\ k > mem.flow.read /\ k \notin mem.applied /\ ~Coming(k) /\ ~AtWork(k)
    /\ mem.flow.step \in {"gather", "rows"} /\ ~mem.flow.here
    /\ mem.flow.step = "rows" => k \in mem.flow.todo
RenamedHere == \/ Looking /\ mem.count # mem.flow.renames
               \/ mem.flow.listing = "done" /\ mem.flow.here
NewOut == Joined /\ ~Refused /\ JoinsUp # {} /\ RenamedHere => Unlanded
MatchedBefore == Looking /\ ~Refused /\ ~past.replayed /\ mem.count # mem.flow.renames => Settling
MatchedAfter ==
    Joined /\ mem.flow.listing = "done" /\ ~Refused /\ ~past.replayed /\ ~past.outdated =>
       Settling \/ \E k \in RenameRows : Latest(k) /\ Due(k)
\* What was applied live since the listing was read left a rename of the user's in the queue.
Passed ==
    mem.flow.listing = "read" /\ ~past.outdated /\ mem.count = mem.flow.renames =>
       \A k \in MateRows : k > mem.flow.read /\ k \in mem.applied => Renames(mem) # {}

NInv ==
    /\ Kinds /\ Entering /\ Named /\ ListedName /\ Turns /\ AckComing /\ InLine /\ Mates /\ Closed
    /\ Counters /\ JoinClocks /\ GatheredAll /\ Accounted /\ HadKnown
    /\ MemEnds /\ FileEnds /\ FileKept /\ NoneQueued
    /\ NewOut /\ MatchedBefore /\ MatchedAfter /\ Passed

-----------------------------------------------------------------------------
(* What each action does to the renames in the log, to what is listed, and *)
(* to the history, as far as the proofs above do not say.                  *)

\* The renames in the log are as they were; or but for some that landed.
SameRenames ==
    /\ Renames(mem') = Renames(mem)
    /\ \A i \in Renames(mem) : mem'.log[i] = mem.log[i]
LeaveLog(S) ==
    /\ Renames(mem') = Renames(mem) \ S
    /\ \A i \in Renames(mem) \ S : mem'.log[i] = mem.log[i]
\* The listing and the catch-up are.
Lists ==
    /\ mem'.flow.listing = mem.flow.listing /\ mem'.flow.read = mem.flow.read
    /\ mem'.flow.listed = mem.flow.listed /\ mem'.flow.here = mem.flow.here
    /\ mem'.flow.renames = mem.flow.renames
Gathers ==
    /\ mem'.flow.join = mem.flow.join /\ mem'.flow.rows = mem.flow.rows
    /\ mem'.flow.todo = mem.flow.todo /\ mem'.flow.own = mem.flow.own /\ mem'.flow.had = mem.flow.had
Told0 == past'.replayed = past.replayed /\ past'.outdated = past.outdated

\* The same log has the same renames.
LEMMA SameLog == ASSUME mem'.log = mem.log PROVE SameRenames
BY DEF SameRenames, Renames

\* What is taken out of the log leaves the other renames.
LEMMA LeavesLog ==
    ASSUME Shaped, NEW S, mem'.log = Without(mem.log, S)
    PROVE  LeaveLog(S)
<1>1. mem.log \in Logs(made) /\ made \in Nat
      BY MemNamed
<1>2. /\ DOMAIN Without(mem.log, S) = DOMAIN mem.log \ S
      /\ \A j \in DOMAIN mem.log \ S : Without(mem.log, S)[j] = mem.log[j]
      BY <1>1, WithoutNamed
<1>   QED
      BY <1>2 DEF LeaveLog, Renames

\* What an operation of the log is.
LEMMA OpTyped ==
    ASSUME Shaped
    PROVE  /\ \A i \in DOMAIN mem.log : mem.log[i] \in QueuedOps /\ i \in 1..made
           /\ \A i \in DOMAIN file.log : file.log[i] \in QueuedOps /\ i \in 1..made
           /\ made \in Nat /\ Renames(mem) \subseteq DOMAIN mem.log
           /\ InLog(mem.log) = Renames(mem) /\ InLog(file.log) \subseteq DOMAIN file.log
           /\ Renames(mem) \subseteq Nat /\ InLog(file.log) \subseteq Nat
<1>1. mem.log \in Logs(made) /\ file.log \in Logs(made) /\ made \in Nat
      BY MemNamed DEF Shaped, FileTypeOK, Files
<1>   QED
      BY <1>1, LogNamed DEF Renames, InLog

\* The user's rename: what was queued goes, once live.
Adds ==
    LET new == made + 1
        drops == IF CanSendLive THEN QueuedMoves ELSE {}
    IN /\ at' \in FileName /\ at' # at /\ mem'.count = mem.count + 1 /\ made' = new
       /\ Renames(mem') = (Renames(mem) \ drops) \cup {new} /\ new \notin DOMAIN mem.log
       /\ \A i \in Renames(mem) \ drops : mem'.log[i] = mem.log[i]
       /\ mem'.log[new] = QueuedOp("rename", at, at', IF CanSendLive THEN "writing" ELSE "queued")
       /\ UNCHANGED <<file, project, up, down, past>>
       /\ mem'.flow = mem.flow /\ mem'.handlers = mem.handlers /\ mem'.applied = mem.applied
       /\ mem'.clock = mem.clock /\ mem'.known = mem.known

\* The effect of it.
LEMMA UserRenamesAdds == ASSUME Shaped, UserRenames PROVE Adds
<1>1. mem \in Mems(made) /\ made \in Nat /\ at \in FileName
      BY MemNamed DEF Shaped
<1>2. at' \in FileName /\ at' # at /\ Record("rename", at', QueuedMoves) /\ past' = past
      BY DEF UserRenames
<1>3. Records("rename", QueuedMoves) /\ RecordsAlso("rename")
      BY <1>1, <1>2, RecordNamed, RecordAlso
<1>   DEFINE drops == IF CanSendLive THEN QueuedMoves ELSE {}
             new == made + 1
             op == QueuedOp("rename", at, at', IF CanSendLive THEN "writing" ELSE "queued")
             l == [i \in (DOMAIN mem.log \ drops) \cup {new} |-> IF i = new THEN op ELSE mem.log[i]]
<1>4. mem'.log = l
      BY <1>1, <1>2 DEF Record, Mems
<1>5. DOMAIN l = (DOMAIN mem.log \ drops) \cup {new} /\ l[new] = op
      OBVIOUS
<1>6. \A i \in DOMAIN mem.log \ drops : i # new => l[i] = mem.log[i]
      OBVIOUS
<1>7. op.kind = "rename"
      BY DEF QueuedOp
<1>8. new \notin DOMAIN mem.log
      BY <1>3 DEF RecordsAlso
<1>   HIDE DEF l, op
<1>9. Renames(mem') = (Renames(mem) \ drops) \cup {new}
  <2>   HIDE DEF drops, new
  <2>1. \A i \in DOMAIN mem.log \ drops : i # new
        BY <1>8
  <2>   QED
        BY <1>4, <1>5, <1>6, <1>7, <2>1 DEF Renames
<1>10. \A i \in Renames(mem) \ drops : mem'.log[i] = mem.log[i]
      BY <1>4, <1>6, <1>8 DEF Renames
<1>   HIDE DEF drops
<1>11. mem'.log[new] = op
      BY <1>4, <1>5
<1>12. /\ mem'.count = mem.count + 1 /\ made' = new
       /\ UNCHANGED <<file, project, up, down>>
       /\ mem'.flow = mem.flow /\ mem'.handlers = mem.handlers /\ mem'.applied = mem.applied
       /\ mem'.clock = mem.clock /\ mem'.known = mem.known
      BY <1>3 DEF Records, RecordsAlso
<1>   QED
      BY <1>2, <1>8, <1>9, <1>10, <1>11, <1>12 DEF Adds, op, drops

\* A change of another file leaves the renames.
LEMMA UserChangesSame ==
    ASSUME Shaped, UserChanges
    PROVE  /\ SameRenames /\ mem'.count = mem.count /\ UNCHANGED <<at, file, project, up, down, past>>
           /\ mem'.flow = mem.flow /\ mem'.handlers = mem.handlers /\ mem'.applied = mem.applied
           /\ mem'.clock = mem.clock /\ mem'.known = mem.known
           /\ \A i \in DOMAIN mem'.log : (i \in DOMAIN mem.log /\ mem'.log[i] = mem.log[i]) \/ i = made + 1
           /\ made + 1 \notin DOMAIN mem.log /\ mem'.log[made + 1].kind = "change"
<1>1. mem \in Mems(made) /\ made \in Nat /\ at \in FileName
      BY MemNamed DEF Shaped
<1>2. Record("change", at, {}) /\ UNCHANGED <<at, past>>
      BY DEF UserChanges
<1>3. Records("change", {}) /\ RecordsAlso("change")
      BY <1>1, <1>2, RecordNamed, RecordAlso
<1>4. /\ \A i \in DOMAIN mem'.log : (i \in DOMAIN mem.log /\ mem'.log[i] = mem.log[i]) \/ i = made + 1
      /\ \A i \in DOMAIN mem.log : i \in DOMAIN mem'.log /\ mem'.log[i] = mem.log[i]
      /\ made + 1 \notin DOMAIN mem.log /\ mem'.log[made + 1].kind = "change"
      BY <1>3 DEF Records, RecordsAlso
<1>5. SameRenames
      BY <1>4 DEF SameRenames, Renames
<1>   QED
      BY <1>2, <1>3, <1>4, <1>5 DEF Records, RecordsAlso

\* The rest of the memory, but the log, the clocks and what is known.
Mems0 == mem'.flow = mem.flow /\ mem'.count = mem.count /\ mem'.applied = mem.applied /\ mem'.handlers = mem.handlers
Outside == UNCHANGED <<at, file, project, made, past>>

\* An answer takes a rename out of the log, and no other.
LEMMA AnsweredLeaves ==
    ASSUME CInv, Answered
    PROVE  LET k == Head(down).row
           IN /\ Outside /\ Mems0 /\ UNCHANGED up /\ down # <<>> /\ down' = Tail(down)
              /\ Head(down).type = "ack" /\ k \in DOMAIN project.journal
              /\ LeaveLog({project.journal[k].id})
              /\ mem'.clock[2] = mem.clock[2]
              /\ \A i \in DOMAIN mem'.log : i \in DOMAIN mem.log /\ mem'.log[i].kind = mem.log[i].kind
              /\ mem'.known \subseteq mem.known \cup {project.journal[k].id}
<1>   DEFINE k == Head(down).row
             id == project.journal[k].id
<1>1. /\ mem \in Mems(made) /\ mem.log \in Logs(made) /\ made \in Nat
      /\ Shaped /\ RowsThere
      BY MemNamed DEF CInv
<1>2. /\ Inside /\ Dwells /\ down # <<>> /\ Head(down).type = "ack" /\ down' = Tail(down)
      /\ UNCHANGED <<at, made, past>>
      BY <1>1, AnsweredNamed
<1>3. Mems0
  <2>1. Steady /\ mem'.applied = mem.applied /\ mem'.handlers = mem.handlers
        BY <1>1, AnsweredNamed, SteadySteps
  <2>   QED
        BY <2>1 DEF Steady, Mems0
<1>4. k \in DOMAIN project.journal
  <2>1. 1 \in DOMAIN down /\ down[1] = Head(down)
        BY <1>1, <1>2 DEF Shaped
  <2>   QED
        BY <1>1, <1>2, <2>1 DEF RowsThere
<1>5. \A i \in DOMAIN mem.log : mem.log[i] \in QueuedOps
      BY <1>1, LogNamed
<1>6. CASE mem' = [mem EXCEPT !.log[id].st = "answered"] /\ mem.log[id].kind = "change"
  <2>1. mem'.log = [mem.log EXCEPT ![id].st = "answered"] /\ mem'.clock = mem.clock /\ mem'.known = mem.known
        BY <1>1, <1>6 DEF Mems
  <2>   HIDE DEF id
  <2>2. DOMAIN mem'.log = DOMAIN mem.log /\ \A i \in DOMAIN mem.log : i # id => mem'.log[i] = mem.log[i]
        BY <2>1
  <2>3. id \in DOMAIN mem.log => mem'.log[id].kind = "change"
        BY <1>5, <1>6, <2>1 DEF QueuedOps
  <2>4. LeaveLog({id})
        BY <1>6, <2>2, <2>3 DEF LeaveLog, Renames
  <2>5. \A i \in DOMAIN mem'.log : i \in DOMAIN mem.log /\ mem'.log[i].kind = mem.log[i].kind
        BY <1>6, <2>2, <2>3
  <2>   QED
        BY <1>2, <1>3, <1>4, <2>1, <2>4, <2>5 DEF Inside, Outside, id
<1>7. CASE mem' = Settle(mem, k)
  <2>1. Settles(mem', k)
        BY <1>1, <1>4, <1>7, SettleNamed
  <2>2. mem'.log = Without(mem.log, {id}) /\ mem'.clock[2] = mem.clock[2] /\ mem'.known = mem.known \cup {id}
        BY <2>1 DEF Settles
  <2>   HIDE DEF id
  <2>3. LeaveLog({id})
        BY <1>1, <2>2, LeavesLog
  <2>4. \A i \in DOMAIN mem'.log : i \in DOMAIN mem.log /\ mem'.log[i].kind = mem.log[i].kind
        BY <1>1, <2>2, WithoutShrinks DEF LogShrinks
  <2>   QED
        BY <1>2, <1>3, <1>4, <2>2, <2>3, <2>4 DEF Inside, Outside, id
<1>   QED
      BY <1>6, <1>7 DEF Answered

\* What an answer brought being recorded takes no rename out.
LEMMA RecordedSame ==
    ASSUME CInv, Plain, AnswerRecorded
    PROVE  /\ Outside /\ Mems0 /\ UNCHANGED <<up, down>> /\ SameRenames
           /\ mem'.clock[2] = mem.clock[2]
           /\ \A i \in DOMAIN mem'.log : i \in DOMAIN mem.log /\ mem'.log[i].kind = mem.log[i].kind
           /\ \E i \in DOMAIN mem.log : mem'.known = mem.known \cup {i}
<1>1. /\ UNCHANGED <<at, file, project, up, down, made, past>>
      /\ mem'.flow = mem.flow /\ mem'.count = mem.count
      BY AnswerRecordedAlso
<1>2. PICK i \in DOMAIN mem.log :
         /\ mem.log[i].st = "answered"
         /\ \E k \in DOMAIN project.journal : project.journal[k].id = i /\ Settles(mem', k)
      BY AnswerRecordedAlso
<1>3. PICK k \in DOMAIN project.journal : project.journal[k].id = i /\ Settles(mem', k)
      BY <1>2
<1>4. mem.log[i].kind = "change"
      BY <1>2 DEF Plain
<1>5. Shaped /\ mem.log \in Logs(made) /\ made \in Nat
      BY MemNamed DEF CInv
<1>6. /\ mem'.log = Without(mem.log, {i}) /\ mem'.clock[2] = mem.clock[2] /\ mem'.known = mem.known \cup {i}
      /\ mem'.applied = mem.applied /\ mem'.handlers = mem.handlers
      BY <1>3 DEF Settles
<1>7. LeaveLog({i})
      BY <1>5, <1>6, LeavesLog
<1>8. SameRenames
      BY <1>4, <1>7 DEF SameRenames, LeaveLog, Renames
<1>9. \A j \in DOMAIN mem'.log : j \in DOMAIN mem.log /\ mem'.log[j].kind = mem.log[j].kind
      BY <1>5, <1>6, WithoutShrinks DEF LogShrinks
<1>   QED
      BY <1>1, <1>6, <1>8, <1>9 DEF Outside, Mems0

\* What ops:status has of what landed leaves the log.
LEMMA SettlingLeaves ==
    ASSUME CInv, SettleLanded \/ LandedLeaves
    PROVE  /\ Outside /\ UNCHANGED <<up, down>>
           /\ mem'.count = mem.count /\ mem'.applied = mem.applied /\ mem'.handlers = mem.handlers
           /\ mem.flow.step = "settle" /\ mem'.flow.step = "settle" /\ mem.flow.asked # {}
           /\ AsksOn /\ mem'.clock[2] = mem.clock[2]
           /\ SameRenames \/ LeaveLog({Earliest(mem.flow.asked)})
           /\ \A i \in DOMAIN mem'.log : i \in DOMAIN mem.log /\ mem'.log[i].kind = mem.log[i].kind
           /\ mem'.known \subseteq mem.known \cup {Earliest(mem.flow.asked)}
<1>   DEFINE id == Earliest(mem.flow.asked)
<1>1. Shaped /\ mem.log \in Logs(made) /\ made \in Nat /\ Stages
      BY MemNamed DEF CInv
<1>2. mem'.count = mem.count
      BY <1>1, AsksAlso
<1>3. CASE SettleLanded
  <2>1. TakesIn(id, RowOf(id)) /\ mem.flow.step = "settle" /\ mem.flow.asked # {}
        BY <1>1, <1>3, SettleLandedNamed DEF Stages, SettleLanded
  <2>2. mem'.log = Without(mem.log, {id}) \/ mem'.log = mem.log
        BY <2>1 DEF TakesIn
  <2>3. SameRenames \/ LeaveLog({id})
        BY <1>1, <2>2, LeavesLog, SameLog
  <2>4. \A i \in DOMAIN mem'.log : i \in DOMAIN mem.log /\ mem'.log[i].kind = mem.log[i].kind
        BY <1>1, <2>2, WithoutShrinks DEF LogShrinks
  <2>5. mem'.clock[2] = mem.clock[2] /\ mem'.known = mem.known \cup {id} /\ mem'.flow.step = mem.flow.step
        BY <2>1 DEF TakesIn, AsksOn
  <2>   QED
        BY <1>2, <2>1, <2>3, <2>4, <2>5 DEF TakesIn, Inside, Outside
<1>4. CASE LandedLeaves
  <2>1. Leaves(id)
        BY <1>1, <1>4, LandedLeavesNamed
  <2>2. mem'.log = Without(mem.log, {id}) /\ mem.flow.half
        BY <2>1 DEF Leaves
  <2>3. LeaveLog({id})
        BY <1>1, <2>2, LeavesLog
  <2>4. \A i \in DOMAIN mem'.log : i \in DOMAIN mem.log /\ mem'.log[i].kind = mem.log[i].kind
        BY <1>1, <2>2, WithoutShrinks DEF LogShrinks
  <2>5. /\ mem'.clock[2] = mem.clock[2] /\ mem'.known = mem.known /\ mem'.flow.step = mem.flow.step
        /\ mem.flow.step = "settle" /\ mem.flow.asked # {}
        BY <1>1, <2>1 DEF Leaves, AsksOn, Stages
  <2>   QED
        BY <1>2, <2>1, <2>3, <2>4, <2>5 DEF Leaves, Inside, Outside
<1>   QED
      BY <1>3, <1>4

\* The effect of sending an operation, on one of the log: which one, and what it is then.
Sends(i) ==
    /\ i \in DOMAIN mem.log /\ \A j \in DOMAIN mem.log : j # i => mem'.log[j] = mem.log[j]
    /\ \/ /\ mem.log[i].st = "writing" /\ CanSendLive /\ mem'.log[i].st = "sent"
          /\ \A j \in Ids(mem, {"writing"}) : i <= j
          /\ i \in DOMAIN file.log
          /\ up' = Append(up, [type |-> "op", id |-> i, clock |-> mem'.clock])
       \/ mem.log[i].st = "writing" /\ ~CanSendLive /\ mem'.log[i].st = "queued" /\ up' = up
       \/ /\ mem.log[i].st = "queued" /\ mem.flow.step = "live" /\ mem'.log[i].st = "resent"
          /\ \A j \in Ids(mem, {"queued"}) : i <= j
          /\ Ids(mem, {"resent"}) = {} /\ i \in DOMAIN file.log
          /\ up' = Append(up, [type |-> "op", id |-> i, clock |-> mem'.clock])
Fields ==
    /\ DOMAIN mem'.log = DOMAIN mem.log
    /\ \A i \in DOMAIN mem.log : /\ mem'.log[i].kind = mem.log[i].kind
                                 /\ mem'.log[i].from = mem.log[i].from /\ mem'.log[i].to = mem.log[i].to

\* Sending writes an operation's state, and no other; the fields it goes out with stay.
LEMMA SendsOne ==
    ASSUME Shaped, Send \/ Resend
    PROVE  /\ Outside /\ UNCHANGED down /\ Mems0 /\ Fields /\ mem'.known = mem.known
           /\ mem'.clock[2] = mem.clock[2] /\ mem'.clock[1] >= mem.clock[1]
           /\ \E i \in DOMAIN mem.log : Sends(i)
<1>1. /\ mem \in Mems(made) /\ mem.log \in Logs(made) /\ made \in Nat
      /\ mem.clock[1] \in Nat
      BY MemNamed DEF Mems, Clock
<1>2. \A i \in DOMAIN mem.log : mem.log[i] \in QueuedOps
      BY <1>1, LogNamed
<1>3. Outside /\ UNCHANGED down /\ Mems0
      BY SendEmits DEF Outside, Mems0, Steady
<1>   DEFINE moved(i, st) ==
                /\ mem'.log = [mem.log EXCEPT ![i].st = st] /\ mem'.known = mem.known
                /\ mem'.clock[2] = mem.clock[2] /\ mem'.clock[1] >= mem.clock[1]
             goes(i) == up' = Append(up, [type |-> "op", id |-> i, clock |-> mem'.clock])
<1>4. \A i, st : Emit(i, st) => moved(i, st) /\ goes(i)
  <2>   SUFFICES ASSUME NEW i, NEW st, Emit(i, st) PROVE moved(i, st) /\ goes(i)
        OBVIOUS
  <2>   DEFINE c == <<mem.clock[1] + 1, mem.clock[2]>>
  <2>1. mem' = [mem EXCEPT !.clock = c, !.log[i].st = st] /\ up' = Append(up, [type |-> "op", id |-> i, clock |-> c])
        BY DEF Emit
  <2>2. c[1] >= mem.clock[1] /\ c[2] = mem.clock[2]
        BY <1>1
  <2>   HIDE DEF c
  <2>   QED
        BY <1>1, <2>1, <2>2 DEF Mems
<1>5. \A i, st : mem' = [mem EXCEPT !.log[i].st = st] => moved(i, st)
      BY <1>1 DEF Mems
<1>6. \A i \in DOMAIN mem.log : \A st : moved(i, st) =>
         /\ Fields /\ mem'.log[i].st = st
         /\ \A j \in DOMAIN mem.log : j # i => mem'.log[j] = mem.log[j]
      BY <1>2 DEF Fields, QueuedOps
<1>   HIDE DEF moved, goes
<1>7. CASE Send
  <2>1. PICK i \in Ids(mem, {"writing"}) :
           /\ i \in DOMAIN file.log /\ \A j \in Ids(mem, {"writing"}) : i <= j
           /\ \/ CanSendLive /\ Emit(i, "sent")
              \/ ~CanSendLive /\ mem' = [mem EXCEPT !.log[i].st = "queued"] /\ UNCHANGED up
        BY <1>7 DEF Send
  <2>2. i \in DOMAIN mem.log /\ mem.log[i].st = "writing"
        BY DEF Ids
  <2>3. CASE CanSendLive /\ Emit(i, "sent")
    <3>1. moved(i, "sent") /\ goes(i)
          BY <1>4, <2>3
    <3>2. Sends(i) /\ Fields
          BY <1>6, <2>1, <2>2, <2>3, <3>1 DEF Sends, goes
    <3>   QED
          BY <1>3, <2>2, <3>1, <3>2 DEF moved
  <2>4. CASE ~CanSendLive /\ mem' = [mem EXCEPT !.log[i].st = "queued"] /\ UNCHANGED up
    <3>1. moved(i, "queued")
          BY <1>5, <2>4
    <3>2. Sends(i) /\ Fields
          BY <1>6, <2>2, <2>4, <3>1 DEF Sends
    <3>   QED
          BY <1>3, <2>2, <3>1, <3>2 DEF moved
  <2>   QED
        BY <2>1, <2>3, <2>4
<1>8. CASE Resend
  <2>1. PICK i \in Ids(mem, {"queued"}) :
           /\ \A j \in Ids(mem, {"queued"}) : i <= j
           /\ i \in DOMAIN file.log /\ Emit(i, "resent")
        BY <1>8 DEF Resend
  <2>2. i \in DOMAIN mem.log /\ mem.log[i].st = "queued"
        BY DEF Ids
  <2>3. moved(i, "resent") /\ goes(i)
        BY <1>4, <2>1
  <2>4. Sends(i) /\ Fields
        BY <1>6, <1>8, <2>1, <2>2, <2>3 DEF Sends, goes, Resend
  <2>   QED
        BY <1>3, <2>2, <2>3, <2>4 DEF moved
<1>   QED
      BY <1>7, <1>8

\* The rest of the memory when only the flow goes on.
FlowGoes ==
    /\ mem'.log = mem.log /\ mem'.count = mem.count /\ mem'.handlers = mem.handlers
    /\ mem'.clock = mem.clock /\ mem'.known = mem.known

\* A connect flow that starts.
LEMMA StartsOver ==
    ASSUME Shaped, Connects \/ JoinAgain
    PROVE  /\ Outside /\ UNCHANGED <<up, down>> /\ mem'.applied = mem.applied
           /\ mem'.log = mem.log /\ mem'.count = mem.count /\ mem'.handlers = mem.handlers
           /\ mem'.clock = mem.clock /\ mem'.known \subseteq mem.known
           /\ mem.handlers = <<>> /\ mem.flow.step \in {"off", "again"} /\ Ids(mem, {"writing"}) = {}
           /\ mem.flow.step = "again" => Ids(mem, {"sent", "answered"}) = {}
           /\ mem'.flow.step \in {"ask", "settle"} /\ ~mem'.flow.settled /\ mem'.flow.listing = "none"
           /\ mem'.flow.join = "none" /\ mem'.flow.rows = {} /\ mem'.flow.todo = {} /\ mem'.flow.own = {}
<1>1. mem \in Mems(made)
      BY MemNamed
<1>2. PICK retry \in BOOLEAN : mem' = FlowStarts(mem, retry)
      BY DEF Connects, JoinAgain
<1>3. Starts(IF retry THEN mem.known ELSE {})
      BY <1>2, FlowStartsNamed
<1>4. mem'.count = mem.count /\ mem'.flow.own = {}
      BY <1>1, <1>2 DEF FlowStarts, NoFlow, Mems
<1>5. mem'.log = mem.log /\ mem'.handlers = mem.handlers /\ mem'.clock = mem.clock
      BY <1>3 DEF Starts
<1>6. /\ mem.handlers = <<>> /\ mem.flow.step \in {"off", "again"}
      /\ Outside /\ UNCHANGED <<up, down>>
      BY DEF Connects, JoinAgain, Outside
<1>7. /\ Ids(mem, {"writing"}) = {}
      /\ mem.flow.step = "again" => Ids(mem, {"sent", "answered"}) = {}
  <2>1. CASE Connects
        BY <2>1 DEF Connects
  <2>2. CASE JoinAgain
    <3>1. Ids(mem, {"writing", "sent", "answered"}) = {}
          BY <2>2 DEF JoinAgain
    <3>   QED
          BY <3>1 DEF Ids
  <2>   QED
        BY <2>1, <2>2
<1>   QED
      BY <1>3, <1>4, <1>5, <1>6, <1>7 DEF Starts

\* A flow that is only at another of its first questions.
LEMMA AskedOnly ==
    ASSUME Shaped, NEW step, NEW asked, NEW half,
           mem'.flow = [mem.flow EXCEPT !.step = step, !.asked = asked, !.half = half]
    PROVE  Lists /\ Gathers /\ mem'.flow.settled = mem.flow.settled
<1>1. mem.flow \in Flows
      BY MemNamed DEF Mems
<1>2. Lists
      BY <1>1 DEF Lists, Flows
<1>3. Gathers /\ mem'.flow.settled = mem.flow.settled
      BY <1>1 DEF Gathers, Flows
<1>   QED
      BY <1>2, <1>3

\* What is asked first leaves the listing and the catch-up alone.
LEMMA AsksLeave ==
    ASSUME Shaped, StatusAnswered \/ SettleLanded \/ LandedLeaves
    PROVE  Lists /\ Gathers /\ mem'.flow.settled = mem.flow.settled
<1>1. mem \in Mems(made) /\ mem.flow \in Flows
      BY MemNamed DEF Mems
<1>   DEFINE less == mem.flow.asked \ {Earliest(mem.flow.asked)}
             landed == {i \in mem.flow.asked : Landed(i)}
<1>   SUFFICES \E step, asked, half :
                  mem'.flow = [mem.flow EXCEPT !.step = step, !.asked = asked, !.half = half]
      BY AskedOnly
<1>2. CASE StatusAnswered
  <2>1. mem'.flow = [mem.flow EXCEPT !.step = "settle", !.asked = landed]
        BY <1>1, <1>2 DEF StatusAnswered, Mems, Flows
  <2>   HIDE DEF landed
  <2>2. mem'.flow = [mem.flow EXCEPT !.step = "settle", !.asked = landed, !.half = mem.flow.half]
        BY <1>1, <2>1 DEF Flows
  <2>   QED
        BY <2>2
<1>3. CASE LandedLeaves
  <2>1. mem'.flow = [mem.flow EXCEPT !.half = FALSE, !.asked = less]
        BY <1>1, <1>3 DEF LandedLeaves, Mems, Flows
  <2>   HIDE DEF less
  <2>2. mem'.flow = [mem.flow EXCEPT !.step = mem.flow.step, !.asked = less, !.half = FALSE]
        BY <1>1, <2>1 DEF Flows
  <2>   QED
        BY <2>2
<1>4. CASE SettleLanded
  <2>   DEFINE m == Settle(mem, RowOf(Earliest(mem.flow.asked)))
             done == [m EXCEPT !.flow.asked = @ \ {Earliest(mem.flow.asked)}]
  <2>1. m.flow = mem.flow
        BY <1>1 DEF Settle, PersistVectorClock, AdoptOwnCounter, Mems
  <2>2. DOMAIN m = DOMAIN mem /\ "flow" \in DOMAIN mem
        BY <1>1 DEF Settle, PersistVectorClock, AdoptOwnCounter, Mems
  <2>3. mem' = done \/ mem' = [done EXCEPT !.log = mem.log, !.flow.asked = mem.flow.asked,
                                           !.flow.half = TRUE]
        BY <1>4 DEF SettleLanded
  <2>   HIDE DEF m
  <2>4. done.flow = [mem.flow EXCEPT !.asked = less] /\ DOMAIN done = DOMAIN mem
        BY <2>1, <2>2
  <2>   HIDE DEF done
  <2>5. \/ mem'.flow = done.flow
        \/ mem'.flow = [done.flow EXCEPT !.asked = mem.flow.asked, !.half = TRUE]
        BY <2>2, <2>3, <2>4
  <2>   HIDE DEF less
  <2>6. CASE mem'.flow = done.flow
    <3>1. mem'.flow = [mem.flow EXCEPT !.step = mem.flow.step, !.asked = less, !.half = mem.flow.half]
          BY <1>1, <2>4, <2>6 DEF Flows
    <3>   QED
          BY <3>1
  <2>7. CASE mem'.flow = [done.flow EXCEPT !.asked = mem.flow.asked, !.half = TRUE]
    <3>0. mem'.flow = [mem.flow EXCEPT !.asked = mem.flow.asked, !.half = TRUE]
          BY <1>1, <2>4, <2>7 DEF Flows
    <3>1. mem'.flow = [mem.flow EXCEPT !.step = mem.flow.step, !.asked = mem.flow.asked, !.half = TRUE]
          BY <1>1, <3>0 DEF Flows
    <3>   QED
          BY <3>1
  <2>   QED
        BY <2>5, <2>6, <2>7
<1>   QED
      BY <1>2, <1>3, <1>4

\* The answer of ops:status.
LEMMA StatusGoes ==
    ASSUME Shaped, StatusAnswered
    PROVE  /\ Outside /\ UNCHANGED <<up, down>> /\ FlowGoes /\ mem'.applied = mem.applied
           /\ mem.flow.step = "ask" /\ mem'.flow.step = "settle"
<1>1. mem \in Mems(made) /\ mem.flow \in Flows
      BY MemNamed DEF Mems
<1>   QED
      BY <1>1 DEF StatusAnswered, Outside, FlowGoes, Mems, Flows

\* The join that goes out.
LEMMA JoinGoes ==
    ASSUME Shaped, Join
    PROVE  /\ Outside /\ UNCHANGED down /\ FlowGoes /\ mem'.applied = mem.applied /\ Gathers
           /\ mem.flow.step = "settle" /\ mem.flow.asked = {} /\ Saved
           /\ up' = Append(up, [type |-> "join", clock |-> mem.clock])
           /\ mem'.flow.step = "gather" /\ mem'.flow.settled /\ mem'.flow.listing = "asked"
           /\ mem'.flow.renames = mem.count /\ mem'.flow.read = mem.flow.read
           /\ mem'.flow.listed = mem.flow.listed /\ mem'.flow.here = mem.flow.here
<1>1. mem \in Mems(made) /\ mem.flow \in Flows
      BY MemNamed DEF Mems
<1>   QED
      BY <1>1 DEF Join, Outside, FlowGoes, Gathers, Mems, Flows

\* The listing.
LEMMA ListingGoes ==
    ASSUME Shaped, ListingRead
    PROVE  /\ UNCHANGED <<at, file, project, up, down, made>> /\ FlowGoes /\ mem'.applied = mem.applied
           /\ Gathers /\ mem'.flow.step = mem.flow.step /\ mem'.flow.settled = mem.flow.settled
           /\ mem.flow.listing = "asked" /\ mem'.flow.listing = "read"
           /\ mem'.flow.read = Len(project.journal) /\ mem'.flow.listed = project.at
           /\ mem'.flow.renames = mem.flow.renames /\ mem'.flow.here = mem.flow.here
           /\ past'.replayed = past.replayed /\ ~past'.outdated
<1>1. mem \in Mems(made) /\ mem.flow \in Flows /\ past \in Pasts
      BY MemNamed DEF Mems, Shaped
<1>   QED
      BY <1>1 DEF ListingRead, FlowGoes, Gathers, Mems, Flows, Pasts

\* The answer of the join.
LEMMA JoinedGoes ==
    ASSUME Shaped, JoinAnswered
    PROVE  /\ Outside /\ UNCHANGED up /\ FlowGoes /\ mem'.applied = mem.applied /\ Lists
           /\ down # <<>> /\ down' = Tail(down)
           /\ mem'.flow.step = mem.flow.step /\ mem'.flow.settled = mem.flow.settled
           /\ mem'.flow.own = mem.flow.own /\ mem'.flow.had = mem.flow.had
           /\ \/ /\ Head(down).type = "joined" /\ mem'.flow.join = "joined"
                 /\ mem'.flow.rows = Head(down).rows /\ mem'.flow.todo = Head(down).rows
              \/ /\ Head(down).type = "refused" /\ mem'.flow.join = "refused"
                 /\ mem'.flow.rows = mem.flow.rows /\ mem'.flow.todo = mem.flow.todo
<1>1. mem \in Mems(made) /\ mem.flow \in Flows
      BY MemNamed DEF Mems
<1>   QED
      BY <1>1 DEF JoinAnswered, Outside, FlowGoes, Lists, Mems, Flows

\* Both being there.
LEMMA GatherGoes ==
    ASSUME Shaped, Gather
    PROVE  /\ UNCHANGED <<at, file, project, up, down, made>> /\ FlowGoes /\ mem'.applied = mem.applied
           /\ Lists /\ Told0 /\ mem.flow.step = "gather" /\ mem.flow.listing = "done"
           /\ mem'.flow.join = mem.flow.join /\ mem'.flow.rows = mem.flow.rows
           /\ mem'.flow.todo = mem.flow.todo
           /\ \/ /\ mem.flow.join = "refused" /\ mem'.flow.step = "again" /\ ~mem'.flow.settled
                 /\ mem'.flow.own = mem.flow.own /\ mem'.flow.had = mem.flow.had
              \/ /\ mem.flow.join = "joined" /\ mem'.flow.step = "rows"
                 /\ mem'.flow.settled = mem.flow.settled
                 /\ mem'.flow.own = OwnRows /\ mem'.flow.had = mem.applied
<1>1. mem \in Mems(made) /\ mem.flow \in Flows /\ past \in Pasts
      BY MemNamed DEF Mems, Shaped
<1>   QED
      BY <1>1 DEF Gather, FlowGoes, Lists, Told0, Mems, Flows, Pasts

\* The rows being through.
LEMMA EndsGoes ==
    ASSUME Shaped, FlowEnds
    PROVE  /\ Outside /\ UNCHANGED <<up, down>> /\ FlowGoes /\ mem'.applied = mem.applied \ SeenNow
           /\ Lists /\ Gathers /\ mem'.flow.settled = mem.flow.settled
           /\ mem.flow.step = "rows" /\ mem.flow.todo = {} /\ mem'.flow.step = "live"
<1>1. mem \in Mems(made) /\ mem.flow \in Flows
      BY MemNamed DEF Mems
<1>   QED
      BY <1>1 DEF FlowEnds, PersistVectorClock, Outside, FlowGoes, Lists, Gathers, Mems, Flows

\* A broadcast taken up.
LEMMA RenamedGoes ==
    ASSUME Shaped, Renamed
    PROVE  /\ Outside /\ UNCHANGED up /\ down # <<>> /\ down' = Tail(down)
           /\ mem'.log = mem.log /\ mem'.count = mem.count /\ mem'.clock = mem.clock
           /\ mem'.known = mem.known /\ mem'.flow = mem.flow
<1>1. mem \in Mems(made)
      BY MemNamed
<1>   QED
      BY <1>1 DEF Renamed, Outside, Mems

\* A rename applied live.
LEMMA MoveLiveGoes ==
    ASSUME Shaped, MoveLive
    PROVE  LET h == Head(mem.handlers)
               to == project.journal[h.row].to
               moves == h.count = mem.count /\ to # at
           IN /\ UNCHANGED <<file, project, up, down, made>>
              /\ mem'.log = mem.log /\ mem'.count = mem.count /\ mem'.clock = mem.clock
              /\ mem'.known = mem.known /\ mem'.flow = mem.flow
              /\ at' = (IF moves THEN to ELSE at)
              /\ past'.replayed = past.replayed
              /\ past'.outdated = (past.outdated \/ (mem.flow.listing = "read" /\ mem.flow.read < h.row))
<1>1. mem \in Mems(made) /\ past \in Pasts
      BY MemNamed DEF Shaped
<1>   QED
      BY <1>1 DEF MoveLive, Mems, Pasts

\* The index refresh.
Here(l) == \/ \E i \in DOMAIN l : l[i].kind = "rename" /\ l[i].st = "queued"
           \/ mem.count # mem.flow.renames

\* What it does to the log, the listing and the file's name.
LEMMA RefreshGoes ==
    ASSUME Shaped, Refresh
    PROVE  LET l == Collapsed(mem.log)
               moves == ~Here(l) /\ mem.flow.listed # at
           IN /\ UNCHANGED <<file, project, up, down, made>>
              /\ mem'.log = l /\ mem'.count = mem.count /\ mem'.handlers = mem.handlers
              /\ mem'.clock = mem.clock /\ mem'.known = mem.known /\ mem'.applied = mem.applied
              /\ moves => mem.handlers = <<>>
              /\ at' = (IF moves THEN mem.flow.listed ELSE at)
              /\ mem.flow.listing = "read" /\ mem'.flow.listing = "done" /\ mem'.flow.here = Here(l)
              /\ Gathers /\ mem'.flow.step = mem.flow.step /\ mem'.flow.settled = mem.flow.settled
              /\ mem'.flow.read = mem.flow.read /\ mem'.flow.listed = mem.flow.listed
              /\ mem'.flow.renames = mem.flow.renames
              /\ past'.replayed = (past.replayed /\ Here(l))
              /\ past'.outdated = (past.outdated \/ (/\ Renames(mem) # {} /\ InLog(l) = {}
                                                     /\ \E j \in mem.applied : j > mem.flow.read))
<1>   DEFINE l == Collapsed(mem.log)
             here == Here(l)
             missed == /\ Renames(mem) # {} /\ InLog(l) = {} /\ \E j \in mem.applied : j > mem.flow.read
<1>1. mem \in Mems(made) /\ mem.flow \in Flows /\ past \in Pasts
      BY MemNamed DEF Mems, Shaped
<1>2. mem' = [mem EXCEPT !.log = l, !.flow = [mem.flow EXCEPT !.listing = "done", !.here = here]]
      BY <1>1 DEF Refresh, Here, Mems, Flows
<1>3. past'.replayed = (past.replayed /\ here)
      BY <1>1 DEF Refresh, Here, Pasts
<1>4. past'.outdated = (past.outdated \/ missed)
  <2>1. Renames([log |-> l]) = InLog(l)
        BY DEF Renames, InLog
  <2>2. past'.outdated = \/ past.outdated
                         \/ /\ RenamePendingHere /\ Renames([log |-> l]) = {}
                            /\ \E j \in mem.applied : j > mem.flow.read
        BY <1>1 DEF Refresh, Pasts
  <2>   QED
        BY <2>1, <2>2 DEF RenamePendingHere
<1>5. /\ UNCHANGED <<file, project, up, down, made>> /\ mem.flow.listing = "read"
      /\ ~here /\ mem.flow.listed # at => mem.handlers = <<>>
      /\ at' = (IF ~here /\ mem.flow.listed # at THEN mem.flow.listed ELSE at)
      BY DEF Refresh, Here
<1>   HIDE DEF l, here, missed
<1>6. /\ mem'.log = l /\ mem'.count = mem.count /\ mem'.handlers = mem.handlers
      /\ mem'.clock = mem.clock /\ mem'.known = mem.known /\ mem'.applied = mem.applied
      /\ mem'.flow.listing = "done" /\ mem'.flow.here = here
      /\ Gathers /\ mem'.flow.step = mem.flow.step /\ mem'.flow.settled = mem.flow.settled
      /\ mem'.flow.read = mem.flow.read /\ mem'.flow.listed = mem.flow.listed
      /\ mem'.flow.renames = mem.flow.renames
      BY <1>1, <1>2 DEF Gathers, Mems, Flows
<1>   QED
      BY <1>3, <1>4, <1>5, <1>6 DEF l, here, missed

\* A row of the catch-up.
LEMMA ApplyGoes ==
    ASSUME Shaped, ApplyRow
    PROVE  LET k == Earliest(mem.flow.todo)
               moves == k \notin mem.flow.own /\ ~Skipped(k)
           IN /\ UNCHANGED <<file, project, up, down, made>> /\ Lists
              /\ mem'.log = mem.log /\ mem'.count = mem.count /\ mem'.handlers = mem.handlers
              /\ mem'.known = mem.known /\ mem'.applied = mem.applied
              /\ mem'.clock = MergedClock(mem.clock, project.journal[k].clock)
              /\ moves => mem.handlers = <<>>
              /\ at' = (IF moves THEN project.journal[k].to ELSE at)
              /\ mem.flow.step = "rows" /\ mem'.flow.step = "rows" /\ mem.flow.todo # {}
              /\ mem'.flow.settled = mem.flow.settled
              /\ mem'.flow.join = mem.flow.join /\ mem'.flow.rows = mem.flow.rows
              /\ mem'.flow.todo = mem.flow.todo \ {k}
              /\ mem'.flow.own = mem.flow.own /\ mem'.flow.had = mem.flow.had
              /\ past'.replayed = (past.replayed \/ (moves /\ Unguarded(k)))
              /\ past'.outdated = past.outdated
<1>   DEFINE k == Earliest(mem.flow.todo)
             moves == k \notin mem.flow.own /\ ~Skipped(k)
             rep == past.replayed \/ (moves /\ Unguarded(k))
             c == MergedClock(mem.clock, project.journal[k].clock)
             todo == mem.flow.todo \ {k}
<1>1. mem \in Mems(made) /\ mem.flow \in Flows /\ past \in Pasts
      BY MemNamed DEF Mems, Shaped
<1>2. past'.replayed = rep /\ past'.outdated = past.outdated
      BY <1>1 DEF ApplyRow, Pasts
<1>3. mem' = [mem EXCEPT !.clock = c, !.flow = [mem.flow EXCEPT !.todo = todo]]
      BY <1>1 DEF ApplyRow, Mems, Flows
<1>4. /\ UNCHANGED <<file, project, up, down, made>>
      /\ moves => mem.handlers = <<>>
      /\ at' = (IF moves THEN project.journal[k].to ELSE at)
      /\ mem.flow.step = "rows" /\ mem.flow.todo # {}
      BY DEF ApplyRow
<1>   HIDE DEF c, todo, rep
<1>5. /\ mem'.log = mem.log /\ mem'.count = mem.count /\ mem'.handlers = mem.handlers
      /\ mem'.known = mem.known /\ mem'.applied = mem.applied /\ mem'.clock = c /\ Lists
      /\ mem'.flow.step = mem.flow.step /\ mem'.flow.settled = mem.flow.settled
      /\ mem'.flow.join = mem.flow.join /\ mem'.flow.rows = mem.flow.rows /\ mem'.flow.todo = todo
      /\ mem'.flow.own = mem.flow.own /\ mem'.flow.had = mem.flow.had
      BY <1>1, <1>3 DEF Lists, Mems, Flows
<1>   QED
      BY <1>2, <1>4, <1>5 DEF c, todo, rep

\* What no flow has.
Flowless ==
    /\ mem'.flow.step = "off" /\ ~mem'.flow.settled /\ mem'.flow.listing = "none"
    /\ mem'.flow.join = "none" /\ mem'.flow.rows = {} /\ mem'.flow.todo = {}
    /\ mem'.flow.own = {} /\ mem'.flow.had = {}

\* A connection that goes leaves the operations, queued again.
LEMMA DropsGoes ==
    ASSUME Shaped, Drops
    PROVE  /\ UNCHANGED <<at, file, made, past>> /\ Disconnects /\ Fields /\ Flowless
           /\ \A i \in DOMAIN mem.log :
                 mem'.log[i].st = (IF mem.log[i].st \in OnWay THEN "queued" ELSE mem.log[i].st)
           /\ mem'.count = mem.count /\ mem'.handlers = mem.handlers /\ mem'.applied = mem.applied
           /\ mem'.clock = mem.clock /\ mem'.known = mem.known
<1>1. mem \in Mems(made) /\ mem.log \in Logs(made) /\ made \in Nat
      BY MemNamed
<1>2. \A i \in DOMAIN mem.log : mem.log[i] \in QueuedOps
      BY <1>1, LogNamed
<1>3. DropsAll /\ Disconnects
      BY DropsNamed
<1>   DEFINE l == [i \in DOMAIN mem.log |->
                     IF mem.log[i].st \in {"sent", "resent"}
                     THEN [mem.log[i] EXCEPT !.st = "queued"] ELSE mem.log[i]]
<1>4. mem'.log = l /\ mem'.count = mem.count /\ mem'.flow = NoFlow
      BY <1>1 DEF Drops, Mems
<1>5. Fields /\ \A i \in DOMAIN mem.log :
                  mem'.log[i].st = (IF mem.log[i].st \in OnWay THEN "queued" ELSE mem.log[i].st)
      BY <1>2, <1>4 DEF Fields, OnWay, QueuedOps
<1>6. Flowless
      BY <1>4 DEF Flowless, NoFlow
<1>   QED
      BY <1>3, <1>4, <1>5, <1>6 DEF DropsAll

\* A crash leaves the operations of state.json.
LEMMA CrashGoes ==
    ASSUME Shaped, Crash
    PROVE  /\ UNCHANGED <<at, file, made>> /\ Told0 /\ Disconnects /\ Flowless /\ file.at = at
           /\ mem'.log = file.log /\ mem'.count = 0 /\ mem'.handlers = <<>>
           /\ mem'.applied = file.applied /\ mem'.clock = file.clock /\ mem'.known = {}
<1>1. past \in Pasts /\ file \in Files(made)
      BY DEF Shaped, FileTypeOK
<1>2. CrashesTo /\ Disconnects
      BY CrashNamed
<1>3. Told0
      BY <1>1 DEF Crash, Told0, Pasts
<1>4. mem'.count = 0 /\ mem'.flow = NoFlow /\ file.at = at
      BY <1>1 DEF Crash, Started, Files
<1>5. Flowless
      BY <1>4 DEF Flowless, NoFlow
<1>   QED
      BY <1>2, <1>3, <1>4, <1>5 DEF CrashesTo

\* A write has the log's operations, queued.
LEMMA WriteGoes ==
    ASSUME Shaped, Write \/ Saved
    PROVE  LET f == IF Write THEN file' ELSE file
           IN /\ DOMAIN f.log = DOMAIN mem.log /\ f.at = at /\ f.clock = mem.recorded
              /\ InLog(f.log) = Renames(mem)
              /\ \A i \in DOMAIN mem.log :
                    /\ f.log[i].kind = mem.log[i].kind /\ f.log[i].st = "queued"
                    /\ f.log[i].from = mem.log[i].from /\ f.log[i].to = mem.log[i].to
<1>1. mem \in Mems(made) /\ mem.log \in Logs(made) /\ made \in Nat
      BY MemNamed
<1>2. \A i \in DOMAIN mem.log : mem.log[i] \in QueuedOps
      BY <1>1, LogNamed
<1>   DEFINE f == IF Write THEN file' ELSE file
             l == [i \in DOMAIN mem.log |-> [mem.log[i] EXCEPT !.st = "queued"]]
<1>3. f = Document(mem, at)
      BY DEF Write, Saved
<1>4. f.log = l /\ f.at = at /\ f.clock = mem.recorded
      BY <1>3 DEF Document
<1>   HIDE DEF f
<1>5. DOMAIN f.log = DOMAIN mem.log
      BY <1>4
<1>6. \A i \in DOMAIN mem.log :
          /\ f.log[i].kind = mem.log[i].kind /\ f.log[i].st = "queued"
          /\ f.log[i].from = mem.log[i].from /\ f.log[i].to = mem.log[i].to
      BY <1>2, <1>4 DEF QueuedOps
<1>7. InLog(f.log) = Renames(mem)
      BY <1>5, <1>6 DEF InLog, Renames
<1>   QED
      BY <1>4, <1>5, <1>6, <1>7 DEF f

\* The server applying an operation.
Goes(row) ==
    /\ row \in Rows /\ Grows(row) /\ project'.journal = Append(project.journal, row)
    /\ project'.room = project.room /\ project'.join = project.join

\* Its packet is the first up; the row it becomes is the last of the journal.
LEMMA LandsOne ==
    ASSUME CInv, ServerApplies
    PROVE  LET p == Head(up)
               op == mem.log[p.id]
           IN /\ UNCHANGED <<at, mem, file, made, past>>
              /\ 1 \in Sent /\ up[1] = p /\ up # <<>> /\ up' = Tail(up)
              /\ p.id \in DOMAIN mem.log /\ p.id # 0 /\ ~Landed(p.id) /\ op.st \in OnWay
              /\ p.id \in DOMAIN file.log /\ p.clock[2] <= mem.clock[2]
              /\ project'.at = (IF op.kind = "rename" THEN op.to ELSE project.at)
              /\ down' = Append(down, [type |-> "ack", row |-> Len(project.journal) + 1])
              /\ \E row \in Rows : /\ Goes(row) /\ row.id = p.id /\ row.kind = op.kind
                                   /\ row.from = project.at /\ row.to = op.to
                                   /\ row.clock = <<p.clock[1] + 1, p.clock[2]>>
<1>   DEFINE p == Head(up)
             op == mem.log[p.id]
             row == Row(p.id, op.kind, project.at, op.to, <<p.clock[1] + 1, p.clock[2]>>)
<1>1. Shaped /\ Carried
      BY DEF CInv
<1>2. /\ project \in [at : FileName, journal : Seq(Rows), room : BOOLEAN, join : Clock \cup {<<>>}]
      /\ up \in Seq(Requests)
      BY <1>1 DEF Shaped, ProjectTypeOK
<1>3. /\ up # <<>> /\ p.type = "op" /\ up' = Tail(up) /\ UNCHANGED <<at, mem, file, made, past>>
      /\ down' = Append(down, [type |-> "ack", row |-> Len(project.journal) + 1])
      BY DEF ServerApplies
<1>4. 1 \in Sent /\ up[1] = p /\ p \in Requests
      BY <1>2, <1>3 DEF Sent
<1>5. /\ p.id \in DOMAIN mem.log /\ ~Landed(p.id) /\ op.st \in OnWay
      /\ p.id \in DOMAIN file.log /\ p.clock[2] <= mem.clock[2]
      BY <1>1, <1>4 DEF Carried, OnWay
<1>6. p.id \in 1..made /\ op \in QueuedOps /\ made \in Nat
      BY <1>1, <1>5, OpTyped
<1>7. p.clock \in Clock
      BY <1>3, <1>4 DEF Requests
<1>8. row \in Rows
      BY <1>2, <1>6, <1>7 DEF Row, Rows, QueuedOps, Clock
<1>9. /\ row.id = p.id /\ row.kind = op.kind /\ row.from = project.at /\ row.to = op.to
      /\ row.clock = <<p.clock[1] + 1, p.clock[2]>>
      BY DEF Row
<1>10. /\ project'.journal = Append(project.journal, row)
       /\ project'.at = (IF op.kind = "rename" THEN op.to ELSE project.at)
       /\ project'.room = project.room /\ project'.join = project.join
      BY <1>2 DEF ServerApplies
<1>   HIDE DEF row
<1>11. Grows(row)
      BY <1>1, <1>8, <1>10, GrowsNamed
<1>   QED
      BY <1>3, <1>4, <1>5, <1>6, <1>8, <1>9, <1>10, <1>11 DEF Goes

\* The server taking a join in.
LEMMA TakesJoin ==
    ASSUME Shaped, ServerTakesIn
    PROVE  /\ UNCHANGED <<at, mem, file, down, made, past>>
           /\ 1 \in JoinsUp /\ up # <<>> /\ up' = Tail(up) /\ up[1] = Head(up)
           /\ project'.at = project.at /\ project'.journal = project.journal
           /\ project'.room /\ project'.join = up[1].clock
<1>1. /\ project \in [at : FileName, journal : Seq(Rows), room : BOOLEAN, join : Clock \cup {<<>>}]
      /\ up \in Seq(Requests)
      BY DEF Shaped, ProjectTypeOK
<1>2. 1 \in JoinsUp /\ up[1] = Head(up)
      BY <1>1 DEF ServerTakesIn, JoinsUp
<1>   QED
      BY <1>1, <1>2 DEF ServerTakesIn

\* The server answering one: with what the clock has not seen, or the newest of it, or not now.
LEMMA AnswersJoin ==
    ASSUME Shaped, ServerAnswersJoin
    PROVE  /\ UNCHANGED <<at, mem, file, up, made, past>>
           /\ project'.at = project.at /\ project'.journal = project.journal
           /\ project.join # <<>> /\ project'.join = <<>>
           /\ \E d \in Answers :
                 /\ down' = Append(down, d)
                 /\ \/ /\ d.type = "joined" /\ project'.room = project.room
                       /\ d.rows \in {Unseen(project.join), Newest(Unseen(project.join))}
                    \/ d.type = "refused" /\ ~project'.room
<1>1. /\ project \in [at : FileName, journal : Seq(Rows), room : BOOLEAN, join : Clock \cup {<<>>}]
      BY DEF Shaped, ProjectTypeOK
<1>   DEFINE answer(rows) == [type |-> "joined", whole |-> rows = Unseen(project.join), rows |-> rows]
<1>2. \A rows : rows \subseteq Unseen(project.join) =>
         answer(rows) \in Answers /\ answer(rows).type = "joined" /\ answer(rows).rows = rows
  <2>1. Unseen(project.join) \subseteq Nat
        BY <1>1 DEF Unseen
  <2>   QED
        BY <2>1 DEF Answers
<1>3. /\ UNCHANGED <<at, mem, file, up, made, past>> /\ project.join # <<>>
      BY DEF ServerAnswersJoin
<1>4. CASE /\ \E rows \in {Unseen(project.join), Newest(Unseen(project.join))} :
                 down' = Append(down, answer(rows))
           /\ project' = [project EXCEPT !.join = <<>>]
  <2>1. PICK rows \in {Unseen(project.join), Newest(Unseen(project.join))} :
              down' = Append(down, answer(rows))
        BY <1>4
  <2>2. rows \subseteq Unseen(project.join)
        BY <2>1 DEF Newest
  <2>   HIDE DEF answer
  <2>3. /\ project'.at = project.at /\ project'.journal = project.journal
        /\ project'.join = <<>> /\ project'.room = project.room
        BY <1>1, <1>4
  <2>   QED
        BY <1>2, <1>3, <2>1, <2>2, <2>3
<1>5. CASE /\ down' = Append(down, [type |-> "refused"])
           /\ project' = [project EXCEPT !.join = <<>>, !.room = FALSE]
  <2>1. [type |-> "refused"] \in Answers /\ [type |-> "refused"].type = "refused"
        BY DEF Answers
  <2>2. /\ project'.at = project.at /\ project'.journal = project.journal
        /\ project'.join = <<>> /\ ~project'.room
        BY <1>1, <1>5
  <2>   QED
        BY <1>3, <1>5, <2>1, <2>2
<1>   QED
      BY <1>4, <1>5 DEF ServerAnswersJoin

\* A teammate's rename.
LEMMA TeammateGoes ==
    ASSUME Shaped, TeammateRenames
    PROVE  /\ UNCHANGED <<at, mem, file, up, made, past>>
           /\ \E row \in Rows : /\ Goes(row) /\ row.id = 0 /\ row.kind = "rename"
                                /\ row.from = project.at /\ row.to = project'.at
                                /\ row.clock[2] = 1 + Cardinality(MateRows)
           /\ down' = IF project.room
                      THEN Append(down, [type |-> "renamed", row |-> Len(project.journal) + 1]) ELSE down
<1>1. /\ project \in [at : FileName, journal : Seq(Rows), room : BOOLEAN, join : Clock \cup {<<>>}]
      BY DEF Shaped, ProjectTypeOK
<1>   DEFINE seq == 1 + Cardinality(MateRows)
             others == FileName \ {project.at}
             heard == {0} \cup {project.journal[k].clock[1] : k \in DOMAIN project.journal}
             moved(n, h) == project' = [project EXCEPT !.at = n,
                       !.journal = Append(@, Row(0, "rename", project.at, n, <<h, seq>>))]
<1>0. \E n \in others, h \in heard : moved(n, h)
      BY DEF TeammateRenames, MateRows
<1>2. PICK n \in others, h \in heard : moved(n, h)
      BY <1>0
<1>   HIDE DEF moved
<1>   DEFINE row == Row(0, "rename", project.at, n, <<h, seq>>)
<1>3. \A k \in DOMAIN project.journal : project.journal[k].clock[1] \in Nat
      BY ClockNamed
<1>4. h \in Nat
      BY <1>2, <1>3 DEF heard
<1>5. seq \in Nat
  <2>1. DOMAIN project.journal = 1..Len(project.journal) /\ Len(project.journal) \in Nat
        BY <1>1
  <2>2. IsFiniteSet(DOMAIN project.journal)
        BY <2>1, FS_Interval
  <2>3. IsFiniteSet(MateRows)
        BY <2>2, FS_Subset DEF MateRows
  <2>   QED
        BY <2>3, FS_CardinalityType
<1>6. project' = [project EXCEPT !.at = n, !.journal = Append(@, row)]
      BY <1>2 DEF moved
<1>   HIDE DEF seq
<1>7. row \in Rows
      BY <1>1, <1>4, <1>5 DEF Row, Rows, Clock
<1>8. row.id = 0 /\ row.kind = "rename" /\ row.from = project.at /\ row.to = n /\ row.clock[2] = seq
      BY DEF Row
<1>   HIDE DEF row
<1>9. /\ project'.journal = Append(project.journal, row) /\ project'.at = n
      /\ project'.room = project.room /\ project'.join = project.join
      BY <1>1, <1>6
<1>10. Grows(row)
      BY <1>7, <1>9, GrowsNamed
<1>11. /\ UNCHANGED <<at, mem, file, up, made, past>>
       /\ down' = IF project.room
                  THEN Append(down, [type |-> "renamed", row |-> Len(project.journal) + 1]) ELSE down
      BY DEF TeammateRenames
<1>   QED
      BY <1>7, <1>8, <1>9, <1>10, <1>11 DEF Goes, seq

-----------------------------------------------------------------------------
(* Collapsing the queued renames (collapseQueuedRenames).                  *)

\* Two of a finite set of numbers.
LEMMA TwoOrOne ==
    ASSUME NEW n \in Nat, NEW S \in SUBSET (1..n), NEW i \in S, NEW j \in S,
           \A m \in S : i <= m, \A m \in S : j >= m
    PROVE  Cardinality(S) < 2 <=> i = j
<1>0. \A m \in S : m \in Nat
      OBVIOUS
<1>1. IsFiniteSet(S)
  <2>1. IsFiniteSet(1..n)
        BY FS_Interval
  <2>   QED
        BY <2>1, FS_Subset
<1>2. Cardinality(S) \in Nat
      BY <1>1, FS_CardinalityType
<1>3. ASSUME i = j PROVE Cardinality(S) < 2
  <2>0. \A m \in S : m = i
        BY <1>0, <1>3
  <2>1. S = {i}
        BY <2>0
  <2>2. Cardinality(S) = 1
        BY <2>1, FS_Singleton
  <2>   QED
        BY <2>2
<1>4. ASSUME i # j PROVE ~(Cardinality(S) < 2)
  <2>   DEFINE one == {i}
  <2>1. IsFiniteSet(one) /\ Cardinality(one) = 1 /\ j \notin one
        BY <1>4, FS_Singleton
  <2>   HIDE DEF one
  <2>2. Cardinality(one \cup {j}) = 2
        BY <2>1, FS_AddElement
  <2>   USE DEF one
  <2>3. {i} \cup {j} \subseteq S
        OBVIOUS
  <2>   DEFINE two == {i} \cup {j}
  <2>   HIDE DEF two
  <2>4. Cardinality(two) <= Cardinality(S)
    <3>1. two \subseteq S
          BY <2>3 DEF two
    <3>   QED
          BY <1>1, <3>1, FS_Subset
  <2>   USE DEF two
  <2>   QED
        BY <1>2, <2>2, <2>4
<1>   QED
      BY <1>3, <1>4

\* No rename is queued: the log stays.
LEMMA CollapsedNone ==
    ASSUME NEW n \in Nat, NEW l \in Logs(n), \A i \in InLog(l) : l[i].st # "queued"
    PROVE  Collapsed(l) = l
<1>   DEFINE chain == {i \in DOMAIN l : l[i].kind = "rename" /\ l[i].st = "queued"}
             first == CHOOSE i \in chain : \A j \in chain : i <= j
             last  == CHOOSE i \in chain : \A j \in chain : i >= j
<1>1. Collapsed(l) = IF Cardinality(chain) < 2 THEN l
                     ELSE IF l[first].from = l[last].to THEN Without(l, chain)
                     ELSE [Without(l, chain \ {first}) EXCEPT ![first].to = l[last].to]
      BY DEF Collapsed
<1>2. chain = {}
      BY DEF InLog
<1>   HIDE DEF chain, first, last
<1>3. Cardinality(chain) = 0
      BY <1>2, FS_EmptySet
<1>   QED
      BY <1>1, <1>3

\* All renames are queued: none is left, as they lead back, or the first, which takes the
\* file where the last did.
Kept(l, c, i, j) ==
    /\ Leading(l, i) /\ Last(l, j) /\ InLog(c) = {i} /\ c[i].st = "queued"
    /\ c[i].from = l[i].from /\ c[i].to = l[j].to /\ (i = j \/ l[i].from # l[j].to)

\* Those are the cases there are.
LEMMA CollapsedAll ==
    ASSUME NEW n \in Nat, NEW l \in Logs(n), \A i \in InLog(l) : l[i].st = "queued"
    PROVE  LET c == Collapsed(l)
           IN \/ InLog(c) = {} /\ InLog(l) = {}
              \/ /\ InLog(c) = {}
                 /\ \E i, j \in InLog(l) : Leading(l, i) /\ Last(l, j) /\ i # j /\ l[i].from = l[j].to
              \/ \E i, j \in InLog(l) : Kept(l, c, i, j)
<1>   DEFINE chain == {i \in DOMAIN l : l[i].kind = "rename" /\ l[i].st = "queued"}
             first == CHOOSE i \in chain : \A j \in chain : i <= j
             last  == CHOOSE i \in chain : \A j \in chain : i >= j
             one   == Without(l, chain \ {first})
<1>1. /\ l = [i \in DOMAIN l |-> l[i]] /\ chain \in SUBSET (1..n)
      /\ \A i \in DOMAIN l : l[i] \in QueuedOps
      BY LogNamed
<1>2. chain = InLog(l)
      BY DEF InLog
<1>3. CASE chain = {}
  <2>1. Collapsed(l) = l
        BY <1>2, <1>3, CollapsedNone
  <2>   QED
        BY <1>2, <1>3, <2>1
<1>4. CASE chain # {}
  <2>1. first \in chain /\ \A j \in chain : first <= j
    <3>1. chain \in SUBSET Nat
          BY <1>1
    <3>   HIDE DEF chain
    <3>   QED
          BY <1>4, <3>1, LeastExists DEF Earliest
  <2>2. last \in chain /\ \A j \in chain : last >= j
        BY <1>1, <1>4, GreatestExists
  <2>0. Collapsed(l) = IF Cardinality(chain) < 2 THEN l
                       ELSE IF l[first].from = l[last].to THEN Without(l, chain)
                       ELSE [one EXCEPT ![first].to = l[last].to]
        BY DEF Collapsed
  <2>   HIDE DEF chain, first, last
  <2>3. Cardinality(chain) < 2 <=> first = last
        BY <1>1, <2>1, <2>2, TwoOrOne
  <2>4. Leading(l, first) /\ Last(l, last)
    <3>1. \A j \in chain : j \in Nat
          BY <1>1
    <3>   QED
          BY <1>2, <2>1, <2>2, <3>1 DEF Leading, Last
  <2>5. CASE first = last
    <3>1. Collapsed(l) = l
          BY <2>0, <2>3, <2>5
    <3>2. chain = {first}
      <4>1. \A j \in chain : j \in Nat
            BY <1>1
      <4>   QED
            BY <2>1, <2>2, <2>5, <4>1
    <3>3. l[first].st = "queued"
          BY <1>2, <2>1
    <3>4. Kept(l, l, first, first)
          BY <1>2, <2>4, <2>5, <3>2, <3>3 DEF Kept
    <3>   QED
          BY <1>2, <2>1, <3>1, <3>4
  <2>6. CASE first # last /\ l[first].from = l[last].to
    <3>1. Collapsed(l) = Without(l, chain)
          BY <2>0, <2>3, <2>6
    <3>2. /\ DOMAIN Without(l, chain) = DOMAIN l \ chain
          /\ \A i \in DOMAIN l \ chain : Without(l, chain)[i] = l[i]
          BY WithoutNamed
    <3>3. InLog(Collapsed(l)) = {}
          BY <1>2, <3>1, <3>2 DEF InLog
    <3>   QED
          BY <1>2, <2>1, <2>2, <2>4, <2>6, <3>3
  <2>7. CASE first # last /\ l[first].from # l[last].to
    <3>1. Collapsed(l) = [one EXCEPT ![first].to = l[last].to]
          BY <2>0, <2>3, <2>7
    <3>2. /\ one \in Logs(n) /\ DOMAIN one = DOMAIN l \ (chain \ {first})
          /\ \A i \in DOMAIN l \ (chain \ {first}) : one[i] = l[i]
      <4>   DEFINE later == chain \ {first}
      <4>   HIDE DEF later
      <4>1. one = Without(l, later)
            BY DEF later
      <4>   HIDE DEF one
      <4>2. /\ one \in Logs(n) /\ DOMAIN one = DOMAIN l \ later
            /\ \A i \in DOMAIN l \ later : one[i] = l[i]
            BY <4>1, WithoutNamed
      <4>   QED
            BY <4>2 DEF later
    <3>3. first \in DOMAIN l /\ l[first] \in QueuedOps /\ l[first].kind = "rename" /\ l[first].st = "queued"
          BY <1>1, <1>2, <2>1 DEF InLog
    <3>   HIDE DEF one
    <3>4. first \in DOMAIN one /\ one[first] = l[first]
          BY <3>2, <3>3
    <3>5. /\ DOMAIN Collapsed(l) = DOMAIN one
          /\ Collapsed(l)[first].to = l[last].to /\ Collapsed(l)[first].from = l[first].from
          /\ Collapsed(l)[first].kind = "rename" /\ Collapsed(l)[first].st = "queued"
          /\ \A i \in DOMAIN one : i # first => Collapsed(l)[i] = one[i]
          BY <3>1, <3>3, <3>4 DEF QueuedOps
    <3>6. InLog(Collapsed(l)) = {first}
          BY <1>2, <3>2, <3>4, <3>5 DEF InLog
    <3>7. Kept(l, Collapsed(l), first, last)
          BY <2>4, <2>7, <3>5, <3>6 DEF Kept
    <3>   QED
          BY <1>2, <2>1, <2>2, <3>7
  <2>   QED
        BY <2>5, <2>6, <2>7
<1>   QED
      BY <1>3, <1>4

-----------------------------------------------------------------------------
(* The invariant, part by part.                                            *)

\* The journal only grows, by one row at a time, of the server's.
LEMMA JournalGrows ==
    ASSUME CInv, [CatchUpNext]_cvars
    PROVE  \/ project'.journal = project.journal
           \/ /\ ServerApplies \/ TeammateRenames
              /\ \E row \in Rows : Goes(row)
<1>1. Shaped
      BY DEF CInv
<1>2. CASE DeviceNext
      BY <1>2, DeviceSteps
<1>3. CASE ServerApplies
      BY <1>3, LandsOne
<1>4. CASE TeammateRenames
      BY <1>1, <1>4, TeammateGoes
<1>5. CASE ServerTakesIn \/ ServerAnswersJoin
      BY <1>1, <1>5, TakesJoin, AnswersJoin
<1>6. CASE Drops \/ Crash
      BY <1>1, <1>6, DropsGoes, CrashGoes DEF Disconnects
<1>7. CASE UNCHANGED cvars
      BY <1>7 DEF cvars
<1>   QED
      BY <1>2, <1>3, <1>4, <1>5, <1>6, <1>7 DEF CatchUpNext, DeviceNext

\* No operation changes its kind, and a new one has a number of its own.
LEMMA LogKinds ==
    ASSUME CInv, Plain, [CatchUpNext]_cvars
    PROVE  \A i \in DOMAIN mem'.log :
              \/ i \in DOMAIN mem.log /\ mem'.log[i].kind = mem.log[i].kind
              \/ i = made + 1 /\ project' = project /\ file' = file /\ mem'.known = mem.known
              \/ /\ Crash /\ file' = file /\ project'.journal = project.journal
                 /\ i \in DOMAIN file.log /\ mem'.log[i].kind = file.log[i].kind
<1>1. Shaped
      BY DEF CInv
<1>2. CASE UserRenames
  <2>1. at' \in FileName /\ Record("rename", at', QueuedMoves)
        BY <1>2 DEF UserRenames
  <2>2. Records("rename", QueuedMoves)
        BY <1>1, <2>1, RecordNamed
  <2>   QED
        BY <2>2 DEF Records
<1>3. CASE UserChanges
      BY <1>1, <1>3, UserChangesSame
<1>4. CASE Send \/ Resend
      BY <1>1, <1>4, SendsOne DEF Fields
<1>5. CASE Answered
      BY <1>5, AnsweredLeaves
<1>6. CASE \/ Write \/ AnswerRecorded \/ Renamed \/ MoveLive \/ Connects \/ JoinAgain
           \/ StatusAnswered \/ SettleLanded \/ LandedLeaves \/ Join \/ ListingRead \/ Refresh
           \/ JoinAnswered \/ Gather \/ ApplyRow \/ FlowEnds
      BY <1>6, LogShrinking DEF LogShrinks
<1>7. CASE ServerNext
      BY <1>1, <1>7, LandsOne, TeammateGoes, TakesJoin, AnswersJoin DEF ServerNext
<1>8. CASE Drops
      BY <1>1, <1>8, DropsGoes DEF Fields
<1>9. CASE Crash
      BY <1>1, <1>9, CrashGoes DEF Disconnects
<1>10. CASE UNCHANGED cvars
      BY <1>10 DEF cvars
<1>   QED
      BY <1>2, <1>3, <1>4, <1>5, <1>6, <1>7, <1>8, <1>9, <1>10 DEF CatchUpNext, ServerNext

\* state.json is left, or written from the log.
LEMMA FileWritten ==
    ASSUME CInv, [CatchUpNext]_cvars
    PROVE  file' = file \/ (Write /\ mem' = mem /\ project' = project)
<1>1. Shaped
      BY DEF CInv
<1>2. CASE Write
      BY <1>2 DEF Write
<1>3. CASE UserRenames \/ UserChanges
      BY <1>1, <1>3, UserRenamesAdds, UserChangesSame DEF Adds
<1>4. CASE Send \/ Resend
      BY <1>1, <1>4, SendsOne DEF Outside
<1>5. CASE Answered \/ AnswerRecorded \/ SettleLanded \/ LandedLeaves
      BY <1>5 DEF Answered, AnswerRecorded, SettleLanded, LandedLeaves
<1>6. CASE \/ Renamed \/ MoveLive \/ Connects \/ JoinAgain \/ StatusAnswered \/ Join \/ ListingRead
           \/ Refresh \/ JoinAnswered \/ Gather \/ ApplyRow \/ FlowEnds
      BY <1>6 DEF Renamed, MoveLive, Connects, JoinAgain, StatusAnswered, Join, ListingRead,
         Refresh, JoinAnswered, Gather, ApplyRow, FlowEnds
<1>7. CASE ServerNext
      BY <1>1, <1>7, LandsOne, TeammateGoes, TakesJoin, AnswersJoin DEF ServerNext
<1>8. CASE Drops \/ Crash
      BY <1>1, <1>8, DropsGoes, CrashGoes
<1>9. CASE UNCHANGED cvars
      BY <1>9 DEF cvars
<1>   QED
      BY <1>2, <1>3, <1>4, <1>5, <1>6, <1>7, <1>8, <1>9 DEF CatchUpNext, ServerNext

\* What is on its way was before, or is the server's answer, or a broadcast.
LEMMA DownSteps ==
    ASSUME CInv, [CatchUpNext]_cvars
    PROVE  \/ Shrinks /\ ~ServerApplies /\ ~ServerAnswersJoin
           \/ ServerApplies /\ down' = Append(down, [type |-> "ack", row |-> Len(project.journal) + 1])
           \/ /\ TeammateRenames /\ project.room
              /\ down' = Append(down, [type |-> "renamed", row |-> Len(project.journal) + 1])
           \/ ServerAnswersJoin /\ \E d \in Answers : down' = Append(down, d) /\ d.type \in {"joined", "refused"}
           \/ (Drops \/ Crash) /\ down' = <<>>
<1>1. Shaped
      BY DEF CInv
<1>2. CASE ServerApplies
      BY <1>2, LandsOne
<1>3. CASE ServerAnswersJoin
      BY <1>1, <1>3, AnswersJoin
<1>   SUFFICES ASSUME ~ServerApplies, ~ServerAnswersJoin
      PROVE  \/ Shrinks
             \/ /\ TeammateRenames /\ project.room
                /\ down' = Append(down, [type |-> "renamed", row |-> Len(project.journal) + 1])
             \/ (Drops \/ Crash) /\ down' = <<>>
      BY <1>2, <1>3
<1>4. CASE DeviceNext
      BY <1>4, DeviceSteps
<1>5. CASE TeammateRenames
      BY <1>1, <1>5, TeammateGoes DEF Shrinks
<1>6. CASE ServerTakesIn
      BY <1>1, <1>6, TakesJoin DEF Shrinks
<1>7. CASE Drops \/ Crash
      BY <1>1, <1>7, DropsGoes, CrashGoes DEF Disconnects
<1>8. CASE UNCHANGED cvars
      BY <1>8 DEF cvars, Shrinks
<1>   QED
      BY <1>4, <1>5, <1>6, <1>7, <1>8 DEF CatchUpNext, DeviceNext

\* So of each.
LEMMA DownFrom ==
    ASSUME CInv, [CatchUpNext]_cvars, NEW n \in DOMAIN down'
    PROVE  \/ \E m \in DOMAIN down : down'[n] = down[m]
           \/ /\ ServerApplies /\ down'[n].type = "ack" /\ down'[n].row = Len(project.journal) + 1
           \/ /\ TeammateRenames /\ project.room /\ down'[n].type = "renamed"
              /\ down'[n].row = Len(project.journal) + 1
           \/ ServerAnswersJoin /\ down'[n].type \in {"joined", "refused"}
<1>1. Shaped
      BY DEF CInv
<1>2. CASE Shrinks
      BY <1>1, <1>2, ShrinksNamed
<1>3. ASSUME NEW d, down' = Append(down, d)
      PROVE  (\E m \in DOMAIN down : down'[n] = down[m]) \/ down'[n] = d
      BY <1>1, <1>3, DownMore
<1>4. CASE ServerApplies /\ down' = Append(down, [type |-> "ack", row |-> Len(project.journal) + 1])
      BY <1>3, <1>4
<1>5. CASE /\ TeammateRenames /\ project.room
           /\ down' = Append(down, [type |-> "renamed", row |-> Len(project.journal) + 1])
      BY <1>3, <1>5
<1>6. CASE ServerAnswersJoin /\ \E d \in Answers : down' = Append(down, d) /\ d.type \in {"joined", "refused"}
      BY <1>3, <1>6
<1>7. CASE down' = <<>>
      BY <1>7
<1>   QED
      BY <1>2, <1>4, <1>5, <1>6, <1>7, DownSteps

\* What is known of this connection is operations.
LEMMA KnownOps ==
    ASSUME CInv, Plain, Kinds, [CatchUpNext]_cvars
    PROVE  0 \notin mem'.known
<1>1. Shaped /\ 0 \notin mem.known /\ 0 \notin DOMAIN mem.log
      BY OpTyped DEF CInv, Kinds
<1>2. CASE UserRenames \/ UserChanges \/ Send \/ Resend \/ Renamed \/ MoveLive \/ Refresh \/ ApplyRow
      BY <1>1, <1>2, UserRenamesAdds, UserChangesSame, SendsOne, RenamedGoes, MoveLiveGoes, RefreshGoes,
         ApplyGoes DEF Adds
<1>3. CASE Write \/ ServerNext \/ UNCHANGED cvars
      BY <1>1, <1>3, LandsOne, TeammateGoes, TakesJoin, AnswersJoin DEF Write, ServerNext, cvars
<1>4. CASE Answered
  <2>1. 1 \in DOMAIN down /\ down[1] = Head(down) /\ Head(down).type = "ack"
        BY <1>1, <1>4, AnsweredLeaves DEF Shaped
  <2>2. Head(down).row \in Own
        BY <2>1 DEF Kinds
  <2>3. project.journal[Head(down).row].id # 0
        BY <2>2 DEF Own
  <2>   QED
        BY <1>1, <1>4, <2>3, AnsweredLeaves
<1>5. CASE AnswerRecorded
      BY <1>1, <1>5, RecordedSame
<1>6. CASE SettleLanded \/ LandedLeaves
  <2>1. mem.flow.asked # {} /\ mem.flow.asked \subseteq 1..made /\ made \in Nat
        BY <1>6, SettlingLeaves, MemNamed DEF CInv, RowsThere
  <2>2. mem.flow.asked \in SUBSET Nat
        BY <2>1
  <2>3. Earliest(mem.flow.asked) # 0
        BY <2>1, <2>2, LeastExists
  <2>   QED
        BY <1>1, <1>6, <2>3, SettlingLeaves
<1>7. CASE Connects \/ JoinAgain
      BY <1>1, <1>7, StartsOver
<1>8. CASE StatusAnswered \/ Join \/ ListingRead \/ JoinAnswered \/ Gather \/ FlowEnds
      BY <1>1, <1>8, StatusGoes, JoinGoes, ListingGoes, JoinedGoes, GatherGoes, EndsGoes DEF FlowGoes
<1>9. CASE Drops \/ Crash
      BY <1>1, <1>9, DropsGoes, CrashGoes
<1>   QED
      BY <1>2, <1>3, <1>4, <1>5, <1>6, <1>7, <1>8, <1>9 DEF CatchUpNext, ServerNext

\* What ownRows found of a catch-up stays, until the flow starts over.
LEMMA OwnStays ==
    ASSUME CInv, [CatchUpNext]_cvars
    PROVE  \/ mem'.flow.own = mem.flow.own \/ mem'.flow.own = {}
           \/ mem'.flow.own = OwnRows /\ project' = project
<1>1. Shaped
      BY DEF CInv
<1>2. CASE UserRenames \/ UserChanges \/ Send \/ Resend \/ Answered \/ Renamed \/ MoveLive
      BY <1>1, <1>2, UserRenamesAdds, UserChangesSame, SendsOne, AnsweredLeaves, RenamedGoes, MoveLiveGoes
         DEF Adds, Mems0
<1>3. CASE Write \/ ServerNext \/ UNCHANGED cvars
      BY <1>1, <1>3, LandsOne, TeammateGoes, TakesJoin, AnswersJoin DEF Write, ServerNext, cvars
<1>4. CASE AnswerRecorded
      BY <1>1, <1>4, AsideRests DEF Aside
<1>5. CASE StatusAnswered \/ SettleLanded \/ LandedLeaves
      BY <1>1, <1>5, AsksLeave DEF Gathers
<1>6. CASE Connects \/ JoinAgain
      BY <1>1, <1>6, StartsOver
<1>7. CASE Join \/ ListingRead \/ Refresh \/ JoinAnswered \/ FlowEnds \/ ApplyRow
      BY <1>1, <1>7, JoinGoes, ListingGoes, RefreshGoes, JoinedGoes, EndsGoes, ApplyGoes DEF Gathers
<1>8. CASE Gather
      BY <1>1, <1>8, GatherGoes
<1>9. CASE Drops \/ Crash
      BY <1>1, <1>9, DropsGoes, CrashGoes DEF Flowless
<1>   QED
      BY <1>2, <1>3, <1>4, <1>5, <1>6, <1>7, <1>8, <1>9 DEF CatchUpNext, ServerNext

\* A row stays of the kind of its operation, whichever log that is in.
LEMMA KindsStay ==
    ASSUME CInv, Plain, Kinds, [CatchUpNext]_cvars
    PROVE  Kinds'
<1>1. Shaped /\ RowsThere
      BY DEF CInv
<1>2. /\ \A i \in DOMAIN mem.log : i # 0 /\ i # made + 1
      /\ \A i \in DOMAIN file.log : i # 0 /\ i # made + 1
      /\ \A k \in DOMAIN project.journal : project.journal[k].id # made + 1
      /\ \A k \in DOMAIN project.journal : k # Len(project.journal) + 1
  <2>1. made \in Nat /\ \A k \in DOMAIN project.journal : project.journal[k].id \in Nat /\ project.journal[k].id <= made
        BY <1>1, ClockNamed, MemNamed DEF RowsThere
  <2>2. project.journal \in Seq(Rows)
        BY <1>1 DEF Shaped, ProjectTypeOK
  <2>   QED
        BY <1>1, <2>1, <2>2, OpTyped
<1>3. ASSUME NEW k \in DOMAIN project'.journal, NEW i \in DOMAIN mem'.log, project'.journal[k].id = i
      PROVE  project'.journal[k].kind = mem'.log[i].kind
  <2>1. CASE project'.journal = project.journal
        BY <1>2, <1>3, <2>1, LogKinds DEF Kinds
  <2>2. CASE ServerApplies
        BY <1>1, <1>2, <1>3, <2>2, LandsOne DEF Kinds, Goes, Grows
  <2>3. CASE TeammateRenames
        BY <1>1, <1>2, <1>3, <2>3, TeammateGoes DEF Kinds, Goes, Grows
  <2>   QED
        BY <2>1, <2>2, <2>3, JournalGrows
<1>4. ASSUME NEW k \in DOMAIN project'.journal, NEW i \in DOMAIN file'.log, project'.journal[k].id = i
      PROVE  project'.journal[k].kind = file'.log[i].kind
  <2>1. CASE Write /\ mem' = mem /\ project' = project
        BY <1>1, <1>4, <2>1, WriteGoes DEF Kinds
  <2>2. CASE file' = file /\ project'.journal = project.journal
        BY <1>4, <2>2 DEF Kinds
  <2>3. CASE ServerApplies
        BY <1>1, <1>2, <1>4, <2>3, LandsOne DEF Kinds, Goes, Grows
  <2>4. CASE TeammateRenames
        BY <1>1, <1>2, <1>4, <2>4, TeammateGoes DEF Kinds, Goes, Grows
  <2>   QED
        BY <2>1, <2>2, <2>3, <2>4, JournalGrows, FileWritten
<1>5. ASSUME NEW i \in DOMAIN file'.log \cap DOMAIN mem'.log
      PROVE  file'.log[i].kind = mem'.log[i].kind
  <2>1. CASE Write /\ mem' = mem /\ project' = project
        BY <1>1, <1>5, <2>1, WriteGoes
  <2>2. CASE file' = file
        BY <1>2, <1>5, <2>2, LogKinds DEF Kinds
  <2>   QED
        BY <2>1, <2>2, FileWritten
<1>6. Own \subseteq Own'
  <2>1. CASE project'.journal = project.journal
        BY <2>1 DEF Own
  <2>2. CASE \E row \in Rows : Goes(row)
        BY <2>2 DEF Goes, Grows
  <2>   QED
        BY <2>1, <2>2, JournalGrows
<1>7. mem'.flow.own \subseteq Own'
  <2>1. CASE mem'.flow.own = OwnRows /\ project' = project
    <3>1. OwnRows \subseteq Own
          BY <1>1, <1>2 DEF OwnRows, Own, RowsThere, Kinds
    <3>   QED
          BY <1>6, <2>1, <3>1
  <2>2. CASE mem'.flow.own = mem.flow.own \/ mem'.flow.own = {}
        BY <1>6, <2>2 DEF Kinds
  <2>   QED
        BY <2>1, <2>2, OwnStays
<1>8. ASSUME NEW n \in DOMAIN down', down'[n].type = "ack"
      PROVE  down'[n].row \in Own'
  <2>1. CASE \E m \in DOMAIN down : down'[n] = down[m]
        BY <1>6, <1>8, <2>1 DEF Kinds
  <2>2. CASE ServerApplies /\ down'[n].row = Len(project.journal) + 1
        BY <2>2, LandsOne DEF Goes, Grows
  <2>   QED
        BY <1>8, <2>1, <2>2, DownFrom
<1>9. 0 \notin mem'.known
      BY KnownOps
<1>   QED
      BY <1>3, <1>4, <1>5, <1>7, <1>8, <1>9 DEF Kinds

\* What goes up stays in order.
UpKeeps == \A n \in DOMAIN up : n \in DOMAIN up' /\ up'[n] = up[n]
UpTail == /\ \A n \in DOMAIN up' : n \in Nat \ {0} /\ n + 1 \in DOMAIN up /\ up'[n] = up[n + 1]
          /\ \A n \in DOMAIN up : n = 1 \/ (n - 1 \in DOMAIN up' /\ up'[n - 1] = up[n])
UpMore(p) == /\ UpKeeps /\ Len(up) + 1 \in DOMAIN up' /\ up'[Len(up) + 1] = p
             /\ \A n \in DOMAIN up' : n \in DOMAIN up \/ n = Len(up) + 1
             /\ \A n \in DOMAIN up : n \in Nat \ {0} /\ n < Len(up) + 1
             /\ Len(up) \in Nat

\* A packet that goes up is behind the others.
LEMMA UpAppends ==
    ASSUME Shaped, NEW p, up' = Append(up, p)
    PROVE  UpMore(p)
<1>1. up \in Seq(Requests)
      BY DEF Shaped
<1>   QED
      BY <1>1 DEF UpMore, UpKeeps

\* The first taken in, the others move up by one.
LEMMA UpHeadGone ==
    ASSUME Shaped, up # <<>>, up' = Tail(up)
    PROVE  UpTail /\ 1 \in DOMAIN up
<1>1. up \in Seq(Requests)
      BY DEF Shaped
<1>   QED
      BY <1>1 DEF UpTail
NotServed == ~ServerApplies /\ ~ServerTakesIn

\* What a step does to the packets: one is served, one goes up, all are lost, or none.
LEMMA UpSteps ==
    ASSUME CInv, [CatchUpNext]_cvars
    PROVE  \/ (ServerApplies \/ ServerTakesIn) /\ UpTail /\ 1 \in DOMAIN up
           \/ NotServed /\ Join /\ UpMore([type |-> "join", clock |-> mem.clock])
           \/ NotServed /\ ~Join /\ up' = up
           \/ NotServed /\ (Send \/ Resend) /\ \E i \in DOMAIN mem.log :
                 /\ UpMore([type |-> "op", id |-> i, clock |-> mem'.clock])
                 /\ Sends(i) /\ mem'.log[i].st \in OnWay
           \/ NotServed /\ (Drops \/ Crash) /\ up' = <<>>
<1>1. Shaped
      BY DEF CInv
<1>2. CASE ServerApplies \/ ServerTakesIn
      BY <1>1, <1>2, LandsOne, TakesJoin, UpHeadGone
<1>3. CASE Join
      BY <1>1, <1>2, <1>3, JoinGoes, UpAppends DEF NotServed
<1>   SUFFICES ASSUME ~Join
      PROVE  \/ up' = up
             \/ (Send \/ Resend) /\ \E i \in DOMAIN mem.log :
                   /\ UpMore([type |-> "op", id |-> i, clock |-> mem'.clock])
                   /\ Sends(i) /\ mem'.log[i].st \in OnWay
             \/ (Drops \/ Crash) /\ up' = <<>>
             \/ ServerApplies \/ ServerTakesIn
      BY <1>2, <1>3 DEF NotServed
<1>4. CASE Send \/ Resend
  <2>1. PICK i \in DOMAIN mem.log : Sends(i)
        BY <1>1, <1>4, SendsOne
  <2>   DEFINE p == [type |-> "op", id |-> i, clock |-> mem'.clock]
  <2>2. up' = up \/ (up' = Append(up, p) /\ mem'.log[i].st \in OnWay)
        BY <2>1 DEF Sends, OnWay
  <2>   HIDE DEF p
  <2>3. up' = up \/ (UpMore(p) /\ mem'.log[i].st \in OnWay)
        BY <1>1, <2>2, UpAppends
  <2>   QED
        BY <1>4, <2>1, <2>3 DEF p
<1>5. CASE UserRenames \/ UserChanges \/ Write \/ Answered \/ AnswerRecorded \/ Renamed \/ MoveLive
      BY <1>5 DEF UserRenames, UserChanges, Record, Write, Answered, AnswerRecorded, Renamed, MoveLive
<1>6. CASE \/ Connects \/ JoinAgain \/ StatusAnswered \/ SettleLanded \/ LandedLeaves \/ ListingRead
           \/ Refresh \/ JoinAnswered \/ Gather \/ ApplyRow \/ FlowEnds
      BY <1>6 DEF Connects, JoinAgain, StatusAnswered, SettleLanded, LandedLeaves, ListingRead,
         Refresh, JoinAnswered, Gather, ApplyRow, FlowEnds
<1>7. CASE ServerAnswersJoin \/ TeammateRenames
      BY <1>1, <1>7, AnswersJoin, TeammateGoes
<1>8. CASE Drops \/ Crash
      BY <1>1, <1>8, DropsGoes, CrashGoes DEF Disconnects
<1>9. CASE UNCHANGED cvars
      BY <1>9 DEF cvars
<1>   QED
      BY <1>3, <1>4, <1>5, <1>6, <1>7, <1>8, <1>9 DEF CatchUpNext

\* A join is the first of what goes up: so it stays, until the server takes it in.
JoinFirst == \A n \in JoinsUp : n = 1

\* It goes up with the clock of then, and nothing is served before it.
LEMMA JoinsUpStay ==
    ASSUME CInv, JoinFirst, [CatchUpNext]_cvars
    PROVE  /\ \A n \in JoinsUp' : (n \in JoinsUp /\ up'[n] = up[n]) \/ (Join /\ up'[n].clock = mem.clock)
           /\ JoinsUp # {} => \/ JoinsUp' # {} \/ ServerTakesIn \/ Drops \/ Crash
           /\ ServerTakesIn => JoinsUp' = {}
           /\ ServerApplies => JoinsUp = {}
<1>1. Shaped
      BY DEF CInv
<1>2. CASE UpTail /\ 1 \in DOMAIN up /\ (ServerApplies \/ ServerTakesIn)
  <2>1. JoinsUp' = {}
        BY <1>2 DEF UpTail, JoinsUp, JoinFirst
  <2>2. ServerApplies => JoinsUp = {}
        BY <1>1, LandsOne DEF JoinsUp, JoinFirst, Sent
  <2>   QED
        BY <1>2, <2>1, <2>2
<1>3. CASE up' = up /\ NotServed
      BY <1>3 DEF JoinsUp, NotServed
<1>4. ASSUME NEW i, UpMore([type |-> "op", id |-> i, clock |-> mem'.clock])
      PROVE  JoinsUp' = JoinsUp /\ \A n \in JoinsUp : up'[n] = up[n]
      BY <1>4 DEF UpMore, UpKeeps, JoinsUp
<1>5. CASE NotServed /\ Join /\ UpMore([type |-> "join", clock |-> mem.clock])
      BY <1>5 DEF UpMore, UpKeeps, JoinsUp, NotServed
<1>6. CASE NotServed /\ (Drops \/ Crash) /\ up' = <<>>
      BY <1>6 DEF JoinsUp, NotServed
<1>7. CASE NotServed /\ (Send \/ Resend) /\ \E i \in DOMAIN mem.log :
                 UpMore([type |-> "op", id |-> i, clock |-> mem'.clock])
      BY <1>4, <1>7 DEF NotServed
<1>   QED
      BY <1>2, <1>3, <1>5, <1>6, <1>7, UpSteps

\* What is on its way stays, until it is taken from the front.
LEMMA HeadTaken ==
    ASSUME CInv, [CatchUpNext]_cvars, NEW n \in DOMAIN down
    PROVE  \/ \E m \in DOMAIN down' : down'[m] = down[n]
           \/ n = 1 /\ Answered /\ down[n].type = "ack"
           \/ n = 1 /\ Renamed /\ down[n].type = "renamed"
           \/ n = 1 /\ JoinAnswered /\ down[n].type \in {"joined", "refused"}
           \/ Drops \/ Crash
<1>1. Shaped /\ down \in Seq(Answers)
      BY DEF CInv, Shaped
<1>2. ASSUME down # <<>>, down' = Tail(down)
      PROVE  down[1] = Head(down) /\ (n = 1 \/ \E m \in DOMAIN down' : down'[m] = down[n])
  <2>1. CASE n = 1
        BY <1>1, <2>1
  <2>2. CASE n # 1
    <3>1. n - 1 \in DOMAIN Tail(down) /\ Tail(down)[n - 1] = down[n]
          BY <1>1, <2>2
    <3>   QED
          BY <1>1, <1>2, <3>1
  <2>   QED
        BY <2>1, <2>2
<1>3. ASSUME NEW d, down' = Append(down, d)
      PROVE  n \in DOMAIN down' /\ down'[n] = down[n]
      BY <1>1, <1>3
<1>4. CASE Answered
      BY <1>2, <1>4 DEF Answered
<1>5. CASE Renamed
      BY <1>2, <1>5 DEF Renamed
<1>6. CASE JoinAnswered
      BY <1>2, <1>6 DEF JoinAnswered
<1>7. CASE ServerApplies \/ ServerAnswersJoin
      BY <1>1, <1>3, <1>7, LandsOne, AnswersJoin
<1>8. CASE TeammateRenames
  <2>1. down' = down \/ \E d : down' = Append(down, d)
        BY <1>1, <1>8, TeammateGoes
  <2>   QED
        BY <1>3, <2>1
<1>9. CASE UserRenames \/ UserChanges \/ Write \/ AnswerRecorded \/ Send \/ Resend \/ MoveLive
      BY <1>9 DEF UserRenames, UserChanges, Record, Write, AnswerRecorded, Send, Resend, MoveLive
<1>10. CASE \/ Connects \/ JoinAgain \/ StatusAnswered \/ SettleLanded \/ LandedLeaves \/ Join
            \/ ListingRead \/ Refresh \/ Gather \/ ApplyRow \/ FlowEnds \/ ServerTakesIn
      BY <1>10 DEF Connects, JoinAgain, StatusAnswered, SettleLanded, LandedLeaves, Join, ListingRead,
         Refresh, Gather, ApplyRow, FlowEnds, ServerTakesIn
<1>11. CASE UNCHANGED cvars
      BY <1>11 DEF cvars
<1>   QED
      BY <1>4, <1>5, <1>6, <1>7, <1>8, <1>9, <1>10, <1>11 DEF CatchUpNext

\* Where the flow goes.
FlowStep ==
    \/ /\ mem'.flow.step = mem.flow.step /\ mem'.flow.settled = mem.flow.settled
       /\ \/ Lists
          \/ ListingRead \/ Refresh
       /\ mem'.flow.join = mem.flow.join \/ JoinAnswered
    \/ Join
    \/ Gather /\ mem.flow.join = "refused" /\ mem'.flow.step = "again" /\ ~mem'.flow.settled
       /\ Lists /\ mem'.flow.join = mem.flow.join
    \/ /\ (Gather /\ mem.flow.step = "gather" /\ mem.flow.join = "joined" /\ mem'.flow.step = "rows")
             \/ (FlowEnds /\ mem.flow.step = "rows" /\ mem'.flow.step = "live")
       /\ mem'.flow.settled = mem.flow.settled /\ Lists /\ mem'.flow.join = mem.flow.join
       /\ mem.flow.listing = "done" \/ mem.flow.step = "rows"
    \/ /\ mem'.flow.step \in {"ask", "settle"}
       /\ Connects \/ JoinAgain \/ StatusAnswered \/ SettleLanded \/ LandedLeaves
    \/ (Drops \/ Crash) /\ Flowless

\* Those are the ways there are.
LEMMA FlowSteps == ASSUME CInv, [CatchUpNext]_cvars PROVE FlowStep
<1>1. Shaped
      BY DEF CInv
<1>2. ASSUME mem'.flow = mem.flow PROVE FlowStep
      BY <1>2 DEF FlowStep, Lists
<1>3. CASE Aside
      BY <1>2, <1>3, AsideRests
<1>4. CASE ServerNext \/ UNCHANGED cvars
      BY <1>1, <1>2, <1>4, LandsOne, TeammateGoes, TakesJoin, AnswersJoin DEF ServerNext, cvars
<1>5. CASE Connects \/ JoinAgain
      BY <1>1, <1>5, StartsOver DEF FlowStep
<1>6. CASE StatusAnswered \/ SettleLanded \/ LandedLeaves
      BY <1>1, <1>6, StatusGoes, SettlingLeaves DEF FlowStep
<1>7. CASE Join
      BY <1>7 DEF FlowStep
<1>8. CASE ListingRead
      BY <1>1, <1>8, ListingGoes DEF FlowStep, Gathers
<1>9. CASE Refresh
      BY <1>1, <1>9, RefreshGoes DEF FlowStep, Gathers
<1>10. CASE JoinAnswered
      BY <1>1, <1>10, JoinedGoes DEF FlowStep
<1>11. CASE Gather
      BY <1>1, <1>11, GatherGoes DEF FlowStep
<1>12. CASE ApplyRow
      BY <1>1, <1>12, ApplyGoes DEF FlowStep
<1>13. CASE FlowEnds
      BY <1>1, <1>13, EndsGoes DEF FlowStep, Gathers
<1>14. CASE Drops \/ Crash
      BY <1>1, <1>14, DropsGoes, CrashGoes DEF FlowStep
<1>   QED
      BY <1>3, <1>4, <1>5, <1>6, <1>7, <1>8, <1>9, <1>10, <1>11, <1>12, <1>13, <1>14
         DEF CatchUpNext, Aside, ServerNext

\* A refusal on its way gets known.
LEMMA RefusedStays ==
    ASSUME CInv, OneJoin, [CatchUpNext]_cvars, Joined, Joined', Refused
    PROVE  Refused'
<1>1. Shaped /\ down \in Seq(Answers)
      BY DEF CInv, Shaped
<1>2. CASE JoinAnswered
  <2>1. /\ 1 \in DOMAIN down /\ down[1] = Head(down) /\ down[1].type \in {"joined", "refused"}
        BY <1>1, <1>2 DEF JoinAnswered
  <2>2. 1 \in JoinsDown
        BY <2>1 DEF JoinsDown
  <2>3. mem.flow.join = "none" /\ \A n \in JoinsDown : n = 1
        BY <2>2 DEF OneJoin, JoinOut
  <2>4. down[1].type = "refused"
        BY <2>1, <2>3 DEF Refused, JoinsDown
  <2>   QED
        BY <1>1, <1>2, <2>1, <2>4, JoinedGoes DEF Refused
<1>3. CASE ~JoinAnswered
  <2>1. ~Drops /\ ~Crash
        BY <1>1, DropsGoes, CrashGoes DEF Joined, Flowless
  <2>2. ASSUME NEW n \in DOMAIN down, down[n].type = "refused"
        PROVE  \E m \in DOMAIN down' : down'[m].type = "refused"
        BY <1>3, <2>1, <2>2, HeadTaken
  <2>3. ASSUME mem.flow.join = "refused"
        PROVE  mem'.flow.join = "refused"
    <3>1. ~Join
          BY <1>1, JoinGoes DEF Joined
    <3>   QED
          BY <1>3, <2>1, <2>3, <3>1, FlowSteps DEF FlowStep, Joined
  <2>   QED
        BY <2>2, <2>3 DEF Refused
<1>   QED
      BY <1>2, <1>3

\* Nothing is being applied while the flow is on its way in.
LEMMA HandlersFirst ==
    ASSUME CInv, OneJoin, Quiet, Entering, [CatchUpNext]_cvars,
           mem'.flow.step \in {"ask", "settle"} \/ JoinsUp' # {}
    PROVE  mem'.handlers = <<>>
<1>1. Shaped /\ JoinFirst
      BY DEF CInv, Entering, JoinFirst
<1>2. CASE Connects \/ JoinAgain
      BY <1>1, <1>2, StartsOver
<1>3. CASE ~Connects /\ ~JoinAgain
  <2>1. mem.flow.step \in {"ask", "settle"} \/ JoinsUp # {} \/ Drops \/ Crash
    <3>1. ASSUME mem'.flow.step \in {"ask", "settle"}
          PROVE  mem.flow.step \in {"ask", "settle"}
      <4>1. CASE StatusAnswered \/ SettleLanded \/ LandedLeaves
            BY <1>1, <4>1, StatusGoes, SettlingLeaves
      <4>2. CASE ~(StatusAnswered \/ SettleLanded \/ LandedLeaves)
            BY <1>1, <1>3, <3>1, <4>2, FlowSteps, JoinGoes DEF FlowStep, Flowless
      <4>   QED
            BY <4>1, <4>2
    <3>2. ASSUME JoinsUp' # {}
          PROVE  JoinsUp # {} \/ Join
          BY <1>1, <3>2, JoinsUpStay
    <3>3. Join => mem.flow.step = "settle"
          BY <1>1, JoinGoes
    <3>   QED
          BY <3>1, <3>2, <3>3
  <2>2. CASE Drops \/ Crash
    <3>1. JoinsUp' = {} /\ mem'.flow.step = "off"
          BY <1>1, <2>2, DropsGoes, CrashGoes DEF Disconnects, Flowless, JoinsUp
    <3>   QED
          BY <3>1
  <2>3. CASE (mem.flow.step \in {"ask", "settle"} \/ JoinsUp # {}) /\ ~Drops /\ ~Crash
    <3>1. mem.handlers = <<>> /\ Mute
          BY <2>3 DEF Entering, Mute
    <3>2. \A n \in DOMAIN down : down[n].type # "renamed"
          BY <3>1 DEF Quiet, Silent
    <3>3. ~Renamed
      <4>1. Renamed => 1 \in DOMAIN down /\ down[1].type = "renamed"
            BY <1>1 DEF Renamed, Shaped
      <4>   QED
            BY <3>2, <4>1
    <3>4. ~MoveLive
          BY <3>1 DEF MoveLive
    <3>5. CASE DeviceNext
          BY <3>1, <3>3, <3>4, <3>5, HandlersStay
    <3>6. CASE ServerNext \/ UNCHANGED cvars
          BY <1>1, <3>1, <3>6, LandsOne, TeammateGoes, TakesJoin, AnswersJoin DEF ServerNext, cvars
    <3>   QED
          BY <2>3, <3>5, <3>6 DEF CatchUpNext, DeviceNext, ServerNext
  <2>   QED
        BY <2>1, <2>2, <2>3
<1>   QED
      BY <1>2, <1>3

\* The count of renames never falls, but by a crash.
LEMMA CountStays ==
    ASSUME CInv, [CatchUpNext]_cvars, ~Crash
    PROVE  /\ mem.count \in Nat /\ mem'.count \in Nat /\ mem.count <= mem'.count
           /\ mem'.count = mem.count \/ UserRenames
<1>1. Shaped /\ mem.count \in Nat
      BY MemNamed DEF CInv, Mems
<1>2. CASE DeviceNext
  <2>1. mem'.count = mem.count \/ UserRenames
    <3>1. CASE \/ UserChanges \/ Send \/ Resend \/ Answered \/ Renamed \/ MoveLive \/ Refresh \/ ApplyRow
               \/ AnswerRecorded
          BY <1>1, <3>1, UserChangesSame, SendsOne, AnsweredLeaves, RenamedGoes, MoveLiveGoes, RefreshGoes,
             ApplyGoes, AnswerRecordedAlso DEF Mems0
    <3>2. CASE SettleLanded \/ LandedLeaves \/ Connects \/ JoinAgain
          BY <1>1, <3>2, SettlingLeaves, StartsOver
    <3>3. CASE StatusAnswered \/ Join \/ ListingRead \/ JoinAnswered \/ Gather \/ FlowEnds
          BY <1>1, <3>3, StatusGoes, JoinGoes, ListingGoes, JoinedGoes, GatherGoes, EndsGoes DEF FlowGoes
    <3>4. CASE Write
          BY <3>4 DEF Write
    <3>   QED
          BY <1>2, <3>1, <3>2, <3>3, <3>4 DEF DeviceNext
  <2>   QED
        BY <1>2, <2>1, CountGrows
<1>3. CASE ServerNext \/ Drops \/ UNCHANGED cvars
      BY <1>1, <1>3, LandsOne, TeammateGoes, TakesJoin, AnswersJoin, DropsGoes DEF ServerNext, cvars
<1>   QED
      BY <1>2, <1>3 DEF CatchUpNext, DeviceNext, ServerNext

\* The connect flow's stages stay in order, and no handler runs before the device is in.
LEMMA EnteringStays ==
    ASSUME CInv, CInv', Plain, OneJoin, OneJoin', Quiet, Entering, [CatchUpNext]_cvars
    PROVE  Entering'
<1>1. Shaped /\ Stages /\ Stages' /\ JoinFirst /\ Shaped'
      BY DEF CInv, Entering, JoinFirst
<1>2. mem'.flow.step \in {"ask", "settle"} \/ JoinsUp' # {} => mem'.handlers = <<>>
      BY HandlersFirst
<1>3. \A n \in JoinsUp' : n = 1
  <2>1. CASE ~Join
        BY <1>1, <2>1, JoinsUpStay DEF JoinFirst
  <2>2. CASE Join
    <3>1. mem.flow.step = "settle" /\ up' = Append(up, [type |-> "join", clock |-> mem.clock])
          BY <1>1, <2>2, JoinGoes
    <3>2. JoinsUp = {}
          BY <3>1 DEF OneJoin, JoinOut
    <3>3. Sent = {}
          BY <3>1 DEF CInv, Carried, Plain, Sent
    <3>4. up \in Seq(Requests)
          BY <1>1 DEF Shaped
    <3>5. DOMAIN up = {}
          BY <3>2, <3>3, <3>4 DEF Sent, JoinsUp, Requests
    <3>6. Len(up) = 0
          BY <3>4, <3>5
    <3>   QED
          BY <3>1, <3>4, <3>6 DEF JoinsUp
  <2>   QED
        BY <2>1, <2>2
<1>4. ASSUME Joined' PROVE mem'.flow.settled /\ mem'.flow.listing # "none" /\ mem'.flow.renames <= mem'.count
  <2>1. CASE Join
    <3>1. mem'.count \in Nat
          BY <1>1 DEF Shaped, MemTypeOK, Mems
    <3>   QED
          BY <1>1, <2>1, <3>1, JoinGoes DEF FlowGoes
  <2>2. CASE ~Join
    <3>1. ~Drops /\ ~Crash
          BY <1>1, <1>4, DropsGoes, CrashGoes DEF Joined, Flowless
    <3>2. /\ Joined /\ mem'.flow.settled = mem.flow.settled
          /\ Lists \/ ListingRead \/ Refresh
          BY <1>4, <2>2, <3>1, FlowSteps DEF FlowStep, Joined
    <3>3. mem'.flow.listing # "none" /\ mem'.flow.renames = mem.flow.renames
          BY <1>1, <3>2, ListingGoes, RefreshGoes DEF Entering, Lists
    <3>4. mem.count <= mem'.count /\ mem.count \in Nat /\ mem'.count \in Nat /\ mem.flow.renames \in Nat
      <4>1. mem.flow \in Flows
            BY <1>1, MemNamed DEF Mems
      <4>   QED
            BY <3>1, <4>1, CountStays DEF Flows
    <3>   QED
          BY <3>2, <3>3, <3>4 DEF Entering
  <2>   QED
        BY <2>1, <2>2
<1>5. ASSUME Joined', ~Refused' PROVE project'.room \/ JoinsUp' # {}
  <2>1. CASE Join
    <3>1. UpMore([type |-> "join", clock |-> mem.clock])
          BY <1>1, <2>1, JoinGoes, UpAppends
    <3>   QED
          BY <3>1 DEF UpMore, JoinsUp
  <2>2. CASE ServerTakesIn
        BY <1>1, <2>2, TakesJoin
  <2>3. CASE ~Join /\ ~ServerTakesIn
    <3>1. ~Drops /\ ~Crash
          BY <1>1, <1>5, DropsGoes, CrashGoes DEF Joined, Flowless
    <3>2. Joined
          BY <1>5, <2>3, <3>1, FlowSteps DEF FlowStep, Joined
    <3>3. ~Refused
          BY <1>5, <3>2, RefusedStays
    <3>4. JoinsUp # {} => JoinsUp' # {}
          BY <1>1, <2>3, <3>1, JoinsUpStay
    <3>5. project.room => project'.room
      <4>1. CASE DeviceNext
            BY <4>1, DeviceSteps
      <4>2. CASE ServerApplies \/ TeammateRenames
            BY <1>1, <4>2, LandsOne, TeammateGoes DEF Goes
      <4>3. CASE ServerAnswersJoin
        <5>1. PICK d \in Answers :
                 /\ down' = Append(down, d)
                 /\ \/ d.type = "joined" /\ project'.room = project.room
                    \/ d.type = "refused" /\ ~project'.room
              BY <1>1, <4>3, AnswersJoin
        <5>2. d.type # "refused"
          <6>1. down \in Seq(Answers)
                BY <1>1 DEF Shaped
          <6>2. Len(down) + 1 \in DOMAIN down' /\ down'[Len(down) + 1] = d
                BY <5>1, <6>1
          <6>   QED
                BY <1>5, <6>2 DEF Refused
        <5>   QED
              BY <5>1, <5>2
      <4>4. CASE UNCHANGED cvars
            BY <4>4 DEF cvars
      <4>   QED
            BY <2>3, <3>1, <4>1, <4>2, <4>3, <4>4 DEF CatchUpNext, DeviceNext
    <3>   QED
          BY <3>2, <3>3, <3>4, <3>5 DEF Entering
  <2>   QED
        BY <2>1, <2>2, <2>3
<1>6. ASSUME mem'.flow.step \in {"rows", "live"} PROVE mem'.flow.join = "joined" /\ mem'.flow.listing = "done"
  <2>1. ~Join /\ ~Drops /\ ~Crash
        BY <1>1, <1>6, JoinGoes, DropsGoes, CrashGoes DEF Flowless
  <2>2. CASE mem.flow.step \in {"rows", "live"}
    <3>1. ~JoinAnswered
      <4>1. JoinAnswered => JoinsDown # {}
            BY <1>1 DEF JoinAnswered, JoinsDown, Shaped
      <4>   QED
            BY <2>2, <4>1 DEF OneJoin, JoinOut
    <3>2. ~ListingRead /\ ~Refresh
          BY <1>1, <2>2 DEF ListingRead, Refresh, Stages
    <3>   QED
          BY <1>6, <2>1, <2>2, <3>1, <3>2, FlowSteps DEF FlowStep, Entering, Lists
  <2>3. CASE mem.flow.step \notin {"rows", "live"}
    <3>1. Gather /\ mem.flow.join = "joined"
          BY <1>6, <2>1, <2>3, FlowSteps DEF FlowStep
    <3>   QED
          BY <1>1, <3>1, GatherGoes DEF Lists
  <2>   QED
        BY <2>2, <2>3
<1>   QED
      BY <1>2, <1>3, <1>4, <1>5, <1>6 DEF Entering

\* The server's name changes with its renames.
NameFollows(row) ==
    /\ Goes(row) /\ row.from = project.at
    /\ project'.at = (IF row.kind = "rename" THEN row.to ELSE project.at)

\* A row that is new takes the file from the server's name.
LEMMA JournalNames ==
    ASSUME CInv, [CatchUpNext]_cvars
    PROVE  \/ project'.journal = project.journal /\ project'.at = project.at
           \/ /\ ServerApplies \/ TeammateRenames
              /\ mem' = mem /\ \E row \in Rows : NameFollows(row)
<1>1. Shaped
      BY DEF CInv
<1>2. CASE DeviceNext
      BY <1>2, DeviceSteps
<1>3. CASE ServerApplies
  <2>1. PICK row \in Rows : /\ Goes(row) /\ row.kind = mem.log[Head(up).id].kind
                            /\ row.from = project.at /\ row.to = mem.log[Head(up).id].to
        BY <1>3, LandsOne
  <2>2. NameFollows(row)
        BY <1>3, <2>1, LandsOne DEF NameFollows
  <2>   QED
        BY <1>3, <2>2, LandsOne
<1>4. CASE TeammateRenames
      BY <1>1, <1>4, TeammateGoes DEF NameFollows
<1>5. CASE ServerTakesIn \/ ServerAnswersJoin
      BY <1>1, <1>5, TakesJoin, AnswersJoin
<1>6. CASE Drops \/ Crash
      BY <1>1, <1>6, DropsGoes, CrashGoes DEF Disconnects
<1>7. CASE UNCHANGED cvars
      BY <1>7 DEF cvars
<1>   QED
      BY <1>2, <1>3, <1>4, <1>5, <1>6, <1>7 DEF CatchUpNext, DeviceNext

\* The places of the journal.
LEMMA Places ==
    ASSUME Shaped
    PROVE  /\ Len(project.journal) \in Nat /\ DOMAIN project.journal = 1..Len(project.journal)
           /\ \A k \in DOMAIN project.journal : k \in Nat /\ k <= Len(project.journal)
<1>1. project.journal \in Seq(Rows)
      BY DEF Shaped, ProjectTypeOK
<1>   QED
      BY <1>1

\* The server's name stays where its last rename took the file.
LEMMA NamedStays ==
    ASSUME CInv, Named, [CatchUpNext]_cvars
    PROVE  Named'
<1>1. CASE project'.journal = project.journal /\ project'.at = project.at
      BY <1>1 DEF Named, Latest, RenameRows
<1>2. ASSUME NEW row \in Rows, NameFollows(row)
      PROVE  Named'
  <2>1. Shaped /\ Goes(row) /\ Grows(row)
        BY <1>2 DEF NameFollows, Goes, CInv
  <2>   DEFINE new == Len(project.journal) + 1
  <2>2. /\ new \in DOMAIN project'.journal /\ project'.journal[new] = row
        /\ \A k \in DOMAIN project.journal : k \in DOMAIN project'.journal /\ project'.journal[k] = project.journal[k]
        /\ \A k \in DOMAIN project'.journal : k \in DOMAIN project.journal \/ k = new
        BY <2>1 DEF Grows
  <2>3. \A k \in DOMAIN project.journal : k \in Nat /\ ~(new <= k)
        BY <2>1, Places
  <2>   HIDE DEF new
  <2>4. CASE row.kind = "rename"
    <3>1. new \in RenameRows' /\ project'.at = row.to
          BY <1>2, <2>2, <2>4 DEF RenameRows, NameFollows
    <3>2. \A k \in RenameRows' : Latest(k)' => k = new
          BY <2>2, <2>3, <3>1 DEF Latest, RenameRows
    <3>   QED
          BY <2>2, <3>1, <3>2 DEF Named
  <2>5. CASE row.kind # "rename"
    <3>1. RenameRows' = RenameRows /\ project'.at = project.at
          BY <1>2, <2>2, <2>5 DEF RenameRows, NameFollows
    <3>2. \A k \in RenameRows : project'.journal[k] = project.journal[k]
          BY <2>2 DEF RenameRows
    <3>   QED
          BY <3>1, <3>2 DEF Named, Latest
  <2>   QED
        BY <2>4, <2>5
<1>   QED
      BY <1>1, <1>2, JournalNames

\* The listing that was read is kept.
LEMMA ListingStays ==
    ASSUME CInv, [CatchUpNext]_cvars, mem'.flow.listing \in {"read", "done"}
    PROVE  \/ ListingRead /\ mem'.flow.listing = "read"
           \/ /\ mem.flow.listing \in {"read", "done"} /\ mem'.flow.read = mem.flow.read
              /\ mem'.flow.listed = mem.flow.listed /\ mem'.flow.renames = mem.flow.renames
              /\ \/ mem'.flow.listing = mem.flow.listing /\ mem'.flow.here = mem.flow.here
                 \/ Refresh /\ mem.flow.listing = "read" /\ mem'.flow.listing = "done"
<1>1. Shaped
      BY DEF CInv
<1>2. ~Join /\ ~Connects /\ ~JoinAgain /\ ~Drops /\ ~Crash
      BY <1>1, JoinGoes, StartsOver, DropsGoes, CrashGoes DEF Flowless
<1>3. CASE Lists
      BY <1>3 DEF Lists
<1>4. CASE ListingRead
      BY <1>1, <1>4, ListingGoes
<1>5. CASE Refresh
      BY <1>1, <1>5, RefreshGoes
<1>6. CASE StatusAnswered \/ SettleLanded \/ LandedLeaves
      BY <1>1, <1>3, <1>6, AsksLeave
<1>   QED
      BY <1>2, <1>3, <1>4, <1>5, <1>6, FlowSteps DEF FlowStep

\* The listing stays a name of the server's, and the first rename after it starts there.
LEMMA ListedNameStays ==
    ASSUME CInv, ListedName, [CatchUpNext]_cvars
    PROVE  ListedName'
<1>1. Shaped
      BY DEF CInv
<1>   SUFFICES ASSUME mem'.flow.listing \in {"read", "done"}
      PROVE  /\ mem'.flow.read <= Len(project'.journal)
             /\ (\A k \in RenameRows' : k <= mem'.flow.read) => project'.at = mem'.flow.listed
             /\ \A f \in RenameRows' :
                   f > mem'.flow.read /\ (\A j \in RenameRows' : j > mem'.flow.read => f <= j)
                      => project'.journal[f].from = mem'.flow.listed
      BY DEF ListedName
<1>2. CASE ListingRead
  <2>1. mem'.flow.read = Len(project.journal) /\ mem'.flow.listed = project.at /\ project' = project
        BY <1>1, <1>2, ListingGoes
  <2>2. \A f \in RenameRows : ~(f > Len(project.journal))
        BY <1>1, Places DEF RenameRows
  <2>   QED
        BY <1>1, <2>1, <2>2, Places DEF RenameRows
<1>3. CASE ~ListingRead
  <2>1. /\ mem.flow.listing \in {"read", "done"} /\ mem'.flow.read = mem.flow.read
        /\ mem'.flow.listed = mem.flow.listed
        BY <1>3, ListingStays
  <2>2. CASE project'.journal = project.journal /\ project'.at = project.at
        BY <2>1, <2>2 DEF ListedName, RenameRows
  <2>3. ASSUME NEW row \in Rows, NameFollows(row)
        PROVE  /\ mem'.flow.read <= Len(project'.journal)
               /\ (\A k \in RenameRows' : k <= mem'.flow.read) => project'.at = mem'.flow.listed
               /\ \A f \in RenameRows' :
                     f > mem'.flow.read /\ (\A j \in RenameRows' : j > mem'.flow.read => f <= j)
                        => project'.journal[f].from = mem'.flow.listed
    <3>1. Grows(row) /\ project'.journal = Append(project.journal, row)
          BY <2>3 DEF NameFollows, Goes
    <3>   DEFINE new == Len(project.journal) + 1
                 read == mem.flow.read
    <3>2. /\ new \in DOMAIN project'.journal /\ project'.journal[new] = row
          /\ \A k \in DOMAIN project.journal : k \in DOMAIN project'.journal /\ project'.journal[k] = project.journal[k]
          /\ \A k \in DOMAIN project'.journal : k \in DOMAIN project.journal \/ k = new
          BY <3>1 DEF Grows
    <3>3. \A k \in DOMAIN project.journal : k \in Nat /\ k < new
          BY <1>1, Places
    <3>4. read \in Nat /\ read <= Len(project.journal) /\ new \in Nat /\ read < new
      <4>1. mem.flow \in Flows
            BY <1>1, MemNamed DEF Mems
      <4>   QED
            BY <1>1, <2>1, <4>1, Places DEF Flows, ListedName
    <3>5. Len(project'.journal) = new
      <4>1. project.journal \in Seq(Rows)
            BY <1>1 DEF Shaped, ProjectTypeOK
      <4>   QED
            BY <3>1, <4>1
    <3>6. read <= Len(project'.journal)
          BY <1>1, <3>4, <3>5, Places
    <3>   HIDE DEF new
    <3>7. CASE row.kind = "rename"
      <4>1. new \in RenameRows' /\ ~(new <= read) /\ RenameRows' = RenameRows \cup {new}
            BY <3>2, <3>4, <3>7 DEF RenameRows
      <4>2. ASSUME NEW f \in RenameRows', f > read, \A j \in RenameRows' : j > read => f <= j
            PROVE  project'.journal[f].from = mem.flow.listed
        <5>1. CASE f = new
          <6>1. \A k \in RenameRows : k <= read
                BY <3>3, <3>4, <4>1, <4>2, <5>1 DEF RenameRows
          <6>2. row.from = mem.flow.listed
                BY <2>1, <2>3, <6>1 DEF ListedName, NameFollows
          <6>   QED
                BY <3>2, <5>1, <6>2
        <5>2. CASE f \in RenameRows
              BY <2>1, <3>2, <4>1, <4>2, <5>2 DEF ListedName, RenameRows
        <5>   QED
              BY <4>1, <5>1, <5>2
      <4>   QED
            BY <2>1, <3>6, <4>1, <4>2
    <3>8. CASE row.kind # "rename"
      <4>1. RenameRows' = RenameRows /\ project'.at = project.at
            BY <2>3, <3>2, <3>8 DEF RenameRows, NameFollows
      <4>2. \A k \in RenameRows : project'.journal[k] = project.journal[k]
            BY <3>2 DEF RenameRows
      <4>   QED
            BY <2>1, <3>6, <4>1, <4>2 DEF ListedName
    <3>   QED
          BY <3>7, <3>8
  <2>   QED
        BY <2>2, <2>3, JournalNames
<1>   QED
      BY <1>2, <1>3


-----------------------------------------------------------------------------
(* The renames in the log, out and landing in turn.                        *)

\* The steps that leave the renames as they are.
LEMMA RenamesStep ==
    ASSUME CInv, Plain, [CatchUpNext]_cvars
    PROVE  \/ SameRenames
           \/ UserRenames \/ Send \/ Resend \/ Answered \/ SettleLanded \/ LandedLeaves
           \/ Refresh \/ Drops \/ Crash
<1>1. Shaped
      BY DEF CInv
<1>2. CASE UserChanges \/ AnswerRecorded
      BY <1>1, <1>2, UserChangesSame, RecordedSame
<1>3. CASE \/ Write \/ Renamed \/ MoveLive \/ Connects \/ JoinAgain \/ StatusAnswered \/ Join \/ ListingRead
           \/ JoinAnswered \/ Gather \/ ApplyRow \/ FlowEnds
      BY <1>1, <1>3, SameLog, RenamedGoes, MoveLiveGoes, StartsOver, StatusGoes, JoinGoes, ListingGoes,
         JoinedGoes, GatherGoes, ApplyGoes, EndsGoes DEF Write, FlowGoes
<1>4. CASE ServerNext
      BY <1>1, <1>4, SameLog, LandsOne, TakesJoin, AnswersJoin, TeammateGoes DEF ServerNext
<1>5. CASE UNCHANGED cvars
      BY <1>5, SameLog DEF cvars
<1>   QED
      BY <1>2, <1>3, <1>4, <1>5 DEF CatchUpNext, ServerNext

\* What an answer or a settling takes out of the log has landed, and before what stays.
TakesOut(x) == x \in Renames(mem) /\ LeaveLog({x}) /\ Landed(x) /\ \A j \in Renames(mem) \ {x} : x < j

\* An answer leaves the renames, or takes one out so; a settling too.
LEMMA LeavesInTurn ==
    ASSUME CInv, Plain, LandInTurn(mem.log), AckComing, InLine,
           Answered \/ SettleLanded \/ LandedLeaves
    PROVE  /\ Outside /\ UNCHANGED up
           /\ SameRenames \/ \E x : TakesOut(x)
<1>1. Shaped /\ InLog(mem.log) = Renames(mem) /\ Renames(mem) \subseteq Nat
      BY OpTyped DEF CInv
<1>2. CASE Answered
  <2>   DEFINE k == Head(down).row
               x == project.journal[k].id
  <2>1. /\ Outside /\ UNCHANGED up /\ down # <<>> /\ Head(down).type = "ack" /\ k \in DOMAIN project.journal
        /\ LeaveLog({x})
        BY <1>2, AnsweredLeaves
  <2>2. 1 \in DOMAIN down /\ down[1] = Head(down) /\ \A n \in DOMAIN down : n # 1 => 1 < n
        BY <1>1, <2>1 DEF Shaped
  <2>3. Landed(x) /\ RowIs(k, x)
        BY <2>1 DEF Landed, RowIs
  <2>4. ASSUME x \in Renames(mem), NEW j \in Renames(mem) \ {x}, ~(x < j)
        PROVE  FALSE
    <3>   HIDE DEF x
    <3>1. j < x
          BY <1>1, <2>4
    <3>2. PICK h \in DOMAIN project.journal : RowIs(h, j) /\ h < k
          BY <1>1, <2>1, <2>3, <2>4, <3>1 DEF LandInTurn
    <3>   HIDE DEF k
    <3>3. AckFor(x)
          BY <2>1, <2>2, <2>3 DEF AckFor, k
    <3>4. mem.flow.step \notin {"off", "ask", "settle"}
          BY <2>1, <2>4, <3>3 DEF CInv, Disconnected, AckComing
    <3>5. Joined \/ mem.flow.step = "again"
      <4>1. mem.flow \in Flows
            BY <1>1, MemNamed DEF Mems
      <4>   QED
            BY <3>4, <4>1 DEF Flows, Joined
    <3>6. Landed(j)
          BY <3>2 DEF Landed, RowIs
    <3>7. PICK n \in DOMAIN down : down[n].type = "ack" /\ RowIs(down[n].row, j)
          BY <2>4, <3>5, <3>6 DEF AckComing, AckFor
    <3>8. down[n].row = h
      <4>1. j # 0
            BY <1>1, <2>4, OpTyped
      <4>   QED
            BY <3>2, <3>7, <4>1 DEF CInv, Once, Own, RowIs
    <3>9. n # 1 /\ k < h
      <4>1. k \in Nat /\ h \in Nat
            BY <1>1, <2>1, <3>2, Places DEF k
      <4>2. n # 1
            BY <2>2, <3>2, <3>8, <4>1 DEF k
      <4>   QED
            BY <2>1, <2>2, <3>7, <3>8, <4>2 DEF InLine, Numbered, k
    <3>   QED
      <4>1. k \in Nat /\ h \in Nat
            BY <1>1, <2>1, <3>2, Places DEF k
      <4>   QED
            BY <3>2, <3>9, <4>1
  <2>5. CASE x \in Renames(mem)
    <3>   HIDE DEF x
    <3>1. \A j \in Renames(mem) \ {x} : x < j
          BY <2>4, <2>5
    <3>   QED
          BY <2>1, <2>3, <2>5, <3>1 DEF TakesOut
  <2>6. CASE x \notin Renames(mem)
        BY <2>1, <2>6 DEF LeaveLog, SameRenames
  <2>   QED
        BY <2>1, <2>5, <2>6
<1>3. CASE SettleLanded \/ LandedLeaves
  <2>   DEFINE x == Earliest(mem.flow.asked)
  <2>1. /\ Outside /\ UNCHANGED up /\ mem.flow.step = "settle" /\ mem.flow.asked # {}
        /\ SameRenames \/ LeaveLog({x})
        BY <1>3, SettlingLeaves
  <2>2. x \in mem.flow.asked /\ (\A j \in mem.flow.asked : x <= j) /\ mem.flow.asked \subseteq Nat
    <3>1. mem.flow \in Flows
          BY <1>1, MemNamed DEF Mems
    <3>2. mem.flow.asked \in SUBSET Nat
          BY <3>1 DEF Flows
    <3>   QED
          BY <2>1, <3>2, LeastExists
  <2>3. Landed(x)
        BY <2>1, <2>2 DEF CInv, Stages
  <2>   HIDE DEF x
  <2>4. ASSUME x \in Renames(mem), NEW j \in Renames(mem) \ {x}, ~(x < j)
        PROVE  FALSE
    <3>1. j < x
          BY <1>1, <2>4
    <3>2. Landed(j)
          BY <1>1, <2>3, <2>4, <3>1 DEF LandInTurn, Landed, RowIs
    <3>3. j \in DOMAIN mem.log /\ mem.log[j].kind = "rename"
          BY <2>4 DEF Renames
    <3>4. mem.log[j].st = "queued"
          BY <2>1, <3>3 DEF Plain
    <3>5. j \in mem.flow.asked
          BY <2>1, <3>2, <3>3, <3>4 DEF CInv, Unsent
    <3>   QED
          BY <1>1, <2>2, <2>4, <3>1, <3>5
  <2>5. CASE x \in Renames(mem)
        BY <2>1, <2>3, <2>4, <2>5 DEF TakesOut
  <2>6. CASE x \notin Renames(mem)
        BY <2>1, <2>6 DEF LeaveLog, SameRenames
  <2>   QED
        BY <2>1, <2>5, <2>6
<1>   QED
      BY <1>2, <1>3

\* The renames are some of those before, in the states they were in; or one is new, or sent;
\* or none is out.
FewerNow == \A i \in Renames(mem') : i \in Renames(mem) /\ mem'.log[i].st = mem.log[i].st

\* So is each step.
LEMMA RenamesSteps ==
    ASSUME CInv, Noted, Plain, LandInTurn(mem.log), AckComing, InLine, [CatchUpNext]_cvars
    PROVE  \/ FewerNow /\ (SameRenames \/ Refresh \/ \E x : TakesOut(x))
           \/ UserRenames \/ Send \/ Resend
           \/ (Drops \/ Crash) /\ \A i \in Renames(mem') : mem'.log[i].st \notin OnWay
<1>1. Shaped
      BY DEF CInv
<1>2. CASE SameRenames
      BY <1>2 DEF SameRenames, FewerNow
<1>3. CASE Answered \/ SettleLanded \/ LandedLeaves
  <2>1. SameRenames \/ \E x : TakesOut(x)
        BY <1>3, LeavesInTurn
  <2>2. ASSUME NEW x, TakesOut(x) PROVE FewerNow
        BY <2>2 DEF TakesOut, LeaveLog, FewerNow
  <2>   QED
        BY <1>2, <2>1, <2>2
<1>4. CASE Refresh
  <2>1. mem'.log = Collapsed(mem.log) /\ mem.log \in Logs(made) /\ made \in Nat
        BY <1>1, <1>4, RefreshGoes, MemNamed
  <2>2. /\ Fewer(Collapsed(mem.log), mem.log)
        /\ \A i \in DOMAIN Collapsed(mem.log) : Collapsed(mem.log)[i].kind = mem.log[i].kind
        BY <2>1, CollapsedNamed, CollapsedKinds
  <2>3. FewerNow
        BY <2>1, <2>2 DEF Fewer, FewerNow, Renames
  <2>   QED
        BY <1>4, <2>3
<1>5. CASE Drops
  <2>1. \A i \in DOMAIN mem'.log : mem'.log[i].st \notin OnWay
        BY <1>1, <1>5, DropsGoes DEF Fields, OnWay
  <2>   QED
        BY <1>5, <2>1 DEF Renames
<1>6. CASE Crash
  <2>1. \A i \in DOMAIN mem'.log : mem'.log[i].st \notin OnWay
        BY <1>1, <1>6, CrashGoes DEF Noted, OnWay
  <2>   QED
        BY <1>6, <2>1 DEF Renames
<1>   QED
      BY <1>2, <1>3, <1>4, <1>5, <1>6, RenamesStep

\* One that is new is the last, and not out; once live, it is the only one not sent.
LEMMA NewIsLast ==
    ASSUME CInv, UserRenames
    PROVE  LET new == made + 1
           IN /\ new \in Renames(mem') /\ mem'.log[new].st \notin OnWay /\ ~Landed(new)
              /\ \A i \in Renames(mem') : i = new \/ (/\ i \in Renames(mem) /\ mem'.log[i] = mem.log[i]
                                                      /\ i < new)
              /\ \A i \in Renames(mem) : i # new /\ ~(new <= i)
              /\ \A i \in Renames(mem) : i \in Renames(mem') \/ (CanSendLive /\ mem.log[i].st = "queued")
              /\ CanSendLive => /\ mem'.log[new].st = "writing"
                                /\ \A i \in Renames(mem') : i # new => mem.log[i].st # "queued"
              /\ ~CanSendLive => mem'.log[new].st = "queued"
<1>   DEFINE new == made + 1
             drops == IF CanSendLive THEN QueuedMoves ELSE {}
<1>1. Shaped /\ Adds
      BY UserRenamesAdds DEF CInv
<1>2. /\ Renames(mem') = (Renames(mem) \ drops) \cup {new} /\ new \notin DOMAIN mem.log
      /\ \A i \in Renames(mem) \ drops : mem'.log[i] = mem.log[i]
      /\ mem'.log[new].st = IF CanSendLive THEN "writing" ELSE "queued"
      BY <1>1 DEF Adds, QueuedOp
<1>3. /\ \A i \in Renames(mem) : i \in Nat /\ i < new
      /\ made \in Nat
      BY <1>1, OpTyped
<1>4. ~Landed(new)
      BY <1>1, <1>3, ClockNamed DEF CInv, RowsThere, Landed
<1>5. \A i \in Renames(mem) : i \in drops <=> CanSendLive /\ mem.log[i].st = "queued"
      BY DEF QueuedMoves, Ids, Renames
<1>   HIDE DEF new, drops
<1>6. \A i \in Renames(mem) : i # new /\ ~(new <= i)
      BY <1>3 DEF new
<1>7. \A i \in Renames(mem') : i = new \/ (/\ i \in Renames(mem) /\ mem'.log[i] = mem.log[i]
                                           /\ i < new)
      BY <1>2, <1>3
<1>8. \A i \in Renames(mem) : i \in Renames(mem') \/ (CanSendLive /\ mem.log[i].st = "queued")
      BY <1>2, <1>5
<1>9. CanSendLive => \A i \in Renames(mem') : i # new => mem.log[i].st # "queued"
      BY <1>2, <1>5
<1>10. new \in Renames(mem')
      BY <1>2
<1>   QED
      BY <1>2, <1>4, <1>6, <1>7, <1>8, <1>9, <1>10 DEF new, OnWay

\* What the flow says is settled was so before, unless it joins.
LEMMA SettledStays ==
    ASSUME CInv, CInv', [CatchUpNext]_cvars, mem'.flow.settled
    PROVE  mem.flow.settled \/ Join
<1>1. Stages' /\ Shaped /\ Shaped'
      BY DEF CInv
<1>2. mem'.flow.step \notin {"ask", "settle"} /\ ~(Drops \/ Crash)
      BY <1>1, DropsGoes, CrashGoes DEF Stages, Flowless
<1>   QED
      BY <1>2, FlowSteps DEF FlowStep

\* A rename that goes out finds every earlier one out, and none queued but what goes out again.
LEMMA InTurnStays ==
    ASSUME CInv, CInv', Noted, Plain, Entering, Turns, AckComing, InLine, [CatchUpNext]_cvars
    PROVE  InTurn' /\ Exclusive'
<1>1. Shaped /\ InTurn /\ Exclusive /\ LandInTurn(mem.log) /\ Renames(mem) \subseteq Nat
      BY OpTyped DEF CInv, Turns
<1>2. CASE FewerNow
  <2>1. InTurn'
        BY <1>1, <1>2 DEF InTurn, FewerNow
  <2>2. CASE mem.flow.settled
        BY <1>1, <1>2, <2>1, <2>2 DEF Exclusive, FewerNow
  <2>3. CASE ~mem.flow.settled /\ mem'.flow.settled
    <3>1. Join
          BY <2>3, SettledStays
    <3>2. mem.flow.step = "settle"
          BY <1>1, <3>1, JoinGoes
    <3>3. \A i \in Renames(mem) : mem.log[i].st = "queued"
          BY <3>2 DEF Plain, Renames
    <3>   QED
          BY <1>2, <2>1, <3>3 DEF FewerNow, Exclusive
  <2>   QED
        BY <2>1, <2>2, <2>3 DEF Exclusive
<1>3. CASE UserRenames
  <2>   DEFINE new == made + 1
  <2>1. /\ new \in Renames(mem') /\ mem'.log[new].st \notin OnWay
        /\ \A i \in Renames(mem') : i = new \/ (/\ i \in Renames(mem) /\ mem'.log[i] = mem.log[i] /\ i < new)
        /\ \A i \in Renames(mem) : i # new /\ ~(new <= i)
        /\ CanSendLive => /\ mem'.log[new].st = "writing"
                          /\ \A i \in Renames(mem') : i # new => mem.log[i].st # "queued"
        BY <1>3, NewIsLast
  <2>2. new \in Nat
        BY <1>1, MemNamed
  <2>3. mem'.flow = mem.flow
        BY <1>1, <1>3, UserRenamesAdds DEF Adds
  <2>   HIDE DEF new
  <2>4. InTurn'
    <3>   SUFFICES ASSUME NEW i \in Renames(mem'), NEW j \in Renames(mem'), i < j, mem'.log[j].st \in OnWay
          PROVE  mem'.log[i].st \in OnWay
          BY DEF InTurn
    <3>1. j # new /\ j \in Renames(mem) /\ j < new
          BY <2>1
    <3>2. i # new
          BY <1>1, <2>2, <3>1
    <3>   QED
          BY <1>1, <2>1, <3>1, <3>2 DEF InTurn
  <2>5. mem.flow.settled => CanSendLive
    <3>1. mem.flow.settled => mem.flow.step \in {"gather", "rows", "live"}
          BY DEF CInv, Stages
    <3>   QED
          BY <3>1 DEF CanSendLive
  <2>6. Exclusive'
        BY <2>1, <2>3, <2>5 DEF Exclusive
  <2>   QED
        BY <2>4, <2>6
<1>4. CASE Send \/ Resend
  <2>1. Fields /\ mem'.flow = mem.flow /\ \E x \in DOMAIN mem.log : Sends(x)
        BY <1>1, <1>4, SendsOne DEF Mems0
  <2>2. PICK x \in DOMAIN mem.log : Sends(x)
        BY <2>1
  <2>3. Renames(mem') = Renames(mem)
        BY <2>1 DEF Fields, Renames
  <2>4. \A j \in Renames(mem) : j # x => mem'.log[j].st = mem.log[j].st
        BY <2>2 DEF Sends, Renames
  <2>5. \A j \in Renames(mem) : mem.log[j].st \in {"queued", "writing", "sent", "resent"}
    <3>1. \A j \in DOMAIN mem.log : mem.log[j] \in QueuedOps
          BY <1>1, OpTyped
    <3>   QED
          BY <3>1 DEF Plain, Renames, QueuedOps
  <2>6. mem.flow.step = "live" => mem.flow.settled
        BY DEF Entering, Joined
  <2>7. \A j \in Renames(mem) : x <= j => ~(j < x)
        BY <1>1, <2>2, OpTyped
  <2>8. CASE mem.log[x].st = "writing" /\ CanSendLive /\ mem'.log[x].st = "sent"
    <3>1. \A j \in Ids(mem, {"writing"}) : x <= j
          BY <2>2, <2>8 DEF Sends
    <3>2. \A j \in Renames(mem) : j < x /\ x \in Renames(mem) => mem.log[j].st \in OnWay
          BY <1>1, <2>5, <2>7, <2>8, <3>1 DEF Exclusive, CanSendLive, OnWay, Ids, Renames
    <3>3. InTurn'
          BY <1>1, <2>3, <2>4, <2>8, <3>2 DEF InTurn, OnWay
    <3>4. Exclusive'
          BY <1>1, <2>1, <2>3, <2>4, <2>8 DEF Exclusive, CanSendLive
    <3>   QED
          BY <3>3, <3>4
  <2>9. CASE mem.log[x].st = "writing" /\ ~CanSendLive /\ mem'.log[x].st = "queued"
    <3>1. InTurn'
          BY <1>1, <2>3, <2>4, <2>9 DEF InTurn, OnWay
    <3>2. ~mem.flow.settled
      <4>1. mem.flow.settled => mem.flow.step \in {"gather", "rows", "live"}
            BY DEF CInv, Stages
      <4>   QED
            BY <2>9, <4>1 DEF CanSendLive
    <3>   QED
          BY <2>1, <3>1, <3>2 DEF Exclusive
  <2>10. CASE mem.log[x].st = "queued" /\ mem.flow.step = "live" /\ mem'.log[x].st = "resent"
    <3>1. \A j \in Ids(mem, {"queued"}) : x <= j
          BY <2>2, <2>10 DEF Sends
    <3>2. \A j \in Renames(mem) : j < x /\ x \in Renames(mem) => mem.log[j].st \in OnWay
          BY <1>1, <2>5, <2>6, <2>7, <2>10, <3>1 DEF Exclusive, OnWay, Ids, Renames
    <3>3. InTurn'
          BY <1>1, <2>3, <2>4, <2>10, <3>2 DEF InTurn, OnWay
    <3>4. Exclusive'
          BY <1>1, <2>1, <2>3, <2>4, <2>10 DEF Exclusive
    <3>   QED
          BY <3>3, <3>4
  <2>   QED
        BY <2>2, <2>8, <2>9, <2>10 DEF Sends
<1>5. CASE (Drops \/ Crash) /\ \A i \in Renames(mem') : mem'.log[i].st \notin OnWay
  <2>1. ~mem'.flow.settled
        BY <1>1, <1>5, DropsGoes, CrashGoes DEF Flowless
  <2>   QED
        BY <1>5, <2>1 DEF InTurn, Exclusive
<1>   QED
      BY <1>1, <1>2, <1>3, <1>4, <1>5, RenamesSteps

\* What is out comes from what was out, but for what is sent now.
LEMMA OutFrom ==
    ASSUME CInv, Noted, Plain, Turns, AckComing, InLine, [CatchUpNext]_cvars, ~Send, ~Resend
    PROVE  \A i \in Renames(mem') : mem'.log[i].st \in OnWay =>
              i \in Renames(mem) /\ mem.log[i].st \in OnWay /\ ~Drops /\ ~Crash
<1>1. Shaped /\ LandInTurn(mem.log)
      BY DEF CInv, Turns
<1>2. CASE FewerNow /\ ~Drops /\ ~Crash
      BY <1>2 DEF FewerNow
<1>3. CASE UserRenames
  <2>1. \A i \in Renames(mem') : mem'.log[i].st \in OnWay => i \in Renames(mem) /\ mem.log[i].st \in OnWay
        BY <1>3, NewIsLast
  <2>2. mem.flow.step = "off" => \A i \in Renames(mem) : mem.log[i].st \notin OnWay
        BY DEF Plain, Renames, OnWay
  <2>3. mem'.flow = mem.flow
        BY <1>1, <1>3, UserRenamesAdds DEF Adds
  <2>4. Drops => mem'.flow.step = "off"
        BY <1>1, DropsGoes DEF Flowless
  <2>5. Crash => mem'.flow.step = "off"
        BY <1>1, CrashGoes DEF Flowless
  <2>   QED
        BY <2>1, <2>2, <2>3, <2>4, <2>5
<1>4. CASE Drops
  <2>1. \A i \in DOMAIN mem'.log : mem'.log[i].st \notin OnWay
        BY <1>1, <1>4, DropsGoes DEF Fields, OnWay
  <2>   QED
        BY <2>1 DEF Renames
<1>5. CASE Crash
  <2>1. \A i \in DOMAIN mem'.log : mem'.log[i].st \notin OnWay
        BY <1>1, <1>5, CrashGoes DEF Noted, OnWay
  <2>   QED
        BY <2>1 DEF Renames
<1>   QED
      BY <1>1, <1>2, <1>3, <1>4, <1>5, RenamesSteps

\* So packets of renames stay in turn.
LEMMA UpInTurnStays ==
    ASSUME CInv, Noted, Plain, Turns, AckComing, InLine, [CatchUpNext]_cvars
    PROVE  UpInTurn'
<1>1. Shaped /\ UpInTurn /\ Renames(mem) \subseteq Nat
      BY OpTyped DEF CInv, Turns
<1>2. \A n \in Sent : up[n].id \in 1..made /\ up[n].id # made + 1
  <2>1. \A n \in Sent : up[n].id \in 1..made
        BY DEF CInv, RowsThere, Sent
  <2>   QED
        BY <1>1, <2>1, MemNamed
<1>3. ASSUME ~Crash, NEW i \in 1..made, i \in Renames(mem')
      PROVE  i \in Renames(mem)
  <2>0. i # made + 1
        BY <1>1, <1>3, MemNamed
  <2>1. CASE UserRenames
        BY <1>3, <2>0, <2>1, NewIsLast
  <2>2. CASE FewerNow
        BY <1>3, <2>2 DEF FewerNow
  <2>3. CASE Send \/ Resend
        BY <1>1, <1>3, <2>3, SendsOne DEF Fields, Renames
  <2>4. CASE Drops
        BY <1>1, <1>3, <2>4, DropsGoes DEF Fields, Renames
  <2>   QED
        BY <1>3, <2>1, <2>2, <2>3, <2>4, RenamesSteps DEF Turns
<1>   SUFFICES ASSUME NEW m \in Sent', NEW n \in Sent', m < n,
                      up'[m].id \in Renames(mem'), up'[n].id \in Renames(mem')
      PROVE  up'[m].id < up'[n].id
      BY DEF UpInTurn
<1>4. ~Drops /\ ~Crash
  <2>1. Drops \/ Crash => up' = <<>>
        BY <1>1, DropsGoes, CrashGoes DEF Disconnects
  <2>   QED
        BY <2>1 DEF Sent
<1>5. CASE UpTail /\ (ServerApplies \/ ServerTakesIn)
  <2>1. mem' = mem
        BY <1>1, <1>5, LandsOne, TakesJoin
  <2>2. /\ m + 1 \in Sent /\ up[m + 1] = up'[m] /\ n + 1 \in Sent /\ up[n + 1] = up'[n]
        /\ m \in Nat /\ n \in Nat
        BY <1>5 DEF UpTail, Sent
  <2>   QED
        BY <1>1, <2>1, <2>2 DEF UpInTurn
<1>6. ASSUME UpKeeps, m \in Sent, n \in Sent
      PROVE  up'[m].id < up'[n].id
  <2>1. up'[m] = up[m] /\ up'[n] = up[n]
        BY <1>6 DEF UpKeeps, Sent
  <2>2. up[m].id \in Renames(mem) /\ up[n].id \in Renames(mem)
        BY <1>2, <1>3, <1>4, <1>6, <2>1
  <2>   QED
        BY <1>1, <1>6, <2>1, <2>2 DEF UpInTurn
<1>7. CASE up' = up
      BY <1>6, <1>7 DEF UpKeeps, Sent
<1>8. CASE Join /\ UpMore([type |-> "join", clock |-> mem.clock])
  <2>1. m \in Sent /\ n \in Sent /\ UpKeeps
        BY <1>8 DEF UpMore, UpKeeps, Sent
  <2>   QED
        BY <1>6, <2>1
<1>9. ASSUME Send \/ Resend, NEW i \in DOMAIN mem.log, UpMore([type |-> "op", id |-> i, clock |-> mem'.clock]),
             Sends(i), mem'.log[i].st \in OnWay
      PROVE  up'[m].id < up'[n].id
  <2>   DEFINE p == [type |-> "op", id |-> i, clock |-> mem'.clock]
  <2>1. /\ UpKeeps /\ up'[Len(up) + 1] = p /\ p.id = i
        /\ \A l \in DOMAIN up' : l \in DOMAIN up \/ l = Len(up) + 1
        /\ \A l \in DOMAIN up : l \in Nat /\ l < Len(up) + 1
        /\ Len(up) \in Nat
        BY <1>9 DEF UpMore
  <2>   HIDE DEF p
  <2>2. CASE n \in DOMAIN up
    <3>1. m \in DOMAIN up
          BY <2>1, <2>2 DEF Sent
    <3>2. m \in Sent /\ n \in Sent
          BY <2>1, <2>2, <3>1 DEF UpKeeps, Sent
    <3>   QED
          BY <1>6, <2>1, <3>2
  <2>3. CASE n = Len(up) + 1
    <3>1. m \in DOMAIN up
          BY <2>1, <2>3 DEF Sent
    <3>2. m \in Sent /\ up'[m] = up[m]
          BY <2>1, <3>1 DEF UpKeeps, Sent
    <3>3. up[m].id \in Renames(mem) /\ mem.log[up[m].id].st \in OnWay
          BY <1>2, <1>3, <1>4, <3>2 DEF CInv, Carried, OnWay
    <3>4. mem.log[i].st \notin OnWay /\ i \in Renames(mem)
      <4>1. i \in 1..made
            BY <1>1, <1>9, OpTyped
      <4>2. up'[n].id = i
            BY <2>1, <2>3
      <4>   QED
            BY <1>3, <1>4, <1>9, <4>1, <4>2 DEF Sends, OnWay
    <3>5. ~(i < up[m].id) /\ i # up[m].id
          BY <3>3, <3>4 DEF Turns, InTurn
    <3>   QED
          BY <1>1, <2>1, <2>3, <3>2, <3>3, <3>4, <3>5
  <2>   QED
        BY <2>1, <2>2, <2>3 DEF Sent
<1>   QED
      BY <1>4, <1>5, <1>7, <1>8, <1>9, UpSteps

\* And what is out has landed, or is on its way.
LEMMA OutThereStays ==
    ASSUME CInv, Noted, Plain, Turns, AckComing, InLine, [CatchUpNext]_cvars
    PROVE  OutThere'
<1>1. Shaped /\ OutThere
      BY DEF CInv, Turns
<1>   SUFFICES ASSUME NEW i \in Renames(mem'), mem'.log[i].st \in OnWay
      PROVE  Landed(i)' \/ \E n \in Sent' : up'[n].id = i
      BY DEF OutThere
<1>2. \A x : Landed(x) => Landed(x)'
  <2>1. CASE project'.journal = project.journal
        BY <2>1 DEF Landed
  <2>2. ASSUME NEW row \in Rows, Goes(row) PROVE \A x : Landed(x) => Landed(x)'
        BY <2>2 DEF Goes, Grows
  <2>   QED
        BY <2>1, <2>2, JournalGrows
<1>3. CASE (ServerApplies \/ ServerTakesIn) /\ UpTail /\ 1 \in DOMAIN up
  <2>1. mem' = mem
        BY <1>1, <1>3, LandsOne, TakesJoin
  <2>2. CASE Landed(i)
        BY <1>2, <2>2
  <2>3. ASSUME NEW n \in Sent, up[n].id = i
        PROVE  Landed(i)' \/ \E k \in Sent' : up'[k].id = i
    <3>1. CASE n = 1 /\ ServerApplies
      <4>1. up[1] = Head(up) /\ \E row \in Rows : Goes(row) /\ row.id = Head(up).id
            BY <3>1, LandsOne
      <4>   QED
            BY <2>3, <3>1, <4>1 DEF Goes, Grows
    <3>2. CASE n = 1 /\ ServerTakesIn
      <4>1. 1 \in JoinsUp
            BY <1>1, <3>2, TakesJoin
      <4>   QED
            BY <2>3, <3>2, <4>1 DEF JoinsUp, Sent
    <3>3. CASE n # 1
      <4>1. n - 1 \in DOMAIN up' /\ up'[n - 1] = up[n]
            BY <1>3, <2>3, <3>3 DEF UpTail, Sent
      <4>   QED
            BY <2>3, <4>1 DEF Sent
    <3>   QED
          BY <1>3, <3>1, <3>2, <3>3
  <2>   QED
        BY <1>1, <2>1, <2>2, <2>3 DEF OutThere
<1>4. ASSUME UpKeeps, i \in Renames(mem), mem.log[i].st \in OnWay
      PROVE  Landed(i)' \/ \E k \in Sent' : up'[k].id = i
  <2>1. CASE Landed(i)
        BY <1>2, <2>1
  <2>2. ASSUME NEW n \in Sent, up[n].id = i
        PROVE  \E k \in Sent' : up'[k].id = i
    <3>1. n \in DOMAIN up' /\ up'[n] = up[n]
          BY <1>4, <2>2 DEF UpKeeps, Sent
    <3>   QED
          BY <2>2, <3>1 DEF Sent
  <2>   QED
        BY <1>1, <1>4, <2>1, <2>2 DEF OutThere
<1>5. CASE NotServed /\ ~Send /\ ~Resend
  <2>1. i \in Renames(mem) /\ mem.log[i].st \in OnWay /\ ~Drops /\ ~Crash
        BY <1>5, OutFrom
  <2>2. UpKeeps
        BY <1>5, <2>1, UpSteps DEF UpMore, UpKeeps, NotServed
  <2>   QED
        BY <1>4, <2>1, <2>2
<1>6. CASE NotServed /\ (Send \/ Resend)
  <2>1. /\ ~Join /\ ~(Drops \/ Crash)
    <3>1. mem'.flow = mem.flow /\ i \in Renames(mem)
          BY <1>1, <1>6, SendsOne DEF Mems0, Fields, Renames
    <3>2. ~Join
      <4>1. Join => mem.flow.step = "settle" /\ mem'.flow.step = "gather"
            BY <1>1, JoinGoes
      <4>   QED
            BY <3>1, <4>1
    <3>3. ~Drops
      <4>1. Drops => mem'.log[i].st \notin OnWay
            BY <1>1, DropsGoes DEF Fields, OnWay, Renames
      <4>   QED
            BY <4>1
    <3>4. ~Crash
      <4>1. Crash => mem'.log[i].st \notin OnWay
            BY <1>1, CrashGoes DEF Noted, OnWay, Renames
      <4>   QED
            BY <4>1
    <3>   QED
          BY <3>2, <3>3, <3>4
  <2>2. /\ Fields /\ \E x \in DOMAIN mem.log : Sends(x)
        BY <1>1, <1>6, SendsOne
  <2>3. PICK x \in DOMAIN mem.log : Sends(x)
        BY <2>2
  <2>4. i \in Renames(mem) /\ (i # x => mem'.log[i] = mem.log[i])
        BY <2>2, <2>3 DEF Fields, Renames, Sends
  <2>5. UpKeeps
    <3>1. up' = up \/ \E p : UpMore(p)
          BY <1>1, <2>3, UpAppends DEF Sends
    <3>   QED
          BY <3>1 DEF UpMore, UpKeeps
  <2>6. CASE i = x
    <3>1. up' = Append(up, [type |-> "op", id |-> x, clock |-> mem'.clock])
          BY <2>3, <2>6 DEF Sends, OnWay
    <3>2. UpMore([type |-> "op", id |-> x, clock |-> mem'.clock])
          BY <1>1, <3>1, UpAppends
    <3>3. Len(up) + 1 \in Sent' /\ up'[Len(up) + 1].id = x
          BY <3>2 DEF UpMore, Sent
    <3>   QED
          BY <2>6, <3>3
  <2>7. CASE i # x
        BY <1>4, <2>4, <2>5, <2>7
  <2>   QED
        BY <2>6, <2>7
<1>   QED
      BY <1>3, <1>5, <1>6, UpSteps DEF NotServed

\* A rename that lands finds every earlier one landed.
LEMMA EarlierLanded ==
    ASSUME CInv, Turns, ServerApplies, NEW i \in Renames(mem), NEW j \in Renames(mem), i < j,
           j = Head(up).id
    PROVE  Landed(i)
<1>1. /\ 1 \in Sent /\ up[1].id = j /\ mem.log[j].st \in OnWay
      BY LandsOne
<1>2. mem.log[i].st \in OnWay
      BY <1>1 DEF Turns, InTurn
<1>3. ASSUME NEW n \in Sent, up[n].id = i
      PROVE  FALSE
  <2>1. Renames(mem) \subseteq Nat /\ up \in Seq(Requests)
        BY OpTyped DEF CInv, Shaped
  <2>2. n # 1
        BY <1>1, <1>3, <2>1
  <2>3. 1 < n
        BY <2>1, <2>2 DEF Sent
  <2>4. up[1].id < up[n].id
        BY <1>1, <1>3, <2>3 DEF Turns, UpInTurn
  <2>   QED
        BY <1>1, <1>3, <2>1, <2>4
<1>   QED
      BY <1>2, <1>3 DEF Turns, OutThere

\* So renames land in turn: those of the log, and those of state.json.
LEMMA LandInTurnStays ==
    ASSUME CInv, Noted, Plain, Kinds, Turns, AckComing, InLine, [CatchUpNext]_cvars
    PROVE  LandInTurn(mem.log)' /\ LandInTurn(file.log)'
<1>1. /\ Shaped /\ LandInTurn(mem.log) /\ LandInTurn(file.log)
      /\ InLog(mem.log) = Renames(mem) /\ InLog(file.log) \subseteq DOMAIN file.log /\ Renames(mem) \subseteq Nat
      /\ InLog(file.log) \subseteq Nat
      BY OpTyped DEF CInv, Turns
<1>2. InLog(mem'.log) = Renames(mem')
      BY DEF InLog, Renames
<1>3. ASSUME NEW i \in Renames(mem')
      PROVE  i \in Renames(mem) \/ (UserRenames /\ i = made + 1 /\ ~Landed(i)) \/ (Crash /\ i \in InLog(file.log))
  <2>1. CASE UserRenames
        BY <1>3, <2>1, NewIsLast
  <2>2. CASE FewerNow
        BY <1>3, <2>2 DEF FewerNow
  <2>3. CASE Send \/ Resend
        BY <1>1, <1>3, <2>3, SendsOne DEF Fields, Renames
  <2>4. CASE Drops
        BY <1>1, <1>3, <2>4, DropsGoes DEF Fields, Renames
  <2>5. CASE Crash
        BY <1>1, <1>3, <2>5, CrashGoes DEF Renames, InLog
  <2>   QED
        BY <1>1, <2>1, <2>2, <2>3, <2>4, <2>5, RenamesSteps
<1>4. CASE project'.journal = project.journal
  <2>1. \A k, i : RowIs(k, i)' <=> RowIs(k, i)
        BY <1>4 DEF RowIs
  <2>2. LandInTurn(mem.log)'
    <3>   SUFFICES ASSUME NEW i \in Renames(mem'), NEW j \in Renames(mem'), i < j,
                          NEW k \in DOMAIN project.journal, RowIs(k, j)
          PROVE  \E h \in DOMAIN project.journal : RowIs(h, i) /\ h < k
          BY <1>2, <1>4, <2>1 DEF LandInTurn
    <3>1. CASE Crash
      <4>1. i \in InLog(file.log) /\ j \in InLog(file.log)
            BY <1>1, <3>1, CrashGoes DEF Renames, InLog
      <4>   QED
            BY <1>1, <4>1 DEF LandInTurn
    <3>2. CASE ~Crash
      <4>1. j \in Renames(mem)
            BY <1>3, <3>2 DEF Landed, RowIs
      <4>2. i \in Renames(mem)
        <5>1. i # made + 1
              BY <1>1, <4>1, OpTyped
        <5>   QED
              BY <1>3, <3>2, <5>1
      <4>   QED
            BY <1>1, <4>1, <4>2 DEF LandInTurn
    <3>   QED
          BY <3>1, <3>2
  <2>3. CASE file' = file
    <3>1. InLog(file.log)' = InLog(file.log)
          BY <2>3 DEF InLog
    <3>   QED
          BY <1>1, <1>4, <2>1, <2>2, <3>1 DEF LandInTurn
  <2>4. CASE Write /\ mem' = mem
    <3>1. InLog(file'.log) = Renames(mem')
          BY <1>1, <2>4, WriteGoes
    <3>2. InLog(file.log)' = InLog(mem.log)' /\ InLog(file.log)' = InLog(file'.log)
          BY <1>2, <3>1 DEF InLog
    <3>   QED
          BY <2>2, <3>2 DEF LandInTurn
  <2>   QED
        BY <2>2, <2>3, <2>4, FileWritten
<1>5. CASE project'.journal # project.journal
  <2>1. ServerApplies \/ TeammateRenames
        BY <1>5, JournalGrows
  <2>2. mem' = mem /\ file' = file
        BY <1>1, <2>1, LandsOne, TeammateGoes
  <2>3. PICK row \in Rows : Goes(row) /\ (row.id = 0 \/ (ServerApplies /\ row.id = Head(up).id))
        BY <1>1, <2>1, LandsOne, TeammateGoes
  <2>   DEFINE new == Len(project.journal) + 1
  <2>4. /\ new \in DOMAIN project'.journal /\ project'.journal[new] = row
        /\ \A k \in DOMAIN project.journal : k \in DOMAIN project'.journal /\ project'.journal[k] = project.journal[k]
        /\ \A k \in DOMAIN project'.journal : k \in DOMAIN project.journal \/ k = new
        BY <2>3 DEF Goes, Grows
  <2>5. \A k \in DOMAIN project.journal : k \in Nat /\ k < new
        BY <1>1, Places
  <2>   HIDE DEF new
  <2>6. \A k \in DOMAIN project.journal : \A i : RowIs(k, i) <=> RowIs(k, i)'
        BY <2>4 DEF RowIs
  <2>7. ASSUME NEW l, LandInTurn(l), l' = l, \A i \in InLog(l) : i # 0,
               \A i, j \in InLog(l) : i < j /\ ServerApplies /\ j = Head(up).id => Landed(i)
        PROVE  LandInTurn(l)'
    <3>   SUFFICES ASSUME NEW i \in InLog(l), NEW j \in InLog(l), i < j,
                          NEW k \in DOMAIN project'.journal, RowIs(k, j)'
          PROVE  \E h \in DOMAIN project'.journal : RowIs(h, i)' /\ h < k
          BY <2>7 DEF LandInTurn, InLog
    <3>1. CASE k \in DOMAIN project.journal
      <4>1. PICK h \in DOMAIN project.journal : RowIs(h, i) /\ h < k
            BY <2>6, <2>7, <3>1 DEF LandInTurn
      <4>   QED
            BY <2>4, <2>6, <4>1
    <3>2. CASE k = new
      <4>1. ServerApplies /\ j = Head(up).id
            BY <2>3, <2>4, <2>7, <3>2 DEF RowIs
      <4>2. PICK h \in DOMAIN project.journal : RowIs(h, i)
            BY <2>7, <4>1 DEF Landed, RowIs
      <4>   QED
            BY <2>4, <2>5, <2>6, <3>2, <4>2
    <3>   QED
          BY <2>4, <3>1, <3>2
  <2>8. LandInTurn(mem.log)'
    <3>1. \A i, j \in InLog(mem.log) : i < j /\ ServerApplies /\ j = Head(up).id => Landed(i)
          BY <1>1, EarlierLanded
    <3>2. \A i \in InLog(mem.log) : i # 0
          BY <1>1, OpTyped
    <3>   QED
          BY <1>1, <2>2, <2>7, <3>1, <3>2
  <2>9. LandInTurn(file.log)'
    <3>1. ASSUME NEW i \in InLog(file.log), NEW j \in InLog(file.log), i < j, ServerApplies, j = Head(up).id
          PROVE  Landed(i)
      <4>1. j \in DOMAIN mem.log
            BY <3>1, LandsOne
      <4>2. i \in DOMAIN mem.log \/ Landed(i)
            BY <3>1, <4>1 DEF Turns, FileFollows
      <4>3. CASE i \in DOMAIN mem.log
        <5>1. i \in Renames(mem) /\ j \in Renames(mem)
              BY <3>1, <4>1, <4>3 DEF Kinds, InLog, Renames
        <5>   QED
              BY <3>1, <5>1, EarlierLanded
      <4>   QED
            BY <4>2, <4>3
    <3>2. \A i \in InLog(file.log) : i # 0
          BY <1>1, OpTyped
    <3>   QED
          BY <1>1, <2>2, <2>7, <3>1, <3>2
  <2>   QED
        BY <2>8, <2>9
<1>   QED
      BY <1>4, <1>5

\* The refresh finds no rename queued, and leaves the log; or all of them, and leaves the first at most.
OneKept ==
    \/ Renames(mem') = {} /\ Renames(mem) = {}
    \/ /\ Renames(mem') = {}
       /\ \E i, j \in Renames(mem) : Leading(mem.log, i) /\ Last(mem.log, j) /\ i # j /\ mem.log[i].from = mem.log[j].to
    \/ \E i, j \in Renames(mem) : Kept(mem.log, mem'.log, i, j)

\* That is what it does, as all renames are queued unless one was made since the listing was asked for.
LEMMA RefreshLog ==
    ASSUME Shaped, Asked, NoneQueued, Refresh
    PROVE  \/ mem.count # mem.flow.renames /\ mem'.log = mem.log
           \/ mem.count = mem.flow.renames /\ (\A i \in Renames(mem) : mem.log[i].st = "queued") /\ OneKept
<1>1. mem'.log = Collapsed(mem.log) /\ mem.flow.listing = "read" /\ mem.log \in Logs(made) /\ made \in Nat
      BY RefreshGoes, MemNamed
<1>2. InLog(mem.log) = Renames(mem) /\ InLog(mem'.log) = Renames(mem')
      BY DEF InLog, Renames
<1>3. CASE mem.count # mem.flow.renames
  <2>1. \A i \in InLog(mem.log) : mem.log[i].st # "queued"
        BY <1>1, <1>2, <1>3 DEF NoneQueued, Looking
  <2>2. Collapsed(mem.log) = mem.log
        BY <1>1, <2>1, CollapsedNone
  <2>   QED
        BY <1>1, <1>3, <2>2
<1>4. CASE mem.count = mem.flow.renames
  <2>1. \A i \in Renames(mem) : mem.log[i].st = "queued"
        BY <1>1, <1>4 DEF Asked
  <2>   DEFINE c == Collapsed(mem.log)
  <2>2. \/ InLog(c) = {} /\ InLog(mem.log) = {}
        \/ /\ InLog(c) = {}
           /\ \E i, j \in InLog(mem.log) :
                 Leading(mem.log, i) /\ Last(mem.log, j) /\ i # j /\ mem.log[i].from = mem.log[j].to
        \/ \E i, j \in InLog(mem.log) : Kept(mem.log, c, i, j)
        BY <1>1, <1>2, <2>1, CollapsedAll
  <2>   HIDE DEF c
  <2>3. mem'.log = c
        BY <1>1 DEF c
  <2>   QED
        BY <1>2, <1>4, <2>1, <2>2, <2>3 DEF OneKept
<1>   QED
      BY <1>3, <1>4

\* A rename that leaves the log while a later one stays has landed.
LEMMA LeftBehind ==
    ASSUME CInv, Noted, Plain, Asked, NoneQueued, Turns, AckComing, InLine, [CatchUpNext]_cvars, ~Crash,
           NEW i \in Renames(mem), NEW j \in Renames(mem'), j \in Renames(mem), i < j
    PROVE  i \in Renames(mem') \/ Landed(i)
<1>1. Shaped /\ LandInTurn(mem.log) /\ Renames(mem) \subseteq Nat
      BY OpTyped DEF CInv, Turns
<1>2. CASE SameRenames
      BY <1>2 DEF SameRenames
<1>3. ASSUME NEW x, TakesOut(x)
      PROVE  i \in Renames(mem') \/ Landed(i)
      BY <1>3 DEF TakesOut, LeaveLog
<1>4. CASE UserRenames
  <2>1. /\ i \in Renames(mem') \/ (CanSendLive /\ mem.log[i].st = "queued")
        /\ CanSendLive => \A h \in Renames(mem') : h # made + 1 => mem.log[h].st # "queued"
        /\ j # made + 1
        BY <1>4, NewIsLast
  <2>2. CASE CanSendLive /\ mem.log[i].st = "queued"
    <3>1. mem.log[j].st \in {"queued", "resent"} /\ mem.log[j].st # "queued"
          BY <2>1, <2>2 DEF Turns, Exclusive, CanSendLive
    <3>   QED
          BY <2>2, <3>1 DEF Turns, InTurn, OnWay
  <2>   QED
        BY <2>1, <2>2
<1>5. CASE Send \/ Resend
      BY <1>1, <1>5, SendsOne DEF Fields, Renames
<1>6. CASE Drops
      BY <1>1, <1>6, DropsGoes DEF Fields, Renames
<1>7. CASE Refresh
  <2>1. CASE mem'.log = mem.log
        BY <2>1 DEF Renames
  <2>2. ASSUME NEW f \in Renames(mem), NEW l \in Renames(mem), Kept(mem.log, mem'.log, f, l)
        PROVE  i \in Renames(mem')
    <3>1. Renames(mem') = {f} /\ f <= i /\ f \in Nat
          BY <1>1, <2>2 DEF Kept, Leading, InLog, Renames
    <3>   QED
          BY <1>1, <3>1
  <2>   QED
        BY <1>1, <1>7, <2>1, <2>2, RefreshLog DEF OneKept
<1>   QED
      BY <1>1, <1>2, <1>3, <1>4, <1>5, <1>6, <1>7, RenamesSteps

\* What state.json has of renames before one in the log is there too, or has landed.
LEMMA FileFollowsStays ==
    ASSUME CInv, CInv', Noted, Plain, Asked, NoneQueued, Kinds, Kinds', Turns, AckComing, InLine,
           [CatchUpNext]_cvars
    PROVE  FileFollows'
<1>1. Shaped
      BY DEF CInv
<1>2. CASE Write
  <2>1. DOMAIN file'.log = DOMAIN mem'.log
        BY <1>1, <1>2, WriteGoes DEF Write
  <2>   QED
        BY <2>1 DEF FileFollows, InLog
<1>3. CASE Crash
  <2>1. DOMAIN file'.log = DOMAIN mem'.log
        BY <1>1, <1>3, CrashGoes
  <2>   QED
        BY <2>1 DEF FileFollows, InLog
<1>4. CASE file' = file /\ ~Crash
  <2>1. \A x : Landed(x) => Landed(x)'
    <3>1. CASE project'.journal = project.journal
          BY <3>1 DEF Landed
    <3>2. ASSUME NEW row \in Rows, Goes(row) PROVE \A x : Landed(x) => Landed(x)'
          BY <3>2 DEF Goes, Grows
    <3>   QED
          BY <3>1, <3>2, JournalGrows
  <2>   SUFFICES ASSUME NEW i \in InLog(file.log), NEW j \in InLog(file.log), i < j, j \in DOMAIN mem'.log
        PROVE  i \in DOMAIN mem'.log \/ Landed(i)'
        BY <1>4 DEF FileFollows, InLog
  <2>2. j \in Renames(mem')
        BY <1>4 DEF Kinds, InLog, Renames
  <2>3. j \in DOMAIN mem.log
    <3>1. j \in 1..made /\ j # made + 1 /\ made \in Nat
          BY <1>1, OpTyped
    <3>   QED
          BY <1>4, <3>1, LogKinds
  <2>4. j \in Renames(mem)
        BY <2>3 DEF Kinds, InLog, Renames
  <2>5. CASE i \in DOMAIN mem.log
    <3>1. i \in Renames(mem)
          BY <2>5 DEF Kinds, InLog, Renames
    <3>2. i \in Renames(mem') \/ Landed(i)
          BY <1>4, <2>2, <2>4, <3>1, LeftBehind
    <3>   QED
          BY <2>1, <3>2 DEF Renames
  <2>6. CASE Landed(i)
        BY <2>1, <2>6
  <2>   QED
        BY <2>3, <2>5, <2>6 DEF Turns, FileFollows
<1>   QED
      BY <1>2, <1>3, <1>4, FileWritten

\* So all of it holds on.
LEMMA TurnsStay ==
    ASSUME CInv, CInv', Noted, Plain, Asked, NoneQueued, Kinds, Kinds', Entering, Turns, AckComing, InLine,
           [CatchUpNext]_cvars
    PROVE  Turns'
BY InTurnStays, UpInTurnStays, OutThereStays, LandInTurnStays, FileFollowsStays DEF Turns


-----------------------------------------------------------------------------
(* Answers and broadcasts, in line.                                        *)

\* What has landed stays so; and a row is whose it was.
LEMMA LandedStays ==
    ASSUME CInv, [CatchUpNext]_cvars
    PROVE  /\ \A x : Landed(x) => Landed(x)'
           /\ \A k \in DOMAIN project.journal : k \in DOMAIN project'.journal /\ project'.journal[k] = project.journal[k]
           /\ \A k \in DOMAIN project.journal : \A x : RowIs(k, x)' <=> RowIs(k, x)
           /\ \A x : Landed(x)' => Landed(x) \/ (ServerApplies /\ x = Head(up).id) \/ (TeammateRenames /\ x = 0)
<1>1. CASE project'.journal = project.journal
      BY <1>1 DEF Landed, RowIs
<1>2. CASE ServerApplies \/ TeammateRenames
  <2>1. PICK row \in Rows : Goes(row) /\ ((TeammateRenames /\ row.id = 0) \/ (ServerApplies /\ row.id = Head(up).id))
        BY <1>2, LandsOne, TeammateGoes DEF CInv
  <2>2. /\ \A k \in DOMAIN project.journal : k \in DOMAIN project'.journal /\ project'.journal[k] = project.journal[k]
        /\ \A x : Landed(x)' <=> Landed(x) \/ x = row.id
        BY <2>1 DEF Goes, Grows
  <2>   QED
        BY <2>1, <2>2 DEF RowIs
<1>   QED
      BY <1>1, <1>2, JournalGrows

\* What a rename's answer comes from.
LEMMA AckFrom ==
    ASSUME CInv, [CatchUpNext]_cvars, NEW i, AckFor(i)'
    PROVE  AckFor(i) \/ (ServerApplies /\ i = Head(up).id)
<1>1. PICK n \in DOMAIN down' : down'[n].type = "ack" /\ down'[n].row \in DOMAIN project'.journal
                                 /\ project'.journal[down'[n].row].id = i
      BY DEF AckFor, RowIs
<1>2. ASSUME NEW m \in DOMAIN down, down'[n] = down[m]
      PROVE  AckFor(i)
  <2>1. down[m].row \in DOMAIN project.journal
        BY <1>1, <1>2 DEF CInv, RowsThere
  <2>   QED
        BY <1>1, <1>2, <2>1, LandedStays DEF AckFor, RowIs
<1>3. CASE ServerApplies /\ down'[n].type = "ack" /\ down'[n].row = Len(project.journal) + 1
  <2>1. PICK row \in Rows : Goes(row) /\ row.id = Head(up).id
        BY <1>3, LandsOne
  <2>   QED
        BY <1>1, <1>3, <2>1 DEF Goes, Grows
<1>   QED
      BY <1>1, <1>2, <1>3, DownFrom

\* The answer of a rename in the log comes as long as the connection is there; and none does
\* for what is queued when it is gone.
LEMMA AckComingStays ==
    ASSUME CInv, CInv', Noted, Plain, Turns, AckComing, InLine, [CatchUpNext]_cvars
    PROVE  AckComing'
<1>1. Shaped /\ Renames(mem) \subseteq DOMAIN mem.log /\ LandInTurn(mem.log)
      BY OpTyped DEF CInv, Turns
<1>2. ASSUME ~Crash, NEW i \in Renames(mem')
      PROVE  i \in Renames(mem) \/ (UserRenames /\ ~Landed(i) /\ ~Landed(i)')
  <2>1. CASE UserRenames
    <3>1. project' = project
          BY <1>1, <2>1, UserRenamesAdds DEF Adds
    <3>   QED
          BY <1>2, <2>1, <3>1, NewIsLast DEF Landed
  <2>2. CASE FewerNow
        BY <1>2, <2>2 DEF FewerNow
  <2>3. CASE Send \/ Resend
        BY <1>1, <1>2, <2>3, SendsOne DEF Fields, Renames
  <2>4. CASE Drops
        BY <1>1, <1>2, <2>4, DropsGoes DEF Fields, Renames
  <2>   QED
        BY <1>1, <1>2, <2>1, <2>2, <2>3, <2>4, RenamesSteps
<1>3. ASSUME NEW i, AckFor(i)
      PROVE  Landed(i)
      BY <1>3 DEF AckFor, RowIs, Landed
<1>4. \A i \in Renames(mem) : mem.log[i].st # "answered" /\ mem.log[i].st \in {"queued", "writing", "sent", "resent"}
  <2>1. \A i \in DOMAIN mem.log : mem.log[i] \in QueuedOps
        BY <1>1, OpTyped
  <2>   QED
        BY <2>1 DEF Plain, Renames, QueuedOps
<1>5. ASSUME NEW i \in Renames(mem'), Joined' \/ mem'.flow.step = "again", Landed(i)'
      PROVE  AckFor(i)'
  <2>1. ~Drops /\ ~Crash
        BY <1>1, <1>5, DropsGoes, CrashGoes DEF Flowless, Joined
  <2>2. i \in Renames(mem)
        BY <1>2, <1>5, <2>1
  <2>3. CASE Join
    <3>1. mem.flow.step = "settle" /\ mem.flow.asked = {} /\ project' = project
          BY <1>1, <2>3, JoinGoes DEF Outside
    <3>2. mem.log[i].st = "queued" /\ Landed(i)
          BY <1>4, <1>5, <2>2, <3>1 DEF Plain, Renames, Landed
    <3>   QED
          BY <1>1, <2>2, <3>1, <3>2 DEF CInv, Unsent
  <2>4. CASE ~Join
    <3>1. Joined \/ mem.flow.step = "again"
          BY <1>1, <1>5, <2>1, <2>4, FlowSteps, GatherGoes DEF FlowStep, Joined
    <3>2. CASE Landed(i)
      <4>1. PICK n \in DOMAIN down : down[n].type = "ack" /\ RowIs(down[n].row, i)
            BY <2>2, <3>1, <3>2 DEF AckComing, AckFor
      <4>2. ASSUME Answered, n = 1
            PROVE  FALSE
        <5>1. Head(down).row \in DOMAIN project.journal /\ LeaveLog({project.journal[Head(down).row].id}) /\ down # <<>>
              BY <4>2, AnsweredLeaves
        <5>2. down[1] = Head(down)
              BY <1>1, <5>1 DEF Shaped
        <5>   QED
              BY <1>5, <4>1, <4>2, <5>1, <5>2 DEF RowIs, LeaveLog
      <4>3. PICK m \in DOMAIN down' : down'[m] = down[n]
            BY <2>1, <4>1, <4>2, HeadTaken
      <4>4. down[n].row \in DOMAIN project.journal
            BY <4>1 DEF RowIs
      <4>   QED
            BY <4>1, <4>3, <4>4, LandedStays DEF AckFor
    <3>3. CASE ~Landed(i)
      <4>1. ServerApplies /\ i = Head(up).id
        <5>1. i # 0
              BY <1>1, <2>2, OpTyped
        <5>   QED
              BY <1>5, <3>3, <5>1, LandedStays
      <4>2. PICK row \in Rows : Goes(row) /\ row.id = Head(up).id
            BY <4>1, LandsOne
      <4>3. down' = Append(down, [type |-> "ack", row |-> Len(project.journal) + 1])
            BY <4>1, LandsOne
      <4>4. down \in Seq(Answers)
            BY <1>1 DEF Shaped
      <4>5. /\ Len(down) + 1 \in DOMAIN down'
            /\ down'[Len(down) + 1] = [type |-> "ack", row |-> Len(project.journal) + 1]
            BY <4>3, <4>4
      <4>6. Len(project.journal) + 1 \in DOMAIN project'.journal /\ project'.journal[Len(project.journal) + 1].id = i
            BY <4>1, <4>2 DEF Goes, Grows
      <4>   QED
            BY <4>5, <4>6 DEF AckFor, RowIs
    <3>   QED
          BY <3>2, <3>3
  <2>   QED
        BY <2>3, <2>4
<1>6. ASSUME NEW i \in Renames(mem'), mem'.flow.step \in {"ask", "settle"}, AckFor(i)'
      PROVE  FALSE
  <2>1. ~Drops /\ ~Crash
        BY <1>1, <1>6, DropsGoes, CrashGoes DEF Flowless
  <2>2. AckFor(i) \/ (ServerApplies /\ i = Head(up).id)
        BY <1>6, AckFrom
  <2>3. i \in Renames(mem)
    <3>1. Landed(i)'
          BY <1>6 DEF AckFor, RowIs, Landed
    <3>   QED
          BY <1>2, <1>6, <2>1, <3>1
  <2>4. CASE mem.flow.step \in {"ask", "settle"}
    <3>1. ServerApplies /\ i = Head(up).id
          BY <2>2, <2>3, <2>4 DEF AckComing
    <3>2. mem.log[i].st \in OnWay
          BY <3>1, LandsOne
    <3>   QED
          BY <1>1, <2>3, <2>4, <3>2 DEF Plain, OnWay
  <2>5. CASE mem.flow.step \notin {"ask", "settle"}
    <3>1. Connects \/ JoinAgain
      <4>1. Join => mem'.flow.step = "gather"
            BY <1>1, JoinGoes
      <4>2. StatusAnswered \/ SettleLanded \/ LandedLeaves => mem.flow.step \in {"ask", "settle"}
            BY <1>1, StatusGoes, SettlingLeaves
      <4>   QED
            BY <1>6, <2>1, <2>5, <4>1, <4>2, FlowSteps DEF FlowStep
    <3>2. project' = project /\ down' = down /\ mem.flow.step \in {"off", "again"} /\ Ids(mem, {"writing"}) = {}
          /\ (mem.flow.step = "again" => Ids(mem, {"sent", "answered"}) = {})
          BY <1>1, <3>1, StartsOver DEF Outside
    <3>3. AckFor(i)
          BY <1>6, <3>2 DEF AckFor, RowIs
    <3>4. mem.flow.step = "again"
          BY <3>2, <3>3 DEF AckFor, CInv, Disconnected
    <3>5. Landed(i)
          BY <1>3, <3>3
    <3>6. mem.log[i].st = "queued"
          BY <1>1, <1>4, <2>3, <3>2, <3>4 DEF Plain, Ids
    <3>   QED
          BY <1>1, <2>3, <3>4, <3>5, <3>6 DEF CInv, Unsent
  <2>   QED
        BY <2>4, <2>5
<1>   QED
      BY <1>5, <1>6 DEF AckComing

\* What is being applied: one more, from the head of the answers; or the first is over.
LEMMA HandlersSteps ==
    ASSUME CInv, [CatchUpNext]_cvars
    PROVE  \/ mem'.handlers = mem.handlers
           \/ /\ Renamed /\ Renames(mem) = {} /\ down # <<>> /\ Head(down).type = "renamed"
              /\ mem'.handlers = Append(mem.handlers, [row |-> Head(down).row, count |-> mem.count])
           \/ MoveLive /\ mem.handlers # <<>> /\ mem'.handlers = Tail(mem.handlers)
           \/ Crash /\ mem'.handlers = <<>>
<1>1. Shaped
      BY DEF CInv
<1>2. CASE DeviceNext /\ ~Renamed /\ ~MoveLive
      BY <1>2, HandlersStay
<1>3. CASE Renamed
      BY <1>1, <1>3, RenamedAlso, RenamedGoes DEF RenamePendingHere
<1>4. CASE MoveLive
      BY <1>1, <1>4, MoveLiveAlso
<1>5. CASE ServerNext \/ UNCHANGED cvars
      BY <1>1, <1>5, LandsOne, TakesJoin, AnswersJoin, TeammateGoes DEF ServerNext, cvars
<1>6. CASE Drops \/ Crash
      BY <1>1, <1>6, DropsGoes, CrashGoes
<1>   QED
      BY <1>2, <1>3, <1>4, <1>5, <1>6 DEF CatchUpNext, DeviceNext, ServerNext

\* The rows of the answers, of what is being applied, and of the journal.
LEMMA RowsAre ==
    ASSUME CInv
    PROVE  /\ \A n \in Numbered : down[n].row \in DOMAIN project.journal /\ n \in Nat
           /\ \A h \in DOMAIN mem.handlers : /\ mem.handlers[h].row \in DOMAIN project.journal
                                             /\ h \in Nat /\ h <= Len(mem.handlers)
                                             /\ mem.handlers[h].count \in Nat
           /\ Len(mem.handlers) \in Nat
           /\ \A k \in DOMAIN project.journal : k \in Nat /\ k < Len(project.journal) + 1
<1>1. Shaped /\ RowsThere
      BY DEF CInv
<1>2. down \in Seq(Answers) /\ mem.handlers \in Handlers
      BY <1>1, MemNamed DEF Shaped, Mems
<1>3. \A n \in Numbered : down[n].row \in DOMAIN project.journal /\ n \in Nat
      BY <1>1, <1>2 DEF RowsThere, Numbered
<1>4. /\ \A h \in DOMAIN mem.handlers : h \in Nat /\ h <= Len(mem.handlers)
      /\ Len(mem.handlers) \in Nat
      BY <1>2 DEF Handlers
<1>5. \A h \in DOMAIN mem.handlers : mem.handlers[h].row \in DOMAIN project.journal
      BY <1>1 DEF RowsThere
<1>6. \A h \in DOMAIN mem.handlers : mem.handlers[h].count \in Nat
      BY <1>1, HandlerTyped
<1>7. \A k \in DOMAIN project.journal : k \in Nat /\ k < Len(project.journal) + 1
      BY <1>1, Places
<1>   QED
      BY <1>3, <1>4, <1>5, <1>6, <1>7

\* A step appends, or not, what is behind all.
Behind(d) == d.type \in {"ack", "renamed"} => d.row = Len(project.journal) + 1

\* So each step does, or takes the first, or loses all.
LEMMA DownOn ==
    ASSUME CInv, [CatchUpNext]_cvars
    PROVE  \/ down' = down
           \/ down # <<>> /\ down' = Tail(down)
           \/ \E d : down' = Append(down, d) /\ Behind(d) /\ mem'.handlers = mem.handlers
           \/ down' = <<>>
<1>1. CASE Shrinks
      BY <1>1 DEF Shrinks
<1>2. CASE ServerApplies
      BY <1>2, LandsOne DEF Behind
<1>3. CASE TeammateRenames
      BY <1>3, TeammateGoes DEF Behind, CInv
<1>4. CASE ServerAnswersJoin
  <2>1. PICK d \in Answers : down' = Append(down, d) /\ d.type \in {"joined", "refused"}
        BY <1>4, AnswersJoin DEF CInv
  <2>   QED
        BY <1>4, <2>1, AnswersJoin DEF Behind, CInv
<1>   QED
      BY <1>1, <1>2, <1>3, <1>4, DownSteps

\* They stay in line.
LEMMA InLineStays ==
    ASSUME CInv, CInv', Quiet, OneJoin, Entering, InLine, [CatchUpNext]_cvars
    PROVE  InLine'
<1>1. /\ Shaped /\ down \in Seq(Answers) /\ mem.handlers \in Handlers
      BY MemNamed DEF CInv, Shaped, Mems
<1>2. \A m, n \in Numbered' : m < n => down'[m].row < down'[n].row
  <2>1. CASE down' = down
        BY <2>1 DEF InLine, Numbered
  <2>2. CASE down # <<>> /\ down' = Tail(down)
    <3>1. \A n \in DOMAIN down' : n \in Nat /\ n + 1 \in DOMAIN down /\ down'[n] = down[n + 1]
          BY <1>1, <2>2
    <3>   QED
          BY <3>1 DEF InLine, Numbered
  <2>3. ASSUME NEW d, down' = Append(down, d), Behind(d)
        PROVE  \A m, n \in Numbered' : m < n => down'[m].row < down'[n].row
    <3>1. /\ \A n \in DOMAIN down' : \/ n \in DOMAIN down /\ down'[n] = down[n]
                                     \/ n = Len(down) + 1 /\ down'[n] = d
          /\ Len(down) \in Nat
          /\ \A n \in DOMAIN down : n \in Nat /\ n <= Len(down)
          BY <1>1, <2>3, DownMore
    <3>   QED
          BY <2>3, <3>1, RowsAre DEF InLine, Numbered, Behind
  <2>4. CASE down' = <<>>
        BY <2>4 DEF Numbered
  <2>   QED
        BY <2>1, <2>2, <2>3, <2>4, DownOn
<1>3. \A h \in DOMAIN mem'.handlers, n \in DOMAIN down' :
         down'[n].type = "renamed" => mem'.handlers[h].row < down'[n].row
  <2>1. CASE mem'.handlers = mem.handlers
    <3>1. CASE down' = down
          BY <2>1, <3>1 DEF InLine
    <3>2. CASE down # <<>> /\ down' = Tail(down)
      <4>1. \A n \in DOMAIN down' : n \in Nat /\ n + 1 \in DOMAIN down /\ down'[n] = down[n + 1]
            BY <1>1, <3>2
      <4>   QED
            BY <2>1, <4>1 DEF InLine
    <3>3. ASSUME NEW d, down' = Append(down, d), Behind(d)
          PROVE  \A h \in DOMAIN mem'.handlers, n \in DOMAIN down' :
                    down'[n].type = "renamed" => mem'.handlers[h].row < down'[n].row
      <4>1. /\ \A n \in DOMAIN down' : \/ n \in DOMAIN down /\ down'[n] = down[n]
                                       \/ n = Len(down) + 1 /\ down'[n] = d
            BY <1>1, <3>3, DownMore
      <4>   QED
            BY <2>1, <3>3, <4>1, RowsAre DEF InLine, Behind
    <3>4. CASE down' = <<>>
          BY <3>4
    <3>   QED
          BY <3>1, <3>2, <3>3, <3>4, DownOn
  <2>2. CASE /\ Renamed /\ down # <<>> /\ Head(down).type = "renamed"
             /\ mem'.handlers = Append(mem.handlers, [row |-> Head(down).row, count |-> mem.count])
    <3>1. down' = Tail(down)
          BY <1>1, <2>2, RenamedGoes
    <3>2. /\ \A n \in DOMAIN down' : n \in Nat \ {0} /\ n + 1 \in DOMAIN down /\ down'[n] = down[n + 1]
          /\ 1 \in DOMAIN down /\ down[1] = Head(down)
          BY <1>1, <2>2, <3>1
    <3>3. \A h \in DOMAIN mem'.handlers :
             (h \in DOMAIN mem.handlers /\ mem'.handlers[h] = mem.handlers[h]) \/ mem'.handlers[h].row = Head(down).row
          BY <1>1, <2>2 DEF Handlers
    <3>   QED
          BY <2>2, <3>2, <3>3 DEF InLine, Numbered
  <2>3. CASE MoveLive /\ mem.handlers # <<>> /\ mem'.handlers = Tail(mem.handlers)
    <3>1. down' = down
          BY <1>1, <2>3, MoveLiveGoes
    <3>2. \A h \in DOMAIN mem'.handlers : h + 1 \in DOMAIN mem.handlers /\ mem'.handlers[h] = mem.handlers[h + 1]
          BY <1>1, <2>3 DEF Handlers
    <3>   QED
          BY <3>1, <3>2 DEF InLine
  <2>4. CASE mem'.handlers = <<>>
        BY <2>4
  <2>   QED
        BY <2>1, <2>2, <2>3, <2>4, HandlersSteps
<1>4. \A g, h \in DOMAIN mem'.handlers : g < h => mem'.handlers[g].row < mem'.handlers[h].row
  <2>1. CASE mem'.handlers = mem.handlers
        BY <2>1 DEF InLine
  <2>2. CASE /\ Renamed /\ down # <<>> /\ Head(down).type = "renamed"
             /\ mem'.handlers = Append(mem.handlers, [row |-> Head(down).row, count |-> mem.count])
    <3>1. 1 \in DOMAIN down /\ down[1] = Head(down)
          BY <1>1, <2>2
    <3>2. \A h \in DOMAIN mem'.handlers :
             \/ h \in DOMAIN mem.handlers /\ mem'.handlers[h] = mem.handlers[h]
             \/ h = Len(mem.handlers) + 1 /\ mem'.handlers[h].row = Head(down).row
          BY <1>1, <2>2 DEF Handlers
    <3>3. \A h \in DOMAIN mem.handlers : mem.handlers[h].row < Head(down).row
          BY <2>2, <3>1 DEF InLine
    <3>   QED
          BY <3>2, <3>3, RowsAre DEF InLine
  <2>3. CASE MoveLive /\ mem.handlers # <<>> /\ mem'.handlers = Tail(mem.handlers)
    <3>2. \A h \in DOMAIN mem'.handlers : /\ h + 1 \in DOMAIN mem.handlers /\ mem'.handlers[h] = mem.handlers[h + 1]
                                          /\ h \in Nat
          BY <1>1, <2>3 DEF Handlers
    <3>   QED
          BY <3>2 DEF InLine
  <2>4. CASE mem'.handlers = <<>>
        BY <2>4
  <2>   QED
        BY <2>1, <2>2, <2>3, <2>4, HandlersSteps
<1>5. ASSUME Joined', NEW h \in DOMAIN mem'.handlers
      PROVE  mem'.handlers[h].count >= mem'.flow.renames
  <2>1. ~Drops /\ ~Crash
        BY <1>1, <1>5, DropsGoes, CrashGoes DEF Joined, Flowless
  <2>2. ~Join
    <3>1. Join => mem'.handlers = <<>>
          BY <1>1, JoinGoes DEF FlowGoes, Entering
    <3>   QED
          BY <1>5, <3>1
  <2>3. Joined /\ (Lists \/ ListingRead \/ Refresh)
        BY <1>5, <2>1, <2>2, FlowSteps DEF FlowStep, Joined
  <2>4. mem'.flow.renames = mem.flow.renames
        BY <1>1, <2>3, ListingGoes, RefreshGoes DEF Lists
  <2>5. \/ \E g \in DOMAIN mem.handlers : mem'.handlers[h] = mem.handlers[g]
        \/ mem'.handlers[h].count = mem.count
    <3>1. CASE mem'.handlers = mem.handlers
          BY <1>5, <3>1
    <3>2. CASE mem'.handlers = Append(mem.handlers, [row |-> Head(down).row, count |-> mem.count])
          BY <1>1, <1>5, <3>2 DEF Handlers
    <3>3. CASE mem.handlers # <<>> /\ mem'.handlers = Tail(mem.handlers)
      <4>1. h + 1 \in DOMAIN mem.handlers /\ mem'.handlers[h] = mem.handlers[h + 1]
            BY <1>1, <1>5, <3>3 DEF Handlers
      <4>   QED
            BY <4>1
    <3>   QED
          BY <2>1, <3>1, <3>2, <3>3, HandlersSteps
  <2>6. mem.flow.renames <= mem.count /\ mem.count \in Nat /\ mem.flow.renames \in Nat
    <3>1. mem.flow \in Flows /\ mem.count \in Nat
          BY <1>1, MemNamed DEF Mems
    <3>   QED
          BY <2>3, <3>1 DEF Entering, Flows
  <2>   QED
        BY <2>3, <2>4, <2>5, <2>6 DEF InLine
<1>   QED
      BY <1>2, <1>3, <1>4, <1>5 DEF InLine

\* A broadcast on its way is a teammate's, or was so before.
LEMMA ComingFrom ==
    ASSUME CInv, [CatchUpNext]_cvars, NEW k, Coming(k)'
    PROVE  Coming(k) \/ (TeammateRenames /\ project.room /\ k = Len(project.journal) + 1)
<1>1. PICK n \in DOMAIN down' : down'[n].type = "renamed" /\ down'[n].row = k
      BY DEF Coming
<1>   QED
      BY <1>1, DownFrom DEF Coming

\* It is there on, until it is taken up, or the connection goes.
LEMMA ComingLeft ==
    ASSUME CInv, [CatchUpNext]_cvars, NEW k, Coming(k)
    PROVE  \/ Coming(k)' \/ Drops \/ Crash
           \/ Renamed /\ down # <<>> /\ Head(down).type = "renamed" /\ Head(down).row = k
<1>1. PICK n \in DOMAIN down : down[n].type = "renamed" /\ down[n].row = k
      BY DEF Coming
<1>2. down \in Seq(Answers)
      BY DEF CInv, Shaped
<1>   QED
      BY <1>1, <1>2, HeadTaken DEF Coming

\* What is being applied was so before, or its broadcast was on its way.
LEMMA AtWorkFrom ==
    ASSUME CInv, Held, [CatchUpNext]_cvars, NEW k
    PROVE  /\ AtWork(k)' => AtWork(k) \/ (Renamed /\ Renames(mem) = {} /\ Coming(k) /\ down # <<>> /\ Head(down).row = k)
           /\ InHand(k)' => InHand(k) \/ (Renamed /\ Renames(mem) = {} /\ Coming(k) /\ down # <<>> /\ Head(down).row = k)
           /\ UserRenames => ~InHand(k)'
<1>1. Shaped /\ mem.handlers \in Handlers /\ down \in Seq(Answers)
      BY MemNamed DEF CInv, Shaped, Mems
<1>2. \A n \in DOMAIN mem.handlers : mem.handlers[n].count <= mem.count /\ mem.handlers[n].count \in Nat
      BY <1>1, HandlerTyped DEF Held
<1>3. ASSUME NEW n \in DOMAIN mem'.handlers
      PROVE  \/ \E m \in DOMAIN mem.handlers : mem'.handlers[n] = mem.handlers[m]
             \/ /\ Renamed /\ Renames(mem) = {} /\ Coming(mem'.handlers[n].row) /\ down # <<>>
                /\ Head(down).row = mem'.handlers[n].row
  <2>1. CASE mem'.handlers = mem.handlers
        BY <1>3, <2>1
  <2>2. CASE /\ Renamed /\ Renames(mem) = {} /\ down # <<>> /\ Head(down).type = "renamed"
             /\ mem'.handlers = Append(mem.handlers, [row |-> Head(down).row, count |-> mem.count])
    <3>1. 1 \in DOMAIN down /\ down[1] = Head(down)
          BY <1>1, <2>2
    <3>2. \/ n \in DOMAIN mem.handlers /\ mem'.handlers[n] = mem.handlers[n]
          \/ mem'.handlers[n].row = Head(down).row
          BY <1>1, <1>3, <2>2 DEF Handlers
    <3>   QED
          BY <2>2, <3>1, <3>2 DEF Coming
  <2>3. CASE mem.handlers # <<>> /\ mem'.handlers = Tail(mem.handlers)
    <3>1. n + 1 \in DOMAIN mem.handlers /\ mem'.handlers[n] = mem.handlers[n + 1]
          BY <1>1, <1>3, <2>3 DEF Handlers
    <3>   QED
          BY <3>1
  <2>4. CASE mem'.handlers = <<>>
        BY <1>3, <2>4
  <2>   QED
        BY <2>1, <2>2, <2>3, <2>4, HandlersSteps
<1>4. AtWork(k)' => AtWork(k) \/ (Renamed /\ Renames(mem) = {} /\ Coming(k) /\ down # <<>> /\ Head(down).row = k)
      BY <1>3 DEF AtWork
<1>5. CASE UserRenames
  <2>1. mem'.handlers = mem.handlers /\ mem'.count = mem.count + 1 /\ mem.count \in Nat
        BY <1>1, <1>5, UserRenamesAdds, MemNamed DEF Adds, Mems
  <2>2. ~InHand(k)'
        BY <1>2, <2>1 DEF InHand
  <2>   QED
        BY <1>4, <1>5, <2>2
<1>6. CASE Crash
  <2>1. mem'.handlers = <<>>
        BY <1>1, <1>6, CrashGoes
  <2>   QED
        BY <1>4, <2>1 DEF InHand
<1>7. CASE ~UserRenames /\ ~Crash
  <2>1. mem'.count = mem.count
        BY <1>7, CountStays
  <2>   QED
        BY <1>3, <1>4, <1>7, <2>1 DEF InHand
<1>   QED
      BY <1>5, <1>6, <1>7

\* It is applied on, until it is over, or the program ends.
LEMMA AtWorkLeft ==
    ASSUME CInv, [CatchUpNext]_cvars, NEW k
    PROVE  /\ AtWork(k) => \/ AtWork(k)' \/ Crash
                           \/ MoveLive /\ mem.handlers # <<>> /\ Head(mem.handlers).row = k
           /\ InHand(k) => \/ InHand(k)' \/ Crash \/ UserRenames
                           \/ MoveLive /\ mem.handlers # <<>> /\ Head(mem.handlers).row = k
<1>1. Shaped /\ mem.handlers \in Handlers
      BY MemNamed DEF CInv, Mems
<1>2. ASSUME NEW n \in DOMAIN mem.handlers
      PROVE  \/ \E m \in DOMAIN mem'.handlers : mem'.handlers[m] = mem.handlers[n]
             \/ Crash
             \/ MoveLive /\ mem.handlers # <<>> /\ Head(mem.handlers).row = mem.handlers[n].row
  <2>1. CASE mem'.handlers = mem.handlers
        BY <1>2, <2>1
  <2>2. CASE mem'.handlers = Append(mem.handlers, [row |-> Head(down).row, count |-> mem.count])
    <3>1. n \in DOMAIN mem'.handlers /\ mem'.handlers[n] = mem.handlers[n]
          BY <1>1, <1>2, <2>2 DEF Handlers
    <3>   QED
          BY <3>1
  <2>3. CASE MoveLive /\ mem.handlers # <<>> /\ mem'.handlers = Tail(mem.handlers)
    <3>1. CASE n = 1
          BY <1>1, <2>3, <3>1 DEF Handlers
    <3>2. CASE n # 1
      <4>1. n - 1 \in DOMAIN mem'.handlers /\ mem'.handlers[n - 1] = mem.handlers[n]
        <5>1. mem.handlers \in Seq([row : Nat, count : Nat]) /\ n \in 1..Len(mem.handlers) /\ Len(mem.handlers) \in Nat
              BY <1>1, <1>2 DEF Handlers
        <5>2. n - 1 \in 1..(Len(mem.handlers) - 1)
              BY <3>2, <5>1
        <5>   QED
              BY <2>3, <5>1, <5>2
      <4>   QED
            BY <4>1
    <3>   QED
          BY <3>1, <3>2
  <2>   QED
        BY <2>1, <2>2, <2>3, HandlersSteps
<1>3. ~Crash /\ ~UserRenames => mem'.count = mem.count
      BY CountStays
<1>   QED
      BY <1>2, <1>3 DEF AtWork, InHand

\* A teammate's rows.
LEMMA MatesStep ==
    ASSUME CInv, [CatchUpNext]_cvars
    PROVE  \/ MateRows' = MateRows /\ ~TeammateRenames
           \/ /\ TeammateRenames /\ MateRows' = MateRows \cup {Len(project.journal) + 1}
              /\ Len(project.journal) + 1 \notin MateRows
<1>1. Shaped
      BY DEF CInv
<1>2. CASE TeammateRenames
  <2>1. PICK row \in Rows : Goes(row) /\ row.id = 0
        BY <1>1, <1>2, TeammateGoes
  <2>   DEFINE new == Len(project.journal) + 1
  <2>2. /\ new \in DOMAIN project'.journal /\ project'.journal[new] = row /\ new \notin DOMAIN project.journal
        /\ \A k \in DOMAIN project.journal : k \in DOMAIN project'.journal /\ project'.journal[k] = project.journal[k]
        /\ \A k \in DOMAIN project'.journal : k \in DOMAIN project.journal \/ k = new
        BY <2>1 DEF Goes, Grows
  <2>   HIDE DEF new
  <2>3. MateRows' = MateRows \cup {new} /\ new \notin MateRows
        BY <2>1, <2>2 DEF MateRows
  <2>   QED
        BY <1>2, <2>3 DEF new
<1>3. CASE project'.journal = project.journal /\ ~TeammateRenames
      BY <1>3 DEF MateRows
<1>4. CASE ServerApplies /\ ~TeammateRenames
  <2>1. PICK row \in Rows : Goes(row) /\ row.id = Head(up).id
        BY <1>4, LandsOne
  <2>2. row.id # 0
        BY <1>4, <2>1, LandsOne
  <2>   DEFINE new == Len(project.journal) + 1
  <2>3. /\ new \in DOMAIN project'.journal /\ project'.journal[new] = row
        /\ \A k \in DOMAIN project.journal : k \in DOMAIN project'.journal /\ project'.journal[k] = project.journal[k]
        /\ \A k \in DOMAIN project'.journal : k \in DOMAIN project.journal \/ k = new
        BY <2>1 DEF Goes, Grows
  <2>   HIDE DEF new
  <2>4. MateRows' = MateRows
        BY <2>2, <2>3 DEF MateRows
  <2>   QED
        BY <1>4, <2>4
<1>   QED
      BY <1>2, <1>3, <1>4, JournalGrows

\* Behind a teammate's broadcast that comes, or is being applied, comes every later one.
LEMMA ClosedStays ==
    ASSUME CInv, CInv', Quiet, Held, OneJoin, Entering, InLine, Closed, [CatchUpNext]_cvars
    PROVE  Closed'
<1>1. /\ Shaped /\ down \in Seq(Answers) /\ mem.handlers \in Handlers
      BY MemNamed DEF CInv, Shaped, Mems
<1>   SUFFICES ASSUME project'.room, NEW k \in DOMAIN project'.journal, Coming(k)' \/ InHand(k)',
                      NEW j \in MateRows', j > k
      PROVE  Coming(j)' \/ InHand(j)'
      BY DEF Closed
<1>2. ~Drops /\ ~Crash
      BY <1>1, DropsGoes, CrashGoes DEF Disconnects
<1>3. CASE ServerTakesIn
  <2>1. JoinsUp # {} /\ UNCHANGED <<mem, down>>
        BY <1>1, <1>3, TakesJoin
  <2>2. mem.handlers = <<>> /\ \A n \in DOMAIN down : down[n].type # "renamed"
        BY <2>1 DEF Entering, Quiet, Mute, Silent
  <2>   QED
        BY <2>1, <2>2 DEF Coming, InHand
<1>4. CASE TeammateRenames /\ ~ServerTakesIn
  <2>1. project.room /\ UNCHANGED mem /\ down' = Append(down, [type |-> "renamed", row |-> Len(project.journal) + 1])
    <3>1. project'.room = project.room
          BY <1>1, <1>4, TeammateGoes DEF Goes
    <3>   QED
          BY <1>1, <1>4, <3>1, TeammateGoes
  <2>2. \A i : Coming(i) => Coming(i)'
        BY <1>2, <1>4, <1>1, ComingLeft, RenamedGoes, <2>1
  <2>3. CASE j = Len(project.journal) + 1
    <3>1. Len(down) + 1 \in DOMAIN down' /\ down'[Len(down) + 1] = [type |-> "renamed", row |-> j]
          BY <1>1, <2>1, <2>3
    <3>   QED
          BY <3>1 DEF Coming
  <2>4. CASE j # Len(project.journal) + 1
    <3>1. j \in MateRows
          BY <1>4, <2>4, MatesStep
    <3>2. k # Len(project.journal) + 1 /\ k \in DOMAIN project.journal
      <4>1. j \in DOMAIN project.journal
            BY <3>1 DEF MateRows
      <4>2. k # Len(project.journal) + 1
            BY <1>1, <4>1, Places
      <4>3. PICK row \in Rows : Goes(row)
            BY <1>1, <1>4, TeammateGoes
      <4>   QED
            BY <4>2, <4>3 DEF Goes, Grows
    <3>3. Coming(k) \/ InHand(k)
          BY <2>1, <3>2, ComingFrom DEF InHand
    <3>4. Coming(j) \/ InHand(j)
          BY <2>1, <3>1, <3>2, <3>3 DEF Closed
    <3>   QED
          BY <2>1, <2>2, <3>4 DEF InHand
  <2>   QED
        BY <2>3, <2>4
<1>5. CASE ~TeammateRenames /\ ~ServerTakesIn
  <2>1. project.room
    <3>1. CASE DeviceNext
          BY <3>1, DeviceSteps
    <3>2. CASE ServerApplies \/ ServerAnswersJoin
          BY <1>1, <3>2, LandsOne, AnswersJoin DEF Goes
    <3>3. CASE UNCHANGED cvars
          BY <3>3 DEF cvars
    <3>   QED
          BY <1>2, <1>5, <3>1, <3>2, <3>3 DEF CatchUpNext, DeviceNext
  <2>2. j \in MateRows
        BY <1>5, MatesStep
  <2>3. Coming(k) \/ InHand(k)
        BY <1>5, ComingFrom, AtWorkFrom
  <2>4. k \in DOMAIN project.journal
    <3>1. Coming(k) => k \in DOMAIN project.journal
          BY DEF Coming, CInv, RowsThere
    <3>2. InHand(k) => k \in DOMAIN project.journal
          BY DEF InHand, CInv, RowsThere
    <3>   QED
          BY <2>3, <3>1, <3>2
  <2>5. Coming(j) \/ InHand(j)
        BY <2>1, <2>2, <2>3, <2>4 DEF Closed
  <2>6. k \in Nat /\ j \in Nat
    <3>1. j \in DOMAIN project.journal
          BY <2>2 DEF MateRows
    <3>   QED
          BY <1>1, <2>4, <3>1, Places
  <2>7. ASSUME Renamed, down # <<>>, Head(down).type = "renamed", Head(down).row = j
        PROVE  Coming(j)' \/ InHand(j)'
    <3>1. 1 \in DOMAIN down /\ down[1] = Head(down) /\ down' = Tail(down)
          BY <1>1, <2>7, RenamedGoes
    <3>2. ~Coming(k)'
      <4>1. ASSUME NEW n \in DOMAIN down', down'[n].type = "renamed", down'[n].row = k
            PROVE  FALSE
        <5>1. n + 1 \in DOMAIN down /\ down'[n] = down[n + 1] /\ 1 < n + 1
              BY <1>1, <2>7, <3>1, <4>1
        <5>2. down[1].row < down[n + 1].row
              BY <2>7, <3>1, <4>1, <5>1 DEF InLine, Numbered
        <5>   QED
              BY <2>6, <2>7, <3>1, <4>1, <5>1, <5>2
      <4>   QED
            BY <4>1 DEF Coming
    <3>3. mem'.count = mem.count /\ InHand(k)'
          BY <1>1, <2>7, <3>2, RenamedGoes
    <3>4. CASE Renames(mem) = {}
      <4>1. mem'.handlers = Append(mem.handlers, [row |-> j, count |-> mem.count])
            BY <1>1, <2>7, <3>4, RenamedAlso DEF RenamePendingHere
      <4>2. Len(mem.handlers) + 1 \in DOMAIN mem'.handlers
            /\ mem'.handlers[Len(mem.handlers) + 1] = [row |-> j, count |-> mem.count]
            BY <1>1, <4>1 DEF Handlers
      <4>   QED
            BY <3>3, <4>2 DEF InHand
    <3>5. CASE Renames(mem) # {}
      <4>1. mem'.handlers = mem.handlers
            BY <1>1, <2>7, <3>5, RenamedAlso DEF RenamePendingHere
      <4>2. InHand(k)
            BY <3>3, <4>1 DEF InHand
      <4>   QED
            BY <3>5, <4>2 DEF InHand, Held, Untouched
    <3>   QED
          BY <3>4, <3>5
  <2>8. ASSUME MoveLive, mem.handlers # <<>>, Head(mem.handlers).row = j
        PROVE  FALSE
    <3>1. /\ mem'.handlers = Tail(mem.handlers) /\ down' = down
          /\ 1 \in DOMAIN mem.handlers /\ mem.handlers[1].row = j
          BY <1>1, <2>8, MoveLiveAlso, MoveLiveGoes DEF Handlers
    <3>2. ~Coming(k)'
          BY <2>6, <3>1 DEF Coming, InLine
    <3>3. ASSUME NEW n \in DOMAIN mem'.handlers, mem'.handlers[n].row = k
          PROVE  FALSE
      <4>1. n + 1 \in DOMAIN mem.handlers /\ mem'.handlers[n] = mem.handlers[n + 1] /\ 1 < n + 1
            BY <1>1, <2>8, <3>1, <3>3 DEF Handlers
      <4>2. j < k
            BY <3>1, <3>3, <4>1 DEF InLine
      <4>   QED
            BY <2>6, <4>2
    <3>   QED
          BY <3>2, <3>3 DEF InHand
  <2>9. ASSUME UserRenames, InHand(j)
        PROVE  FALSE
    <3>1. ~InHand(k)' /\ down' = down
          BY <1>1, <2>9, AtWorkFrom, UserRenamesAdds DEF Adds
    <3>2. PICK h \in DOMAIN mem.handlers : mem.handlers[h].row = j
          BY <2>9 DEF InHand
    <3>3. PICK n \in DOMAIN down : down[n].type = "renamed" /\ down[n].row = k
          BY <3>1 DEF Coming
    <3>4. j < k
          BY <3>2, <3>3 DEF InLine
    <3>   QED
          BY <2>6, <3>4
  <2>   QED
        BY <1>2, <2>5, <2>7, <2>8, <2>9, ComingLeft, AtWorkLeft
<1>   QED
      BY <1>3, <1>4, <1>5


-----------------------------------------------------------------------------
(* Counters: what a join's catch-up has.                                   *)

\* The clock, but for a row of a catch-up, and a crash, has as many of the teammate's as before.
LEMMA ClockSteps ==
    ASSUME CInv, Plain, [CatchUpNext]_cvars
    PROVE  \/ mem'.clock[2] = mem.clock[2]
           \/ Crash /\ mem'.clock = file.clock
           \/ /\ ApplyRow /\ Earliest(mem.flow.todo) \in DOMAIN project.journal
              /\ mem'.clock[2] = Larger(mem.clock[2], project.journal[Earliest(mem.flow.todo)].clock[2])
<1>1. Shaped
      BY DEF CInv
<1>2. CASE UserRenames
      BY <1>1, <1>2, UserRenamesAdds DEF Adds
<1>3. CASE UserChanges \/ Answered \/ AnswerRecorded \/ SettleLanded \/ LandedLeaves \/ Send \/ Resend
      BY <1>1, <1>3, UserChangesSame, AnsweredLeaves, RecordedSame, SettlingLeaves, SendsOne
<1>4. CASE \/ Write \/ Renamed \/ MoveLive \/ Connects \/ JoinAgain \/ StatusAnswered \/ Join \/ ListingRead
           \/ JoinAnswered \/ Gather \/ FlowEnds \/ Refresh \/ Drops
      BY <1>1, <1>4, RenamedGoes, MoveLiveGoes, StartsOver, StatusGoes, JoinGoes, ListingGoes,
         JoinedGoes, GatherGoes, EndsGoes, RefreshGoes, DropsGoes DEF Write, FlowGoes
<1>5. CASE ServerNext \/ UNCHANGED cvars
      BY <1>1, <1>5, LandsOne, TakesJoin, AnswersJoin, TeammateGoes DEF ServerNext, cvars
<1>6. CASE ApplyRow
  <2>1. mem'.clock = MergedClock(mem.clock, project.journal[Earliest(mem.flow.todo)].clock) /\ mem.flow.todo # {}
        BY <1>1, <1>6, ApplyGoes
  <2>2. Earliest(mem.flow.todo) \in DOMAIN project.journal
    <3>1. mem.flow.todo \subseteq DOMAIN project.journal
          BY DEF CInv, RowsThere
    <3>2. mem.flow.todo \in SUBSET Nat
          BY <1>1, <3>1, Places
    <3>   QED
          BY <2>1, <3>1, <3>2, LeastExists
  <2>   QED
        BY <1>6, <2>1, <2>2 DEF MergedClock
<1>7. CASE Crash
      BY <1>1, <1>7, CrashGoes
<1>   QED
      BY <1>2, <1>3, <1>4, <1>5, <1>6, <1>7 DEF CatchUpNext, ServerNext

\* How many rows the teammate has.
LEMMA MatesCounted ==
    ASSUME CInv, [CatchUpNext]_cvars
    PROVE  /\ Cardinality(MateRows) \in Nat /\ Cardinality(MateRows') \in Nat
           /\ Cardinality(MateRows) <= Cardinality(MateRows')
           /\ TeammateRenames => Cardinality(MateRows') = Cardinality(MateRows) + 1
<1>1. Shaped
      BY DEF CInv
<1>2. IsFiniteSet(MateRows) /\ Cardinality(MateRows) \in Nat
  <2>1. Len(project.journal) \in Nat /\ DOMAIN project.journal = 1..Len(project.journal)
        BY <1>1, Places
  <2>2. IsFiniteSet(1..Len(project.journal))
        BY <2>1, FS_Interval
  <2>3. IsFiniteSet(MateRows)
        BY <2>1, <2>2, FS_Subset DEF MateRows
  <2>   QED
        BY <2>3, FS_CardinalityType
<1>3. CASE MateRows' = MateRows /\ ~TeammateRenames
      BY <1>2, <1>3
<1>4. CASE /\ TeammateRenames /\ MateRows' = MateRows \cup {Len(project.journal) + 1}
           /\ Len(project.journal) + 1 \notin MateRows
  <2>1. Cardinality(MateRows \cup {Len(project.journal) + 1}) = Cardinality(MateRows) + 1
        BY <1>2, <1>4, FS_AddElement
  <2>2. Cardinality(MateRows') = Cardinality(MateRows) + 1
        BY <1>4, <2>1
  <2>   QED
        BY <1>2, <2>2
<1>   QED
      BY <1>3, <1>4, MatesStep

\* No clock counts more of the teammate's rows than there are.
LEMMA CountersStay ==
    ASSUME CInv, CInv', Plain, Counters, [CatchUpNext]_cvars
    PROVE  Counters'
<1>   DEFINE c == Cardinality(MateRows)
             d == Cardinality(MateRows')
<1>1. Shaped /\ Shaped'
      BY DEF CInv
<1>2. c \in Nat /\ d \in Nat /\ c <= d /\ (TeammateRenames => d = c + 1)
      BY MatesCounted
<1>3. /\ mem.clock[2] \in Nat /\ file.clock[2] \in Nat /\ mem.recorded[2] \in Nat
      /\ \A k \in DOMAIN project.journal : project.journal[k].clock[2] \in Nat
      BY <1>1, ClockNamed
<1>4. /\ mem.clock[2] <= c /\ file.clock[2] <= c
      /\ \A k \in DOMAIN project.journal : project.journal[k].clock[2] <= c
      BY DEF Counters
<1>   HIDE DEF c
<1>5. mem'.clock[2] <= d
      BY <1>2, <1>3, <1>4, ClockSteps DEF Larger
<1>6. file'.clock[2] <= d
  <2>1. CASE file' = file
        BY <1>2, <1>3, <1>4, <2>1
  <2>2. CASE Write
    <3>1. file'.clock = mem.recorded
          BY <1>1, <2>2, WriteGoes
    <3>2. mem.recorded[2] <= mem.clock[2]
          BY DEF CInv, Clocks
    <3>   QED
          BY <1>2, <1>3, <1>4, <3>1, <3>2
  <2>   QED
        BY <2>1, <2>2, FileWritten
<1>7. \A k \in DOMAIN project'.journal : project'.journal[k].clock[2] <= d
  <2>1. CASE project'.journal = project.journal
        BY <1>2, <1>3, <1>4, <2>1
  <2>2. ASSUME NEW row \in Rows, Goes(row), row.clock[2] \in Nat, row.clock[2] <= d
        PROVE  \A k \in DOMAIN project'.journal : project'.journal[k].clock[2] <= d
    <3>1. /\ project'.journal[Len(project.journal) + 1] = row
          /\ \A k \in DOMAIN project.journal : k \in DOMAIN project'.journal /\ project'.journal[k] = project.journal[k]
          /\ \A k \in DOMAIN project'.journal : k \in DOMAIN project.journal \/ k = Len(project.journal) + 1
          BY <2>2 DEF Goes, Grows
    <3>   QED
          BY <1>2, <1>3, <1>4, <2>2, <3>1
  <2>3. CASE ServerApplies
    <3>1. PICK row \in Rows : Goes(row) /\ row.clock = <<Head(up).clock[1] + 1, Head(up).clock[2]>>
          BY <2>3, LandsOne
    <3>2. Head(up).clock[2] <= mem.clock[2]
          BY <2>3, LandsOne
    <3>3. row.clock[2] \in Nat /\ row.clock[2] = Head(up).clock[2]
      <4>1. row.clock \in Clock
            BY DEF Rows
      <4>   QED
            BY <3>1, <4>1 DEF Clock
    <3>   QED
          BY <1>2, <1>3, <1>4, <2>2, <3>1, <3>2, <3>3
  <2>4. CASE TeammateRenames
    <3>1. PICK row \in Rows : Goes(row) /\ row.clock[2] = 1 + c
          BY <1>1, <2>4, TeammateGoes DEF c
    <3>   QED
          BY <1>2, <2>2, <2>4, <3>1
  <2>   QED
        BY <2>1, <2>3, <2>4, JournalGrows
<1>   QED
      BY <1>5, <1>6, <1>7 DEF Counters

\* While a join is out its clock is less than those of the rows after the listing, and of the packets behind it.
LEMMA JoinClockOn ==
    ASSUME CInv, CInv', Plain, Counters, Entering, [CatchUpNext]_cvars, mem.flow.step = "gather",
           ~Drops, ~Crash, NEW c \in Clock, Below(c), JoinClock(c)
    PROVE  JoinClock(c)'
<1>1. Shaped /\ Shaped' /\ mem.flow \in Flows
      BY MemNamed DEF CInv, Mems
<1>2. \/ Lists \/ ListingRead \/ Refresh
  <2>1. ~Join /\ ~Connects /\ ~JoinAgain /\ ~StatusAnswered /\ ~SettleLanded /\ ~LandedLeaves
        BY <1>1, JoinGoes, StartsOver, StatusGoes, SettlingLeaves
  <2>   QED
        BY <2>1, FlowSteps DEF FlowStep
<1>3. c[1] \in Nat /\ c[2] \in Nat /\ c[1] <= mem.clock[1] /\ c[2] <= mem.clock[2]
      BY DEF Clock, Below
<1>4. ASSUME mem'.flow.listing # "asked", NEW k \in DOMAIN project'.journal, k > mem'.flow.read
      PROVE  \E n \in {1, 2} : project'.journal[k].clock[n] > c[n]
  <2>1. CASE ListingRead
    <3>1. mem'.flow.read = Len(project.journal) /\ project' = project
          BY <1>1, <2>1, ListingGoes
    <3>   QED
          BY <1>1, <1>4, <3>1, Places
  <2>2. CASE ~ListingRead
    <3>1. mem.flow.listing # "asked" /\ mem'.flow.read = mem.flow.read
          BY <1>1, <1>2, <1>4, <2>2, RefreshGoes DEF Lists
    <3>2. CASE k \in DOMAIN project.journal
          BY <1>4, <3>1, <3>2, LandedStays DEF JoinClock
    <3>3. ASSUME NEW row \in Rows, Goes(row), \E n \in {1, 2} : row.clock[n] > c[n]
          PROVE  \E n \in {1, 2} : project'.journal[k].clock[n] > c[n]
      <4>1. CASE k = Len(project.journal) + 1
            BY <3>3, <4>1 DEF Goes, Grows
      <4>2. k \in DOMAIN project.journal \/ k = Len(project.journal) + 1
            BY <1>4, <3>3 DEF Goes, Grows
      <4>   QED
            BY <3>2, <4>1, <4>2
    <3>4. CASE ServerApplies
      <4>1. PICK row \in Rows : Goes(row) /\ row.clock = <<Head(up).clock[1] + 1, Head(up).clock[2]>>
            BY <3>4, LandsOne
      <4>2. 1 \in Sent /\ up[1] = Head(up)
            BY <3>4, LandsOne
      <4>3. up[1].clock[1] >= c[1] /\ up[1].clock[1] \in Nat
        <5>1. up \in Seq(Requests) /\ up[1] \in Requests
              BY <1>1, <4>2 DEF Shaped, Sent
        <5>   QED
              BY <4>2, <5>1 DEF JoinClock, Requests, Clock, Sent
      <4>4. row.clock[1] > c[1]
            BY <1>3, <4>1, <4>2, <4>3
      <4>   QED
            BY <3>3, <4>1, <4>4
    <3>5. CASE TeammateRenames
      <4>1. PICK row \in Rows : Goes(row) /\ row.clock[2] = 1 + Cardinality(MateRows)
            BY <1>1, <3>5, TeammateGoes
      <4>2. Cardinality(MateRows) \in Nat /\ mem.clock[2] <= Cardinality(MateRows) /\ mem.clock[2] \in Nat
            BY <1>1, MatesCounted, ClockNamed DEF Counters
      <4>3. row.clock[2] > c[2]
            BY <1>3, <4>1, <4>2
      <4>   QED
            BY <3>3, <4>1, <4>3
    <3>6. CASE project'.journal = project.journal
          BY <1>4, <3>2, <3>6
    <3>   QED
          BY <3>4, <3>5, <3>6, JournalGrows
  <2>   QED
        BY <2>1, <2>2
<1>5. ASSUME NEW n \in Sent'
      PROVE  up'[n].clock[1] >= c[1]
  <2>1. CASE UpTail
    <3>1. n + 1 \in Sent /\ up[n + 1] = up'[n]
          BY <1>5, <2>1 DEF UpTail, Sent
    <3>   QED
          BY <3>1 DEF JoinClock
  <2>2. CASE up' = up
        BY <1>5, <2>2 DEF JoinClock, Sent
  <2>3. CASE Join
        BY <1>1, <2>3, JoinGoes
  <2>4. ASSUME Send \/ Resend, NEW i, UpMore([type |-> "op", id |-> i, clock |-> mem'.clock])
        PROVE  up'[n].clock[1] >= c[1]
    <3>1. mem'.clock[1] >= mem.clock[1] /\ mem.clock[1] \in Nat /\ mem'.clock[1] \in Nat
      <4>1. mem'.clock[1] >= mem.clock[1]
            BY <1>1, <2>4, SendsOne
      <4>2. mem \in Mems(made) /\ mem' \in Mems(made')
            BY <1>1 DEF Shaped, MemTypeOK
      <4>   QED
            BY <4>1, <4>2 DEF Mems, Clock
    <3>2. CASE n = Len(up) + 1
      <4>1. up'[n].clock = mem'.clock
            BY <2>4, <3>2 DEF UpMore
      <4>   QED
            BY <1>3, <3>1, <4>1
    <3>3. CASE n \in DOMAIN up
      <4>1. up'[n] = up[n] /\ n \in Sent
            BY <1>5, <2>4, <3>3 DEF UpMore, UpKeeps, Sent
      <4>   QED
            BY <4>1 DEF JoinClock
    <3>   QED
          BY <1>5, <2>4, <3>2, <3>3 DEF UpMore, Sent
  <2>   QED
        BY <1>4, <2>1, <2>2, <2>3, <2>4, UpSteps
<1>   QED
      BY <1>4, <1>5 DEF JoinClock

\* So it is from the request to the answer.
LEMMA JoinClocksStay ==
    ASSUME CInv, CInv', Plain, Counters, OneJoin, Remembered, Entering, JoinClocks, [CatchUpNext]_cvars
    PROVE  JoinClocks'
<1>1. Shaped /\ JoinFirst /\ up \in Seq(Requests) /\ Shaped'
      BY DEF CInv, Entering, JoinFirst, Shaped
<1>2. CASE Drops \/ Crash
      BY <1>1, <1>2, DropsGoes, CrashGoes DEF Disconnects, JoinClocks, JoinsUp
<1>3. CASE ~Drops /\ ~Crash
  <2>1. ASSUME NEW c \in Clock, (\E n \in JoinsUp : up[n].clock = c) \/ project.join = c
        PROVE  JoinClock(c)'
    <3>1. project.join = c => project.join # <<>>
          BY DEF Clock
    <3>2. Below(c) /\ JoinClock(c) /\ mem.flow.step = "gather"
          BY <2>1, <3>1 DEF Remembered, JoinClocks, JoinsUp, OneJoin, JoinOut
    <3>   QED
          BY <1>3, <3>2, JoinClockOn
  <2>2. ASSUME Join
        PROVE  JoinClock(mem.clock)' /\ mem'.clock = mem.clock
    <3>1. /\ mem.flow.step = "settle" /\ mem'.flow.listing = "asked" /\ mem'.clock = mem.clock
          /\ UpMore([type |-> "join", clock |-> mem.clock])
          BY <1>1, <2>2, JoinGoes, UpAppends DEF FlowGoes
    <3>2. Sent = {}
          BY <3>1 DEF CInv, Carried, Plain, Sent
    <3>3. Sent' = {}
          BY <3>1, <3>2 DEF UpMore, UpKeeps, Sent
    <3>   QED
          BY <3>1, <3>3 DEF JoinClock
  <2>3. ASSUME NEW n \in JoinsUp'
        PROVE  JoinClock(up[n].clock)'
    <3>1. PICK c \in Clock : c = up'[n].clock
      <4>1. up' \in Seq(Requests)
            BY <1>1 DEF Shaped
      <4>   QED
            BY <2>3, <4>1 DEF JoinsUp, Requests
    <3>2. JoinClock(c)'
      <4>1. CASE n \in JoinsUp /\ up'[n] = up[n]
            BY <2>1, <3>1, <4>1
      <4>2. CASE Join /\ up'[n].clock = mem.clock
            BY <2>2, <3>1, <4>2 DEF JoinClock
      <4>   QED
            BY <1>1, <2>3, <4>1, <4>2, JoinsUpStay
    <3>   QED
          BY <3>1, <3>2 DEF JoinClock
  <2>4. ASSUME project'.join # <<>>
        PROVE  JoinClock(project.join)'
    <3>1. PICK c \in Clock : c = project'.join
          BY <1>1, <2>4 DEF Shaped, ProjectTypeOK
    <3>2. (\E n \in JoinsUp : up[n].clock = c) \/ project.join = c
      <4>1. CASE DeviceNext
            BY <3>1, <4>1, DeviceSteps
      <4>2. CASE ServerApplies \/ TeammateRenames
            BY <1>1, <3>1, <4>2, LandsOne, TeammateGoes DEF Goes
      <4>3. CASE ServerTakesIn
            BY <1>1, <3>1, <4>3, TakesJoin
      <4>4. CASE ServerAnswersJoin
            BY <1>1, <2>4, <4>4, AnswersJoin
      <4>5. CASE UNCHANGED cvars
            BY <3>1, <4>5 DEF cvars
      <4>   QED
            BY <1>3, <4>1, <4>2, <4>3, <4>4, <4>5 DEF CatchUpNext, DeviceNext
    <3>   QED
          BY <2>1, <3>1, <3>2 DEF JoinClock
  <2>   QED
        BY <2>3, <2>4 DEF JoinClocks
<1>   QED
      BY <1>2, <1>3

\* What a catch-up has, it has without gaps after the listing.
LEMMA GatheredOn ==
    ASSUME CInv, [CatchUpNext]_cvars, Lists \/ ListingRead \/ Refresh \/ Join,
           NEW S \in SUBSET (DOMAIN project.journal), Gathered(S)
    PROVE  Gathered(S)'
<1>1. Shaped
      BY DEF CInv
<1>   SUFFICES ASSUME mem'.flow.listing # "asked", NEW k \in S, k > mem'.flow.read,
                      NEW j \in DOMAIN project'.journal, mem'.flow.read < j, j < k
      PROVE  j \in S
      BY DEF Gathered
<1>2. k \in DOMAIN project.journal /\ k \in Nat /\ k <= Len(project.journal) /\ Len(project.journal) \in Nat
      BY <1>1, Places
<1>3. j \in DOMAIN project.journal
  <2>1. j \in DOMAIN project.journal \/ j = Len(project.journal) + 1
    <3>1. ASSUME NEW row, Goes(row) PROVE j \in DOMAIN project.journal \/ j = Len(project.journal) + 1
          BY <3>1 DEF Goes, Grows
    <3>   QED
          BY <3>1, JournalGrows
  <2>2. j # Len(project.journal) + 1
        BY <1>2
  <2>   QED
        BY <2>1, <2>2
<1>4. CASE ListingRead
  <2>1. mem'.flow.read = Len(project.journal)
        BY <1>1, <1>4, ListingGoes
  <2>   QED
        BY <1>2, <2>1
<1>5. CASE Join
      BY <1>1, <1>5, JoinGoes
<1>6. CASE (Lists \/ Refresh) /\ ~ListingRead /\ ~Join
  <2>1. mem.flow.listing # "asked" /\ mem'.flow.read = mem.flow.read
        BY <1>1, <1>6, RefreshGoes DEF Lists
  <2>   QED
        BY <1>3, <2>1 DEF Gathered
<1>   QED
      BY <1>4, <1>5, <1>6

\* The rows of the catch-up that is kept.
LEMMA RowsKept ==
    ASSUME CInv, OneJoin, [CatchUpNext]_cvars
    PROVE  \/ mem'.flow.rows = {} /\ (Connects \/ JoinAgain \/ Drops \/ Crash)
           \/ /\ \/ mem'.flow.rows = mem.flow.rows
                 \/ JoinAnswered /\ \E n \in DOMAIN down : down[n].type = "joined" /\ mem'.flow.rows = down[n].rows
              /\ Lists \/ ListingRead \/ Refresh \/ Join
<1>1. Shaped /\ down \in Seq(Answers)
      BY DEF CInv, Shaped
<1>2. CASE JoinAnswered
  <2>1. down # <<>> /\ Lists
        BY <1>1, <1>2, JoinedGoes
  <2>2. 1 \in DOMAIN down /\ down[1] = Head(down)
        BY <1>1, <2>1
  <2>3. mem'.flow.rows = mem.flow.rows \/ (Head(down).type = "joined" /\ mem'.flow.rows = Head(down).rows)
        BY <1>1, <1>2, JoinedGoes
  <2>   QED
        BY <1>2, <2>1, <2>2, <2>3
<1>3. CASE \/ UserRenames \/ UserChanges \/ Answered \/ AnswerRecorded \/ Send \/ Resend \/ Renamed \/ MoveLive
           \/ Write \/ ServerNext \/ UNCHANGED cvars
  <2>1. mem'.flow = mem.flow
    <3>1. CASE UserRenames
          BY <1>1, <3>1, UserRenamesAdds DEF Adds
    <3>2. CASE UserChanges \/ Answered \/ Send \/ Resend \/ Renamed \/ MoveLive
          BY <1>1, <3>2, UserChangesSame, AnsweredLeaves, SendsOne, RenamedGoes, MoveLiveGoes DEF Mems0
    <3>3. CASE AnswerRecorded
          BY <3>3, AnswerRecordedAlso
    <3>4. CASE Write \/ ServerNext \/ UNCHANGED cvars
          BY <1>1, <3>4, LandsOne, TakesJoin, AnswersJoin, TeammateGoes DEF ServerNext, cvars, Write
    <3>   QED
          BY <1>3, <3>1, <3>2, <3>3, <3>4
  <2>   QED
        BY <2>1 DEF Lists
<1>4. CASE StatusAnswered \/ SettleLanded \/ LandedLeaves
      BY <1>1, <1>4, AsksLeave DEF Gathers
<1>5. CASE Connects \/ JoinAgain \/ Drops \/ Crash
      BY <1>1, <1>5, StartsOver, DropsGoes, CrashGoes DEF Flowless
<1>6. CASE Join \/ ListingRead \/ Refresh \/ Gather \/ ApplyRow \/ FlowEnds
      BY <1>1, <1>6, JoinGoes, ListingGoes, RefreshGoes, GatherGoes, ApplyGoes, EndsGoes DEF Gathers
<1>   QED
      BY <1>2, <1>3, <1>4, <1>5, <1>6 DEF CatchUpNext, ServerNext

\* A catch-up stays without gaps after the listing.
LEMMA GatheredStays ==
    ASSUME CInv, OneJoin, JoinClocks, GatheredAll, [CatchUpNext]_cvars
    PROVE  GatheredAll'
<1>1. Shaped /\ RowsThere /\ down \in Seq(Answers)
      BY DEF CInv, Shaped
<1>2. ASSUME NEW n \in DOMAIN down, down[n].type = "joined"
      PROVE  down[n].rows \in SUBSET (DOMAIN project.journal) /\ Gathered(down[n].rows) /\ JoinsDown # {}
      BY <1>1, <1>2 DEF RowsThere, GatheredAll, JoinsDown
<1>3. Gathered(mem.flow.rows)'
  <2>1. CASE mem'.flow.rows = {}
        BY <2>1 DEF Gathered
  <2>2. CASE /\ \/ mem'.flow.rows = mem.flow.rows
                \/ \E n \in DOMAIN down : down[n].type = "joined" /\ mem'.flow.rows = down[n].rows
             /\ Lists \/ ListingRead \/ Refresh \/ Join
    <3>1. PICK S \in SUBSET (DOMAIN project.journal) : S = mem'.flow.rows /\ Gathered(S)
          BY <1>1, <1>2, <2>2 DEF RowsThere, GatheredAll
    <3>2. Gathered(S)'
          BY <2>2, <3>1, GatheredOn
    <3>   QED
          BY <3>1, <3>2 DEF Gathered
  <2>   QED
        BY <2>1, <2>2, RowsKept
<1>4. ASSUME NEW n \in DOMAIN down', down'[n].type = "joined"
      PROVE  Gathered(down[n].rows)'
  <2>1. ~Drops /\ ~Crash
        BY <1>1, <1>4, DropsGoes, CrashGoes DEF Disconnects
  <2>2. ASSUME NEW m \in DOMAIN down, down'[n] = down[m]
        PROVE  Gathered(down[n].rows)'
    <3>1. mem.flow.step = "gather"
          BY <1>2, <1>4, <2>2 DEF OneJoin, JoinOut
    <3>2. Lists \/ ListingRead \/ Refresh \/ Join
      <4>1. ~Connects /\ ~JoinAgain /\ ~StatusAnswered /\ ~SettleLanded /\ ~LandedLeaves
            BY <1>1, <3>1, StartsOver, StatusGoes, SettlingLeaves
      <4>   QED
            BY <2>1, <4>1, FlowSteps DEF FlowStep
    <3>3. PICK S \in SUBSET (DOMAIN project.journal) : S = down'[n].rows /\ Gathered(S)
          BY <1>2, <1>4, <2>2
    <3>4. Gathered(S)'
          BY <3>2, <3>3, GatheredOn
    <3>   QED
          BY <3>3, <3>4 DEF Gathered
  <2>3. CASE ServerAnswersJoin /\ ~\E m \in DOMAIN down : down'[n] = down[m]
    <3>1. PICK d \in Answers :
             /\ down' = Append(down, d)
             /\ d.type = "joined" => d.rows \in {Unseen(project.join), Newest(Unseen(project.join))}
          BY <1>1, <2>3, AnswersJoin
    <3>2. down'[n] = d
      <4>1. \/ n \in DOMAIN down /\ down'[n] = down[n]
            \/ n = Len(down) + 1 /\ down'[n] = d
            BY <1>1, <1>4, <3>1, DownMore
      <4>   QED
            BY <2>3, <4>1
    <3>3. mem' = mem /\ project'.journal = project.journal /\ project.join # <<>>
          BY <1>1, <2>3, AnswersJoin
    <3>   DEFINE c == project.join
    <3>4. JoinClock(c)
          BY <3>3 DEF JoinClocks
    <3>5. mem.flow.listing # "asked" => \A k \in DOMAIN project.journal : k > mem.flow.read =>
             k \in Unseen(c) /\ k \in Newest(Unseen(c))
          BY <3>4 DEF JoinClock, Unseen, Newest
    <3>6. Gathered(d.rows)
          BY <1>4, <3>1, <3>2, <3>5 DEF Gathered
    <3>   QED
          BY <3>2, <3>3, <3>6 DEF Gathered
  <2>   QED
        BY <1>4, <2>1, <2>2, <2>3, DownFrom
<1>   QED
      BY <1>3, <1>4 DEF GatheredAll

\* What was applied live is known to have been, until the flow ends.
LEMMA AppliedStays ==
    ASSUME CInv, Plain, [CatchUpNext]_cvars, ~FlowEnds, ~Crash
    PROVE  mem.applied \subseteq mem'.applied
<1>1. Shaped
      BY DEF CInv
<1>2. CASE UserRenames
      BY <1>1, <1>2, UserRenamesAdds DEF Adds
<1>3. CASE UserChanges \/ Answered \/ AnswerRecorded \/ SettleLanded \/ LandedLeaves \/ Send \/ Resend
      BY <1>1, <1>3, UserChangesSame, AnsweredLeaves, RecordedSame, SettlingLeaves, SendsOne DEF Mems0
<1>4. CASE Renamed \/ MoveLive
      BY <1>1, <1>4, RenamedAlso, MoveLiveAlso
<1>5. CASE \/ Write \/ Connects \/ JoinAgain \/ StatusAnswered \/ Join \/ ListingRead
           \/ JoinAnswered \/ Gather \/ Refresh \/ Drops \/ ApplyRow
      BY <1>1, <1>5, StartsOver, StatusGoes, JoinGoes, ListingGoes,
         JoinedGoes, GatherGoes, RefreshGoes, DropsGoes, ApplyGoes DEF Write
<1>6. CASE ServerNext \/ UNCHANGED cvars
      BY <1>1, <1>6, LandsOne, TakesJoin, AnswersJoin, TeammateGoes DEF ServerNext, cvars
<1>   QED
      BY <1>2, <1>3, <1>4, <1>5, <1>6 DEF CatchUpNext, ServerNext

\* While a catch-up goes on, its rows are those it came with; and what it knew to be applied is.
LEMMA HadStays ==
    ASSUME CInv, Plain, OneJoin, Entering, HadKnown, [CatchUpNext]_cvars
    PROVE  HadKnown'
<1>1. Shaped
      BY DEF CInv
<1>   SUFFICES ASSUME mem'.flow.step = "rows"
      PROVE  mem'.flow.had \subseteq mem'.applied
      BY DEF HadKnown
<1>2. ~Drops /\ ~Crash /\ ~FlowEnds /\ ~Join
      BY <1>1, DropsGoes, CrashGoes, EndsGoes, JoinGoes DEF Flowless
<1>3. CASE Gather
      BY <1>1, <1>3, GatherGoes
<1>4. CASE ~Gather
  <2>1. mem.flow.step = "rows"
        BY <1>2, <1>4, FlowSteps DEF FlowStep
  <2>2. mem'.flow.had = mem.flow.had
    <3>1. CASE \/ UserChanges \/ Answered \/ AnswerRecorded \/ Send \/ Resend \/ Renamed \/ MoveLive
               \/ Write \/ ServerNext \/ UNCHANGED cvars
          BY <1>1, <3>1, UserChangesSame, AnsweredLeaves, AnswerRecordedAlso, SendsOne, RenamedGoes, MoveLiveGoes,
             LandsOne, TakesJoin, AnswersJoin, TeammateGoes DEF Mems0, Write, ServerNext, cvars
    <3>2. CASE UserRenames
          BY <1>1, <3>2, UserRenamesAdds DEF Adds
    <3>3. CASE StatusAnswered \/ SettleLanded \/ LandedLeaves
          BY <1>1, <3>3, AsksLeave DEF Gathers
    <3>4. CASE ListingRead \/ Refresh \/ ApplyRow \/ JoinAnswered
          BY <1>1, <3>4, ListingGoes, RefreshGoes, ApplyGoes, JoinedGoes DEF Gathers
    <3>5. ~Connects /\ ~JoinAgain
          BY <1>1, <2>1, StartsOver
    <3>   QED
          BY <1>2, <1>4, <3>1, <3>2, <3>3, <3>4, <3>5 DEF CatchUpNext, ServerNext
  <2>   QED
        BY <1>2, <2>1, <2>2, AppliedStays DEF HadKnown
<1>   QED
      BY <1>3, <1>4

\* A broadcast taken up is applied, or being applied; what was is so.
LEMMA TakenUp ==
    ASSUME CInv, Renamed, NEW k, k = Head(down).row
    PROVE  k \in mem'.applied \/ AtWork(k)'
<1>1. Shaped /\ mem.handlers \in Handlers
      BY MemNamed DEF CInv, Mems
<1>2. CASE mem'.handlers = Append(mem.handlers, [row |-> k, count |-> mem.count])
  <2>1. Len(mem.handlers) + 1 \in DOMAIN mem'.handlers /\ mem'.handlers[Len(mem.handlers) + 1].row = k
        BY <1>1, <1>2 DEF Handlers
  <2>   QED
        BY <2>1 DEF AtWork
<1>3. CASE mem'.applied = mem.applied \cup {k}
      BY <1>3
<1>   QED
      BY <1>1, <1>2, <1>3, RenamedAlso

\* A teammate's rename after the listing, while its catch-up is awaited or goes on.
LEMMA AccountedStays ==
    ASSUME CInv, CInv', Plain, OneJoin, Held, Entering, JoinClocks, Accounted, [CatchUpNext]_cvars
    PROVE  Accounted'
<1>1. Shaped /\ JoinFirst /\ down \in Seq(Answers)
      BY DEF CInv, Shaped, Entering, JoinFirst
<1>   SUFFICES ASSUME mem'.flow.step \in {"gather", "rows"}, ~Refused', mem'.flow.listing # "asked",
                      NEW k \in MateRows', k > mem'.flow.read
      PROVE  \/ k \in mem'.applied \/ Coming(k)' \/ AtWork(k)'
             \/ JoinsUp' # {} \/ project'.join # <<>>
             \/ k \in mem'.flow.rows \/ \E n \in DOMAIN down' : down'[n].type = "joined" /\ k \in down'[n].rows
      BY DEF Accounted
<1>2. ~Drops /\ ~Crash /\ ~FlowEnds /\ ~Join /\ ~Connects /\ ~JoinAgain
      BY <1>1, DropsGoes, CrashGoes, EndsGoes, JoinGoes, StartsOver DEF Flowless
<1>3. CASE ListingRead
  <2>1. mem'.flow.read = Len(project.journal) /\ project' = project
        BY <1>1, <1>3, ListingGoes
  <2>2. k \in DOMAIN project.journal
        BY <2>1 DEF MateRows
  <2>   QED
        BY <1>1, <2>1, <2>2, Places
<1>4. CASE ~ListingRead
  <2>1. mem.flow.step \in {"gather", "rows"} /\ (Lists \/ Refresh)
        BY <1>1, <1>2, <1>4, FlowSteps, GatherGoes, StatusGoes, SettlingLeaves DEF FlowStep
  <2>2. ~Refused
        BY <2>1, RefusedStays DEF Joined
  <2>3. mem.flow.listing # "asked" /\ mem'.flow.read = mem.flow.read
        BY <1>1, <2>1, RefreshGoes DEF Lists
  <2>4. mem.applied \subseteq mem'.applied
        BY <1>2, AppliedStays
  <2>5. CASE k \notin MateRows
    <3>1. TeammateRenames /\ k = Len(project.journal) + 1
          BY <2>5, MatesStep
    <3>2. CASE project.room
      <4>1. down' = Append(down, [type |-> "renamed", row |-> k])
            BY <1>1, <3>1, <3>2, TeammateGoes
      <4>2. Len(down) + 1 \in DOMAIN down' /\ down'[Len(down) + 1] = [type |-> "renamed", row |-> k]
            BY <1>1, <4>1
      <4>   QED
            BY <4>2 DEF Coming
    <3>3. CASE ~project.room
      <4>1. JoinsUp # {} /\ up' = up
            BY <1>1, <2>1, <2>2, <3>1, <3>3, TeammateGoes DEF Entering, Joined
      <4>   QED
            BY <4>1 DEF JoinsUp
    <3>   QED
          BY <3>2, <3>3
  <2>6. CASE k \in MateRows
    <3>1. CASE k \in mem.applied
          BY <2>4, <3>1
    <3>2. CASE Coming(k)
          BY <1>2, <3>2, ComingLeft, TakenUp
    <3>3. CASE AtWork(k)
      <4>1. MoveLive /\ Head(mem.handlers).row = k => k \in mem'.applied
            BY <1>1, MoveLiveAlso
      <4>   QED
            BY <1>2, <3>3, <4>1, AtWorkLeft
    <3>4. CASE JoinsUp # {}
      <4>1. JoinsUp' # {} \/ ServerTakesIn
            BY <1>1, <1>2, <3>4, JoinsUpStay
      <4>2. ServerTakesIn => project'.join # <<>>
        <5>1. ASSUME ServerTakesIn PROVE project'.join # <<>>
          <6>1. project'.join = up[1].clock /\ 1 \in JoinsUp /\ Shaped'
                BY <1>1, <5>1, TakesJoin DEF CInv
          <6>2. up[1] \in Requests /\ up[1].type = "join"
                BY <1>1, <6>1 DEF JoinsUp, Shaped
          <6>3. up[1].clock \in Clock
                BY <6>2 DEF Requests
          <6>4. PICK a \in Nat, b \in Nat : up[1].clock = <<a, b>>
                BY <6>3 DEF Clock
          <6>   QED
                BY <6>1, <6>4
        <5>   QED
              BY <5>1
      <4>   QED
            BY <4>1, <4>2
    <3>5. CASE project.join # <<>>
      <4>1. CASE ServerAnswersJoin
        <5>1. PICK d \in Answers :
                 /\ down' = Append(down, d)
                 /\ \/ d.type = "joined" /\ d.rows \in {Unseen(project.join), Newest(Unseen(project.join))}
                    \/ d.type = "refused"
              BY <1>1, <4>1, AnswersJoin
        <5>2. Len(down) + 1 \in DOMAIN down' /\ down'[Len(down) + 1] = d
              BY <1>1, <5>1
        <5>3. d.type # "refused"
              BY <5>2 DEF Refused
        <5>   DEFINE c == project.join
        <5>4. k \in Unseen(c) /\ k \in Newest(Unseen(c))
          <6>1. JoinClock(c) /\ k \in DOMAIN project.journal
                BY <2>6, <3>5 DEF JoinClocks, MateRows
          <6>   QED
                BY <2>3, <6>1 DEF JoinClock, Unseen, Newest
        <5>   QED
              BY <5>1, <5>2, <5>3, <5>4
      <4>2. CASE ~ServerAnswersJoin
        <5>1. project'.join # <<>>
          <6>1. CASE DeviceNext
                BY <3>5, <6>1, DeviceSteps
          <6>2. CASE ServerApplies \/ TeammateRenames
                BY <1>1, <3>5, <6>2, LandsOne, TeammateGoes DEF Goes
          <6>3. CASE ServerTakesIn
            <7>1. JoinsUp # {}
                  BY <1>1, <6>3, TakesJoin
            <7>   QED
                  BY <3>5, <7>1 DEF OneJoin
          <6>4. CASE UNCHANGED cvars
                BY <3>5, <6>4 DEF cvars
          <6>   QED
                BY <1>2, <4>2, <6>1, <6>2, <6>3, <6>4 DEF CatchUpNext, DeviceNext
        <5>   QED
              BY <5>1
      <4>   QED
            BY <4>1, <4>2
    <3>6. CASE k \in mem.flow.rows
      <4>1. ~JoinAnswered
        <5>1. JoinAnswered => JoinsDown # {}
              BY <1>1 DEF JoinAnswered, JoinsDown
        <5>2. mem.flow.join = "joined"
              BY <3>6 DEF CInv, RowsThere
        <5>   QED
              BY <5>1, <5>2 DEF OneJoin, JoinOut
      <4>   QED
            BY <1>2, <3>6, <4>1, RowsKept
    <3>7. ASSUME NEW n \in DOMAIN down, down[n].type = "joined", k \in down[n].rows
          PROVE  k \in mem'.flow.rows \/ \E m \in DOMAIN down' : down'[m].type = "joined" /\ k \in down'[m].rows
      <4>1. CASE n = 1 /\ JoinAnswered
        <5>1. down[1] = Head(down)
              BY <1>1, <3>7, <4>1
        <5>   QED
              BY <1>1, <3>7, <4>1, <5>1, JoinedGoes
      <4>2. CASE \E m \in DOMAIN down' : down'[m] = down[n]
            BY <3>7, <4>2
      <4>   QED
            BY <1>2, <3>7, <4>1, <4>2, HeadTaken
    <3>   QED
          BY <2>1, <2>2, <2>3, <2>6, <3>1, <3>2, <3>3, <3>4, <3>5, <3>6, <3>7 DEF Accounted
  <2>   QED
        BY <2>5, <2>6
<1>   QED
      BY <1>3, <1>4


-----------------------------------------------------------------------------
(* Where the renames of a log lead.                                        *)

\* What moves the file, and what the history is told of it.
LEMMA StandsStill ==
    ASSUME CInv, [CatchUpNext]_cvars
    PROVE  /\ at' = at \/ UserRenames \/ MoveLive \/ Refresh \/ ApplyRow
           /\ past'.replayed = past.replayed \/ Refresh \/ ApplyRow
           /\ past'.outdated = past.outdated \/ ListingRead \/ MoveLive \/ Refresh
<1>1. Shaped
      BY DEF CInv
<1>2. CASE UserRenames \/ UserChanges
      BY <1>1, <1>2, UserRenamesAdds, UserChangesSame DEF Adds
<1>3. CASE Write \/ Send \/ Resend \/ Answered \/ AnswerRecorded
      BY <1>1, <1>3, SendsOne, AnsweredLeaves, AnswerRecordedAlso DEF Write, Outside
<1>4. CASE ServerNext
      BY <1>1, <1>4, LandsOne, TakesJoin, AnswersJoin, TeammateGoes DEF ServerNext
<1>5. CASE Renamed \/ MoveLive
      BY <1>1, <1>5, RenamedGoes, MoveLiveGoes DEF Outside
<1>6. CASE Connects \/ JoinAgain \/ StatusAnswered \/ SettleLanded \/ LandedLeaves \/ Join
      BY <1>1, <1>6, StartsOver, StatusGoes, SettlingLeaves, JoinGoes DEF Outside
<1>7. CASE ListingRead \/ Refresh \/ JoinAnswered \/ Gather \/ ApplyRow \/ FlowEnds
      BY <1>1, <1>7, ListingGoes, RefreshGoes, JoinedGoes, GatherGoes, ApplyGoes, EndsGoes
      DEF Outside, Told0
<1>8. CASE Drops \/ Crash
      BY <1>1, <1>8, DropsGoes, CrashGoes DEF Told0
<1>9. CASE UNCHANGED cvars
      BY <1>9 DEF cvars
<1>   QED
      BY <1>2, <1>3, <1>4, <1>5, <1>6, <1>7, <1>8, <1>9 DEF CatchUpNext, ServerNext

\* A queued rename does not land.
LEMMA QueuedStaysOut ==
    ASSUME CInv, [CatchUpNext]_cvars, NEW i \in DOMAIN mem.log, mem.log[i].st = "queued", ~Landed(i)
    PROVE  ~Landed(i)'
<1>1. Shaped /\ i # 0
      BY OpTyped DEF CInv
<1>2. ServerApplies => mem.log[Head(up).id].st \in OnWay
      BY LandsOne
<1>   QED
      BY <1>1, <1>2, LandedStays DEF OnWay

\* The same renames lead where they did.
LEMMA EndsKept ==
    ASSUME CInv, [CatchUpNext]_cvars, SameRenames, at' = at, past'.replayed = past.replayed,
           mem'.flow.listing = "done" => mem.flow.listing = "done", MemEnds
    PROVE  MemEnds'
<1>   SUFFICES ASSUME ~past'.replayed
      PROVE  Ends(mem'.log, at') \/ (Cancels(mem.log)' /\ mem'.flow.listing # "done")
      BY DEF MemEnds
<1>1. /\ InLog(mem.log) = Renames(mem) /\ InLog(mem'.log) = Renames(mem')
      /\ Renames(mem) \subseteq DOMAIN mem.log
      BY DEF InLog, Renames
<1>2. CASE Ends(mem.log, at)
      BY <1>1, <1>2 DEF Ends, Last, SameRenames
<1>3. CASE Cancels(mem.log) /\ mem.flow.listing # "done"
  <2>1. \A i \in Renames(mem') : mem'.log[i].st = "queued" /\ ~Landed(i)'
        BY <1>1, <1>3, QueuedStaysOut DEF Cancels, SameRenames
  <2>   QED
        BY <1>1, <1>3, <2>1 DEF Cancels, Leading, Last, SameRenames
<1>   QED
      BY <1>2, <1>3 DEF MemEnds

\* What moves the file live, or from the catch-up unless past.replayed says so, finds no rename
\* of the user's in the log.
LEMMA MovesNone ==
    ASSUME CInv, Held, Refreshed, Remembered, MoveLive \/ (ApplyRow /\ ~past'.replayed), at' # at
    PROVE  Renames(mem) = {}
<1>1. Shaped /\ RowsThere
      BY DEF CInv
<1>2. CASE MoveLive
  <2>   DEFINE h == Head(mem.handlers)
  <2>1. mem.handlers # <<>> /\ h.count = mem.count
        BY <1>1, <1>2, MoveLiveAlso, MoveLiveGoes
  <2>2. 1 \in DOMAIN mem.handlers /\ mem.handlers[1] = h
        BY <1>1, <2>1, MemNamed DEF Mems, Handlers
  <2>   QED
        BY <2>1, <2>2 DEF Held, Untouched
<1>3. CASE ApplyRow /\ ~past'.replayed
  <2>   DEFINE k == Earliest(mem.flow.todo)
  <2>1. ~Skipped(k) /\ ~Unguarded(k)
        BY <1>1, <1>3, ApplyGoes
  <2>2. k \in mem.flow.todo /\ mem.flow.step = "rows" /\ k \in DOMAIN project.journal
        BY <1>1, <1>3, ApplyRowNamed DEF Applies
  <2>   HIDE DEF k
  <2>3. k \notin mem.flow.had /\ ~mem.flow.here
        BY <2>1 DEF Skipped
  <2>4. k \notin past.seen
        BY <1>1, <2>2, <2>3 DEF Remembered, RowsThere
  <2>5. mem.count = past.count
        BY <2>1, <2>4 DEF Unguarded
  <2>   QED
        BY <2>2, <2>3, <2>5 DEF Refreshed, Untouched
<1>   QED
      BY <1>2, <1>3

\* The renames of the log lead to the file's name, or nowhere.
LEMMA MemEndsStays ==
    ASSUME CInv, Noted, Plain, Held, Asked, Refreshed, Remembered, LandInTurn(mem.log), AckComing, InLine,
           Entering, NoneQueued, MemEnds, FileEnds, [CatchUpNext]_cvars
    PROVE  MemEnds'
<1>1. Shaped /\ Renames(mem) \subseteq Nat
      BY OpTyped DEF CInv
<1>2. /\ InLog(mem.log) = Renames(mem) /\ InLog(mem'.log) = Renames(mem')
      /\ Renames(mem) \subseteq DOMAIN mem.log
      BY DEF InLog, Renames
<1>3. CASE UserRenames
  <2>   DEFINE new == made + 1
  <2>1. /\ new \in Renames(mem') /\ \A i \in Renames(mem') : i = new \/ ~(new <= i)
        BY <1>3, NewIsLast
  <2>2. mem'.log[new].to = at'
        BY <1>1, <1>3, UserRenamesAdds DEF Adds, QueuedOp
  <2>   HIDE DEF new
  <2>   QED
        BY <1>2, <2>1, <2>2 DEF MemEnds, Ends, Last
<1>4. CASE Refresh
  <2>   SUFFICES ASSUME ~past'.replayed
        PROVE  Ends(mem'.log, at')
        BY DEF MemEnds
  <2>1. /\ past'.replayed = (past.replayed /\ Here(mem'.log))
        /\ Here(mem'.log) => at' = at
        /\ mem.flow.listing = "read"
        BY <1>1, <1>4, RefreshGoes
  <2>2. CASE mem.count # mem.flow.renames /\ mem'.log = mem.log
    <3>1. Ends(mem.log, at) \/ Cancels(mem.log)
          BY <2>1, <2>2 DEF MemEnds, Here
    <3>2. Cancels(mem.log) => Renames(mem) = {}
          BY <1>2, <2>1, <2>2 DEF NoneQueued, Looking, Cancels
    <3>   QED
          BY <1>2, <2>1, <2>2, <3>1, <3>2 DEF Ends, Last, Here
  <2>3. CASE OneKept
    <3>1. CASE Renames(mem') = {}
          BY <1>2, <3>1 DEF Ends, Last
    <3>2. ASSUME NEW i \in Renames(mem), NEW j \in Renames(mem), Kept(mem.log, mem'.log, i, j)
          PROVE  Ends(mem'.log, at')
      <4>1. Here(mem'.log)
            BY <3>2 DEF Kept, Here, InLog
      <4>2. Ends(mem.log, at)
            BY <1>2, <2>1, <3>2, <4>1 DEF MemEnds, Cancels, Kept
      <4>3. mem.log[j].to = at
            BY <1>2, <3>2, <4>2 DEF Ends, Kept
      <4>   QED
            BY <2>1, <3>2, <4>1, <4>3 DEF Ends, Kept, Last
    <3>   QED
          BY <2>3, <3>1, <3>2 DEF OneKept
  <2>   QED
        BY <1>1, <1>4, <2>2, <2>3, RefreshLog
<1>5. CASE Send \/ Resend
  <2>1. /\ at' = at /\ past' = past /\ mem'.flow = mem.flow /\ Fields
        BY <1>1, <1>5, SendsOne DEF Outside, Mems0
  <2>2. Renames(mem') = Renames(mem)
        BY <2>1 DEF Fields, Renames
  <2>3. Ends(mem.log, at) => Ends(mem'.log, at')
        BY <1>2, <2>1, <2>2 DEF Ends, Last, Fields
  <2>4. PICK x \in DOMAIN mem.log : Sends(x)
        BY <1>1, <1>5, SendsOne
  <2>5. ASSUME Cancels(mem.log), mem.flow.listing # "done" PROVE SameRenames
    <3>1. mem.log[x].st = "writing"
          BY <2>4, <2>5 DEF Sends, Entering
    <3>2. x \notin Renames(mem)
          BY <1>2, <2>5, <3>1 DEF Cancels
    <3>   QED
          BY <2>2, <2>4, <3>2, <1>2 DEF SameRenames, Sends
  <2>6. past'.replayed = past.replayed
        BY <2>1
  <2>   QED
        BY <2>1, <2>3, <2>5, <2>6, EndsKept DEF MemEnds
<1>6. CASE Answered \/ SettleLanded \/ LandedLeaves
  <2>1. Outside /\ (SameRenames \/ \E x : TakesOut(x))
        BY <1>6, LeavesInTurn
  <2>2. mem'.flow.listing = mem.flow.listing
        BY <1>1, <1>6, AnsweredLeaves, SettlingLeaves DEF Mems0, AsksOn
  <2>3. ASSUME NEW x, TakesOut(x), ~past'.replayed PROVE Ends(mem'.log, at')
    <3>1. Ends(mem.log, at)
          BY <1>2, <2>1, <2>3 DEF MemEnds, Cancels, TakesOut, Outside
    <3>2. /\ Renames(mem') = Renames(mem) \ {x} /\ x \in Renames(mem)
          /\ \A i \in Renames(mem') : mem'.log[i] = mem.log[i] /\ ~(i <= x)
          BY <1>1, <2>3 DEF TakesOut, LeaveLog
    <3>   QED
          BY <1>1, <1>2, <2>1, <3>1, <3>2 DEF Ends, Last, Outside
  <2>   QED
        BY <2>1, <2>2, <2>3, EndsKept DEF MemEnds, Outside
<1>7. CASE Drops
  <2>1. /\ at' = at /\ past' = past /\ Fields /\ mem'.flow.listing = "none"
        /\ project'.journal = project.journal
        /\ \A i \in DOMAIN mem.log : mem.log[i].st = "queued" => mem'.log[i].st = "queued"
        BY <1>1, <1>7, DropsGoes DEF Flowless, Disconnects, OnWay
  <2>2. Renames(mem') = Renames(mem)
        BY <2>1 DEF Fields, Renames
  <2>3. Ends(mem.log, at) => Ends(mem'.log, at')
        BY <1>2, <2>1, <2>2 DEF Ends, Last, Fields
  <2>4. Cancels(mem.log) => Cancels(mem.log)'
        BY <1>2, <2>1, <2>2 DEF Cancels, Leading, Last, Fields, Landed
  <2>   QED
        BY <2>1, <2>3, <2>4 DEF MemEnds
<1>8. CASE Crash
  <2>1. /\ at' = at /\ file.at = at /\ past'.replayed = past.replayed /\ mem'.log = file.log
        /\ mem'.flow.listing = "none" /\ project'.journal = project.journal
        BY <1>1, <1>8, CrashGoes DEF Flowless, Disconnects, Told0
  <2>2. Cancels(file.log) => Cancels(mem.log)'
        BY <2>1 DEF Cancels, Leading, Last, InLog, Landed
  <2>   QED
        BY <2>1, <2>2 DEF MemEnds, FileEnds
<1>9. CASE at' # at /\ ~UserRenames /\ ~Refresh
  <2>1. SameRenames /\ (MoveLive \/ ApplyRow)
        BY <1>1, <1>9, StandsStill, RenamesStep, SendsOne, AnsweredLeaves, SettlingLeaves, DropsGoes, CrashGoes
        DEF Outside, CInv
  <2>2. ~past'.replayed => Renames(mem') = {}
        BY <1>9, <2>1, MovesNone DEF SameRenames
  <2>   QED
        BY <1>2, <2>2 DEF MemEnds, Ends, Last
<1>10. CASE at' = at /\ SameRenames /\ ~Refresh
  <2>1. mem'.flow.listing = "done" => mem.flow.listing = "done"
        BY <1>1, <1>10, ListingStays
  <2>2. past'.replayed = past.replayed \/ past'.replayed
        BY <1>1, <1>10, StandsStill, ApplyGoes, MemNamed DEF Shaped, Pasts
  <2>   QED
        BY <1>10, <2>1, <2>2, EndsKept DEF MemEnds
<1>   QED
      BY <1>3, <1>4, <1>5, <1>6, <1>7, <1>8, <1>9, <1>10, RenamesStep

\* While the flow waits for the listing it did so before, or the join went out.
LEMMA LookingFrom ==
    ASSUME CInv, CInv', [CatchUpNext]_cvars, Looking'
    PROVE  \/ Join
           \/ /\ ~Join /\ Looking /\ mem'.flow.renames = mem.flow.renames /\ ~Refresh /\ ~Drops /\ ~Crash
              /\ mem.flow.step = "gather"
<1>1. Shaped /\ Stages /\ Stages'
      BY DEF CInv
<1>2. mem'.flow.step = "gather"
      BY <1>1 DEF Looking, Stages
<1>3. ~Drops /\ ~Crash /\ ~Refresh
      BY <1>1, DropsGoes, CrashGoes, RefreshGoes DEF Flowless, Looking
<1>   SUFFICES ASSUME ~Join
      PROVE  Looking /\ mem'.flow.renames = mem.flow.renames
      BY <1>1, <1>3 DEF Stages, Looking
<1>4. CASE ListingRead
      BY <1>1, <1>4, ListingGoes DEF Looking
<1>5. CASE ~ListingRead
  <2>1. Lists
        BY <1>2, <1>3, <1>5, FlowSteps DEF FlowStep
  <2>   QED
        BY <2>1 DEF Lists, Looking
<1>   QED
      BY <1>4, <1>5

\* Once the user renamed it while the listing is awaited, no rename is queued.
LEMMA NoneQueuedStays ==
    ASSUME CInv, CInv', Noted, Plain, Entering, LandInTurn(mem.log), AckComing, InLine, NoneQueued,
           [CatchUpNext]_cvars
    PROVE  NoneQueued'
<1>1. Shaped
      BY DEF CInv
<1>   SUFFICES ASSUME Looking', mem'.count # mem'.flow.renames, NEW i \in Renames(mem')
      PROVE  mem'.log[i].st # "queued"
      BY DEF NoneQueued
<1>2. CASE Join
      BY <1>1, <1>2, JoinGoes DEF FlowGoes
<1>3. CASE ~Join
  <2>1. /\ Looking /\ mem'.flow.renames = mem.flow.renames /\ ~Refresh /\ ~Drops /\ ~Crash
        /\ mem.flow.step = "gather"
        BY <1>3, LookingFrom
  <2>2. CanSendLive
        BY <2>1 DEF CanSendLive, Entering, Joined
  <2>3. CASE UserRenames
        BY <2>2, <2>3, NewIsLast
  <2>4. CASE ~UserRenames
    <3>1. mem.count # mem.flow.renames
          BY <2>1, <2>4, CountStays
    <3>2. \A j \in Renames(mem) : mem.log[j].st # "queued"
          BY <2>1, <3>1 DEF NoneQueued
    <3>3. CASE FewerNow
          BY <3>2, <3>3 DEF FewerNow
    <3>4. CASE Send \/ Resend
      <4>1. Fields
            BY <1>1, <3>4, SendsOne
      <4>2. i \in Renames(mem) /\ i \in DOMAIN mem.log
            BY <4>1 DEF Fields, Renames
      <4>3. PICK x \in DOMAIN mem.log : Sends(x)
            BY <1>1, <3>4, SendsOne
      <4>4. i = x => mem'.log[i].st \in OnWay
            BY <2>2, <4>3 DEF Sends, OnWay
      <4>5. i # x => mem'.log[i] = mem.log[i]
            BY <4>2, <4>3 DEF Sends
      <4>   QED
            BY <3>2, <4>2, <4>4, <4>5 DEF OnWay
    <3>   QED
          BY <2>1, <2>4, <3>3, <3>4, RenamesSteps
  <2>   QED
        BY <2>3, <2>4
<1>   QED
      BY <1>2, <1>3

\* While it is awaited and nothing is renamed, state.json has the renames of the log.
LEMMA FileKeptStays ==
    ASSUME CInv, CInv', Noted, Plain, Asked, LandInTurn(mem.log), AckComing, InLine, FileKept,
           [CatchUpNext]_cvars
    PROVE  FileKept'
<1>1. Shaped /\ Unsent
      BY DEF CInv
<1>   DEFINE Alike(f, m) == /\ InLog(f.log) = Renames(m)
                            /\ \A i \in Renames(m) : f.log[i].from = m.log[i].from /\ f.log[i].to = m.log[i].to
<1>   SUFFICES ASSUME Looking', mem'.count = mem'.flow.renames
      PROVE  Alike(file', mem')
      BY DEF FileKept
<1>2. Renames(mem) \subseteq DOMAIN mem.log
      BY DEF Renames
<1>3. CASE Join
  <2>1. Saved /\ file' = file /\ mem'.log = mem.log
        BY <1>1, <1>3, JoinGoes DEF Outside, FlowGoes
  <2>2. Alike(file, mem)
        BY <1>1, <1>2, <2>1, WriteGoes DEF Write
  <2>   QED
        BY <2>1, <2>2 DEF Renames
<1>4. CASE ~Join
  <2>1. /\ Looking /\ mem'.flow.renames = mem.flow.renames /\ ~Refresh /\ ~Drops /\ ~Crash
        /\ mem.flow.step = "gather"
        BY <1>4, LookingFrom
  <2>2. ~UserRenames
        BY <1>1, <2>1, UserRenamesAdds, MemNamed DEF Adds, Asked, Looking, Mems, Flows
  <2>3. mem.count = mem.flow.renames
        BY <2>1, <2>2, CountStays
  <2>4. Alike(file, mem) /\ \A i \in Renames(mem) : mem.log[i].st = "queued"
        BY <2>1, <2>3 DEF FileKept, Asked, Looking
  <2>5. CASE Write
    <3>1. mem' = mem /\ Alike(file', mem)
          BY <1>1, <1>2, <2>5, WriteGoes DEF Write
    <3>   QED
          BY <3>1
  <2>6. CASE file' = file /\ SameRenames
        BY <2>4, <2>6 DEF SameRenames
  <2>7. CASE Send \/ Resend
    <3>1. Fields /\ file' = file
          BY <1>1, <2>7, SendsOne DEF Outside
    <3>2. Renames(mem') = Renames(mem)
          BY <3>1 DEF Fields, Renames
    <3>   QED
          BY <1>2, <2>4, <3>1, <3>2 DEF Fields
  <2>8. ASSUME NEW x, TakesOut(x) PROVE FALSE
    <3>1. x \in DOMAIN mem.log /\ mem.log[x].st = "queued" /\ Landed(x)
          BY <1>2, <2>4, <2>8 DEF TakesOut
    <3>   QED
          BY <1>1, <2>1, <3>1 DEF Unsent
  <2>   QED
        BY <2>1, <2>2, <2>5, <2>6, <2>7, <2>8, RenamesSteps, FileWritten
<1>   QED
      BY <1>3, <1>4

\* The renames of state.json lead to the name it has, or nowhere.
LEMMA FileEndsStays ==
    ASSUME CInv, Noted, Plain, Asked, Kinds, Entering, LandInTurn(mem.log), AckComing, InLine,
           NoneQueued, FileKept, MemEnds, FileEnds, [CatchUpNext]_cvars
    PROVE  FileEnds'
<1>1. /\ Shaped /\ Unsent /\ Stages
      /\ \A i \in InLog(file.log) : i \in DOMAIN file.log /\ i \in 1..made /\ made \in Nat
      BY OpTyped DEF CInv, InLog
<1>2. /\ InLog(mem.log) = Renames(mem) /\ InLog(mem'.log) = Renames(mem')
      /\ Renames(mem) \subseteq DOMAIN mem.log
      BY DEF InLog, Renames
<1>   DEFINE Out == \A i \in Renames(mem) \cap DOMAIN file.log : mem.log[i].st = "queued" /\ mem.flow.listing # "done"
<1>3. CASE Write
  <2>1. /\ mem' = mem /\ project' = project /\ past' = past /\ file'.at = at
        /\ InLog(file'.log) = Renames(mem)
        /\ \A i \in Renames(mem) : /\ file'.log[i].st = "queued" /\ file'.log[i].from = mem.log[i].from
                                   /\ file'.log[i].to = mem.log[i].to
        BY <1>1, <1>2, <1>3, WriteGoes DEF Write
  <2>2. Ends(mem.log, at) => Ends(file'.log, file'.at)
        BY <1>2, <2>1 DEF Ends, Last
  <2>3. Cancels(mem.log) => Cancels(file.log)'
        BY <1>2, <2>1 DEF Cancels, Leading, Last, Landed
  <2>4. Cancels(mem.log) /\ mem.flow.listing # "done" => Out'
        BY <1>2, <2>1 DEF Cancels
  <2>   QED
        BY <2>1, <2>2, <2>3, <2>4 DEF MemEnds, FileEnds
<1>4. CASE ~Write
  <2>   SUFFICES ASSUME ~past'.replayed
        PROVE  Ends(file.log, file.at)' \/ (Cancels(file.log)' /\ Out')
        BY DEF FileEnds
  <2>1. file' = file
        BY <1>4, FileWritten
  <2>2. CASE Ends(file.log, file.at)
        BY <2>1, <2>2 DEF Ends, Last, InLog
  <2>3. CASE past.replayed
    <3>1. Refresh /\ ~Here(mem'.log)
          BY <1>1, <2>3, StandsStill, RefreshGoes, ApplyGoes
    <3>2. mem.flow.listing = "read" /\ mem.flow.step = "gather"
          BY <1>1, <3>1, RefreshGoes DEF Stages
    <3>3. /\ mem.count = mem.flow.renames /\ \A i \in Renames(mem) : mem.log[i].st = "queued"
          /\ OneKept
          BY <1>1, <3>1, RefreshLog DEF Here
    <3>4. ~\E i, j \in Renames(mem) : Kept(mem.log, mem'.log, i, j)
          BY <3>1 DEF Kept, Here, InLog
    <3>5. InLog(file.log) = Renames(mem)
          /\ \A i \in Renames(mem) : file.log[i].from = mem.log[i].from /\ file.log[i].to = mem.log[i].to
          BY <3>2, <3>3 DEF FileKept, Looking
    <3>6. CASE Renames(mem) = {}
          BY <2>1, <3>5, <3>6 DEF Ends, Last
    <3>7. ASSUME NEW i \in Renames(mem), NEW j \in Renames(mem), Leading(mem.log, i), Last(mem.log, j),
                 i # j, mem.log[i].from = mem.log[j].to
          PROVE  Cancels(file.log)
      <4>1. \A x \in InLog(file.log) : file.log[x].st = "queued" /\ ~Landed(x)
            BY <1>1, <1>2, <3>2, <3>3, <3>5 DEF Noted, Unsent
      <4>2. \A x, y \in InLog(file.log) : Leading(file.log, x) /\ Last(file.log, y) => x = i /\ y = j
        <5>1. Renames(mem) \subseteq Nat
              BY <1>1, OpTyped
        <5>   QED
              BY <1>2, <3>5, <3>7, <5>1 DEF Leading, Last
      <4>   QED
            BY <3>5, <3>7, <4>1, <4>2 DEF Cancels
    <3>8. Cancels(file.log) => Cancels(file.log)'
      <4>1. project'.journal = project.journal
            BY <1>1, <3>1, RefreshGoes
      <4>   QED
            BY <2>1, <4>1 DEF Cancels, Leading, Last, InLog, Landed
    <3>9. Renames(mem') = {} => Out'
          OBVIOUS
    <3>   QED
          BY <3>3, <3>4, <3>6, <3>7, <3>8, <3>9 DEF OneKept
  <2>4. CASE ~past.replayed /\ Cancels(file.log) /\ Out
    <3>1. \A i \in InLog(file.log) : ~Landed(i)'
      <4>   SUFFICES ASSUME NEW i \in InLog(file.log), Landed(i)' PROVE FALSE
            OBVIOUS
      <4>1. i # 0 /\ ~Landed(i)
            BY <1>1, <2>4 DEF Cancels
      <4>2. ServerApplies /\ i = Head(up).id
            BY <4>1, LandedStays
      <4>3. i \in DOMAIN mem.log /\ mem.log[i].st \in OnWay
            BY <4>2, LandsOne
      <4>4. i \in Renames(mem) /\ i \in DOMAIN file.log
            BY <1>1, <4>3 DEF Kinds, InLog, Renames
      <4>   QED
            BY <2>4, <4>3, <4>4 DEF OnWay
    <3>2. Cancels(file.log)'
          BY <2>1, <2>4, <3>1 DEF Cancels, Leading, Last, InLog
    <3>3. ASSUME NEW i \in Renames(mem'), i \in DOMAIN file.log
          PROVE  mem'.log[i].st = "queued" /\ mem'.flow.listing # "done"
      <4>1. CASE Refresh
        <5>1. mem.flow.listing = "read"
              BY <1>1, <4>1, RefreshGoes
        <5>2. CASE mem.count # mem.flow.renames /\ mem'.log = mem.log
              BY <2>4, <3>3, <5>1, <5>2 DEF NoneQueued, Looking, Renames
        <5>3. ASSUME mem.count = mem.flow.renames,
                     NEW x \in Renames(mem), NEW y \in Renames(mem), Kept(mem.log, mem'.log, x, y)
              PROVE  FALSE
          <6>1. InLog(file.log) = Renames(mem)
                /\ \A z \in Renames(mem) : file.log[z].from = mem.log[z].from /\ file.log[z].to = mem.log[z].to
                BY <5>1, <5>3 DEF FileKept, Looking
          <6>2. Leading(file.log, x) /\ Last(file.log, y)
                BY <1>2, <5>3, <6>1 DEF Kept, Leading, Last
          <6>3. x # y /\ file.log[x].from = file.log[y].to
                BY <2>4, <5>3, <6>1, <6>2 DEF Cancels
          <6>   QED
                BY <5>3, <6>1, <6>3 DEF Kept
        <5>   QED
              BY <1>1, <3>3, <4>1, <5>2, <5>3, RefreshLog DEF OneKept
      <4>2. CASE UserRenames
        <5>1. i \in Renames(mem) /\ mem'.log[i] = mem.log[i]
              BY <1>1, <3>3, <4>2, NewIsLast, OpTyped
        <5>2. mem'.flow = mem.flow
              BY <1>1, <4>2, UserRenamesAdds DEF Adds
        <5>   QED
              BY <2>4, <3>3, <5>1, <5>2
      <4>3. CASE Send \/ Resend
        <5>1. Fields /\ mem'.flow = mem.flow
              BY <1>1, <4>3, SendsOne DEF Mems0
        <5>2. i \in Renames(mem) /\ i \in DOMAIN mem.log
              BY <3>3, <5>1 DEF Fields, Renames
        <5>3. mem.log[i].st = "queued" /\ mem.flow.listing # "done"
              BY <2>4, <3>3, <5>2
        <5>4. PICK x \in DOMAIN mem.log : Sends(x)
              BY <1>1, <4>3, SendsOne
        <5>5. i # x
              BY <5>3, <5>4 DEF Sends, Entering
        <5>   QED
              BY <5>1, <5>2, <5>3, <5>4, <5>5 DEF Sends
      <4>4. CASE Drops
        <5>1. /\ Fields /\ mem'.flow.listing = "none"
              /\ \A x \in DOMAIN mem.log : mem.log[x].st = "queued" => mem'.log[x].st = "queued"
              BY <1>1, <4>4, DropsGoes DEF Flowless, OnWay
        <5>2. i \in Renames(mem) /\ i \in DOMAIN mem.log
              BY <3>3, <5>1 DEF Fields, Renames
        <5>   QED
              BY <2>4, <3>3, <5>1, <5>2
      <4>5. CASE Crash
            BY <1>1, <3>3, <4>5, CrashGoes DEF Flowless, Noted
      <4>6. CASE FewerNow /\ ~Refresh
        <5>1. i \in Renames(mem) /\ mem'.log[i].st = mem.log[i].st
              BY <3>3, <4>6 DEF FewerNow
        <5>2. mem'.flow.listing = "done" => mem.flow.listing = "done"
              BY <4>6, ListingStays
        <5>   QED
              BY <2>4, <3>3, <5>1, <5>2
      <4>   QED
            BY <4>1, <4>2, <4>3, <4>4, <4>5, <4>6, RenamesSteps
    <3>   QED
          BY <2>1, <3>2, <3>3
  <2>   QED
        BY <2>2, <2>3, <2>4 DEF FileEnds
<1>   QED
      BY <1>3, <1>4


-----------------------------------------------------------------------------
(* What is on its way to bring the names together.                         *)

\* The user's rename is one that has not landed.
LEMMA NewUnlanded == ASSUME CInv, UserRenames PROVE Unlanded'
<1>   DEFINE new == made + 1
<1>1. new \in Renames(mem') /\ ~Landed(new)
      BY NewIsLast
<1>2. project' = project
      BY UserRenamesAdds DEF CInv, Adds
<1>   HIDE DEF new
<1>3. ~\E k \in DOMAIN project'.journal : project'.journal[k].id = new
      BY <1>1, <1>2 DEF Landed
<1>   QED
      BY <1>1, <1>3 DEF Unlanded, Landed

\* A rename that has not landed is on until the server has it, but for a collapsed chain.
LEMMA UnlandedStays ==
    ASSUME CInv, Noted, Plain, Asked, NoneQueued, LandInTurn(mem.log), AckComing, InLine,
           [CatchUpNext]_cvars, ~Crash, ~ServerApplies, Unlanded,
           Refresh => mem.count # mem.flow.renames
    PROVE  Unlanded'
<1>1. Shaped /\ Renames(mem) \subseteq DOMAIN mem.log /\ 0 \notin DOMAIN mem.log
      BY OpTyped DEF CInv
<1>2. PICK i \in Renames(mem) : ~Landed(i)
      BY DEF Unlanded
<1>3. ~Landed(i)'
      BY <1>1, <1>2, LandedStays
<1>   SUFFICES ASSUME ~UserRenames PROVE i \in Renames(mem')
      BY <1>3, NewUnlanded DEF Unlanded
<1>4. CASE SameRenames
      BY <1>4 DEF SameRenames
<1>5. CASE Refresh
  <2>1. mem'.log = mem.log
        BY <1>1, <1>5, RefreshLog
  <2>   QED
        BY <2>1 DEF Renames
<1>6. ASSUME NEW x, TakesOut(x) PROVE i \in Renames(mem')
      BY <1>2, <1>6 DEF TakesOut, LeaveLog
<1>7. CASE Send \/ Resend \/ Drops
  <2>1. Fields
        BY <1>1, <1>7, SendsOne, DropsGoes
  <2>   QED
        BY <2>1 DEF Fields, Renames
<1>   QED
      BY <1>4, <1>5, <1>6, <1>7, RenamesSteps

\* When the server has the last of them, it has the file's name.
LEMMA LastLands ==
    ASSUME CInv, Turns, MemEnds, ~past.replayed, ServerApplies, [CatchUpNext]_cvars, Unlanded
    PROVE  Unlanded' \/ at' = project'.at
<1>1. Shaped /\ Renames(mem) \subseteq DOMAIN mem.log /\ 0 \notin DOMAIN mem.log /\ Renames(mem) \subseteq Nat
      BY OpTyped DEF CInv
<1>   DEFINE x == Head(up).id
<1>2. /\ mem' = mem /\ at' = at /\ mem.log[x].st \in OnWay /\ x \in DOMAIN mem.log
      /\ project'.at = (IF mem.log[x].kind = "rename" THEN mem.log[x].to ELSE project.at)
      BY LandsOne
<1>3. \A i \in Renames(mem) : ~Landed(i) /\ i # x => Unlanded'
  <2>   SUFFICES ASSUME NEW i \in Renames(mem), ~Landed(i), i # x PROVE Unlanded'
        OBVIOUS
  <2>1. i # 0 /\ i # Head(up).id
        BY <1>1
  <2>2. ~Landed(i)'
        BY <2>1, LandedStays
  <2>   QED
        BY <1>2, <2>2 DEF Unlanded
<1>   HIDE DEF x
<1>   SUFFICES ASSUME \A i \in Renames(mem) : Landed(i) \/ i = x
      PROVE  at' = project'.at
      BY <1>3
<1>4. x \in Renames(mem) /\ ~Landed(x)
      BY DEF Unlanded
<1>5. Last(mem.log, x)
  <2>   SUFFICES ASSUME NEW j \in Renames(mem), ~(j <= x) PROVE FALSE
        BY <1>4 DEF Last, InLog, Renames
  <2>1. Landed(j) /\ x < j
        BY <1>1, <1>4
  <2>2. Landed(x)
        BY <1>4, <2>1 DEF Turns, LandInTurn, InLog, Renames, Landed, RowIs
  <2>   QED
        BY <1>4, <2>2
<1>6. Ends(mem.log, at)
      BY <1>2, <1>4 DEF MemEnds, Cancels, InLog, Renames, OnWay
<1>   QED
      BY <1>2, <1>4, <1>5, <1>6 DEF Ends, InLog, Renames

\* What comes, or is being applied, is a teammate's rename.
LEMMA MatesStay ==
    ASSUME CInv, Held, Mates, [CatchUpNext]_cvars
    PROVE  Mates'
<1>1. Shaped
      BY DEF CInv
<1>2. \A k \in DOMAIN project.journal : k \in DOMAIN project'.journal /\ project'.journal[k] = project.journal[k]
      BY LandedStays
<1>3. MateRows \subseteq MateRows'
      BY <1>2 DEF MateRows
<1>4. \A k \in MateRows' : project'.journal[k].kind = "rename"
  <2>1. CASE TeammateRenames
    <3>1. PICK row \in Rows : Goes(row) /\ row.kind = "rename"
          BY <1>1, <2>1, TeammateGoes
    <3>   DEFINE new == Len(project.journal) + 1
    <3>2. new \in DOMAIN project'.journal /\ project'.journal[new] = row
          BY <3>1 DEF Goes, Grows
    <3>3. MateRows' \subseteq MateRows \cup {new}
          BY MatesStep
    <3>   HIDE DEF new
    <3>   QED
          BY <1>2, <3>1, <3>2, <3>3 DEF Mates, MateRows
  <2>2. CASE MateRows' = MateRows
        BY <1>2, <2>2 DEF Mates, MateRows
  <2>   QED
        BY <2>1, <2>2, MatesStep
<1>5. ASSUME NEW k, Coming(k)' \/ AtWork(k)' PROVE k \in MateRows'
  <2>1. CASE TeammateRenames /\ k = Len(project.journal) + 1
        BY <2>1, MatesStep
  <2>2. CASE Coming(k) \/ AtWork(k)
        BY <1>3, <2>2 DEF Mates
  <2>   QED
        BY <1>5, <2>1, <2>2, ComingFrom, AtWorkFrom
<1>   QED
      BY <1>4, <1>5 DEF Mates

\* Whose broadcast is applied has the last name, or a later broadcast comes behind it.
LEMMA LaterComes ==
    ASSUME CInv, Entering, Named, Held, InLine, Mates, Closed, Joined, ~Refused, MoveLive, [CatchUpNext]_cvars,
           Head(mem.handlers).count = mem.count
    PROVE  Settling'
<1>   DEFINE h == Head(mem.handlers)
             k == h.row
<1>1. Shaped
      BY DEF CInv
<1>2. /\ mem.handlers # <<>> /\ mem'.handlers = Tail(mem.handlers) /\ mem'.count = mem.count
      /\ at' = project.journal[k].to /\ UNCHANGED <<project, down>>
  <2>1. at' = (IF h.count = mem.count /\ project.journal[k].to # at THEN project.journal[k].to ELSE at)
        BY <1>1, MoveLiveGoes
  <2>   QED
        BY <1>1, <2>1, MoveLiveAlso, MoveLiveGoes
<1>3. 1 \in DOMAIN mem.handlers /\ mem.handlers[1] = h /\ k \in DOMAIN project.journal
  <2>1. 1 \in DOMAIN mem.handlers /\ mem.handlers[1] = h
        BY <1>1, <1>2, MemNamed DEF Mems, Handlers
  <2>   QED
        BY <2>1, RowsAre
<1>4. InHand(k) /\ AtWork(k)
      BY <1>3 DEF InHand, AtWork
<1>5. Untouched(k) /\ k \in MateRows /\ project.room
  <2>1. mem.handlers # <<>> /\ JoinsUp = {}
        BY <1>2 DEF Entering
  <2>   QED
        BY <1>3, <1>4, <2>1 DEF Held, Mates, Entering
<1>   HIDE DEF h
<1>6. PICK l : Latest(l)
  <2>1. k \in RenameRows
        BY <1>5 DEF Mates, MateRows, RenameRows
  <2>2. /\ RenameRows \subseteq 1..Len(project.journal) /\ Len(project.journal) \in Nat
        BY <1>1, Places DEF RenameRows
  <2>3. PICK i \in RenameRows : \A j \in RenameRows : i >= j
        BY <2>1, <2>2, GreatestExists
  <2>   QED
        BY <2>2, <2>3 DEF Latest
<1>7. CASE l = k
      BY <1>2, <1>6, <1>7 DEF Settling, Named, Latest
<1>8. CASE l # k
  <2>1. l \in RenameRows /\ l \in DOMAIN project.journal /\ l > k
        BY <1>1, <1>3, <1>5, <1>6, <1>8, Places DEF Latest, RenameRows, Mates, MateRows
  <2>2. l \in MateRows
        BY <1>5, <2>1 DEF Untouched, OwnAfter, RenameRows, MateRows
  <2>3. Coming(l) \/ InHand(l)
        BY <1>3, <1>4, <1>5, <2>1, <2>2 DEF Closed
  <2>4. Coming(l) => Coming(l)'
        BY <1>2 DEF Coming
  <2>5. InHand(l) => InHand(l)' \/ Crash \/ UserRenames
        BY <1>8, AtWorkLeft DEF h
  <2>6. Latest(l)' /\ l \in RenameRows'
        BY <1>2, <1>6 DEF Latest, RenameRows
  <2>7. InHand(l) => InHand(l)'
    <3>1. ~Crash /\ ~UserRenames
      <4>1. UserRenames => mem'.handlers = mem.handlers
            BY <1>1, UserRenamesAdds DEF Adds
      <4>2. mem.handlers # Tail(mem.handlers)
            BY <1>1, <1>2, MemNamed DEF Mems, Handlers
      <4>3. Crash => mem'.handlers = <<>> /\ mem'.flow.step = "off"
            BY <1>1, CrashGoes DEF Flowless
      <4>4. mem'.flow.step # "off"
            BY <1>1, MoveLiveGoes DEF Joined
      <4>   QED
            BY <1>2, <4>1, <4>2, <4>3, <4>4
    <3>   QED
          BY <2>5, <3>1
  <2>   QED
        BY <2>3, <2>4, <2>6, <2>7 DEF Settling
<1>   QED
      BY <1>7, <1>8

\* Unless one of the user's lands, or the teammate renames it, the last rename is what it was.
LEMMA LatestStays ==
    ASSUME CInv, ~Unlanded, ~TeammateRenames, [CatchUpNext]_cvars
    PROVE  /\ project'.at = project.at /\ \A k : Latest(k) => Latest(k)'
           /\ \A k \in RenameRows : k \in RenameRows' /\ project'.journal[k] = project.journal[k]
<1>1. Shaped
      BY DEF CInv
<1>2. CASE project'.journal = project.journal /\ project'.at = project.at
      BY <1>2 DEF Latest, RenameRows
<1>3. CASE ServerApplies
  <2>1. Head(up).id \in DOMAIN mem.log /\ ~Landed(Head(up).id)
        BY <1>3, LandsOne
  <2>2. mem.log[Head(up).id].kind # "rename"
        BY <2>1 DEF Unlanded, Renames
  <2>3. PICK row \in Rows : Goes(row) /\ row.kind = mem.log[Head(up).id].kind
        BY <1>3, LandsOne
  <2>4. project'.at = project.at
        BY <1>3, <2>2, LandsOne
  <2>   DEFINE new == Len(project.journal) + 1
  <2>5. /\ new \in DOMAIN project'.journal /\ project'.journal[new] = row
        /\ \A k \in DOMAIN project.journal : k \in DOMAIN project'.journal /\ project'.journal[k] = project.journal[k]
        /\ \A k \in DOMAIN project'.journal : k \in DOMAIN project.journal \/ k = new
        BY <2>3 DEF Goes, Grows
  <2>   HIDE DEF new
  <2>6. RenameRows' = RenameRows
        BY <2>2, <2>3, <2>5 DEF RenameRows
  <2>   QED
        BY <2>4, <2>5, <2>6 DEF Latest, RenameRows
<1>   QED
      BY <1>2, <1>3, JournalNames

\* What the server has last while the room hears it, or a new rename is out, comes or is met; or
\* it is in the catch-up.
LEMMA MateSettles ==
    ASSUME CInv, Noted, Plain, OneJoin, Entering, ListedName, Asked, NoneQueued, LandInTurn(mem.log), AckComing,
           InLine, NewOut, Joined, ~Refused, TeammateRenames, [CatchUpNext]_cvars,
           RenamedHere \/ mem.flow.listing = "done"
    PROVE  Settling' \/ (~RenamedHere /\ \E k \in RenameRows' : Latest(k)' /\ Due(k)')
<1>1. Shaped /\ RowsThere
      BY DEF CInv
<1>2. PICK new \in Nat : new = Len(project.journal) + 1
      BY <1>1, Places
<1>3. PICK row \in Rows : Goes(row) /\ row.id = 0 /\ row.kind = "rename"
      BY <1>1, TeammateGoes
<1>4. /\ new \in DOMAIN project'.journal /\ project'.journal[new] = row
      /\ \A k \in DOMAIN project'.journal : k \in DOMAIN project.journal \/ k = new
      BY <1>3, <1>2 DEF Goes, Grows
<1>5. /\ UNCHANGED <<mem, up, past>>
      /\ down' = IF project.room THEN Append(down, [type |-> "renamed", row |-> new]) ELSE down
      BY <1>1, <1>2, TeammateGoes
<1>6. Len(project.journal) \in Nat /\ \A k \in DOMAIN project.journal : k <= new /\ k # new
      BY <1>1, <1>2, Places
<1>7. \A n \in Numbered : down[n].row # new
      BY <1>6, RowsAre
<1>8. \A n \in DOMAIN mem.handlers : mem.handlers[n].row # new
      BY <1>6, RowsAre
<1>   DEFINE d == [type |-> "renamed", row |-> new]
<1>9. project.room => Len(down) + 1 \in DOMAIN down' /\ down'[Len(down) + 1] = d
      BY <1>1, <1>5 DEF Shaped
<1>10. d.type = "renamed" /\ d.row = new
      OBVIOUS
<1>11. new \in mem.applied => FALSE
      BY <1>1, <1>6 DEF RowsThere
<1>12. mem.flow.listing = "done" => new > mem.flow.read
      BY <1>1, <1>6, <1>2, MemNamed DEF ListedName, Mems, Flows
<1>   HIDE DEF d
<1>13. Latest(new)' /\ new \in RenameRows' /\ new \in MateRows'
  <2>1. new \in RenameRows' /\ new \in MateRows'
        BY <1>3, <1>4 DEF RenameRows, MateRows
  <2>   QED
        BY <1>4, <1>6, <2>1 DEF Latest, RenameRows
<1>14. CASE project.room
  <2>1. Coming(new)'
        BY <1>9, <1>10, <1>14 DEF Coming
  <2>   QED
        BY <1>13, <2>1 DEF Settling
<1>15. CASE ~project.room
  <2>1. JoinsUp # {} /\ mem.flow.step = "gather"
        BY <1>15 DEF Entering, OneJoin, JoinOut
  <2>2. CASE RenamedHere
    <3>1. Unlanded
          BY <2>1, <2>2 DEF NewOut
    <3>2. ~ServerApplies /\ ~Refresh /\ ~Crash
      <4>1. project'.journal # project.journal
            BY <1>4, <1>6
      <4>2. Refresh \/ Crash => project'.journal = project.journal
            BY <1>1, RefreshGoes, CrashGoes DEF Disconnects
      <4>3. ServerApplies => JoinsUp = {}
            BY JoinsUpStay DEF Entering, JoinFirst
      <4>   QED
            BY <2>1, <4>1, <4>2, <4>3
    <3>3. Unlanded'
          BY <3>1, <3>2, UnlandedStays
    <3>   QED
          BY <3>3 DEF Settling
  <2>3. CASE ~RenamedHere
    <3>1. mem.flow.listing = "done" /\ ~mem.flow.here
          BY <2>3 DEF RenamedHere
    <3>2. ~Coming(new)' /\ ~AtWork(new)'
          BY <1>5, <1>7, <1>8, <1>15 DEF Coming, AtWork, Numbered
    <3>3. Due(new)'
          BY <1>5, <1>11, <1>12, <1>13, <2>1, <3>1, <3>2 DEF Due
    <3>   QED
          BY <2>3, <1>13, <3>3
  <2>   QED
        BY <2>2, <2>3
<1>   QED
      BY <1>14, <1>15

\* While no rename of the user's is out, the broadcast of the last rename that is taken up is
\* applied next: an answer of a later one of the user's would come behind it.
LEMMA TakenInHand ==
    ASSUME CInv, Plain, Kinds, AckComing, InLine, Joined, ~Unlanded, Renamed,
           NEW k, Latest(k), Head(down).row = k
    PROVE  InHand(k)'
<1>1. Shaped /\ Renames(mem) \subseteq DOMAIN mem.log
      BY OpTyped DEF CInv
<1>2. /\ down # <<>> /\ Head(down).type = "renamed" /\ mem'.count = mem.count /\ down \in Seq(Answers)
      /\ mem.handlers \in Handlers /\ mem.count \in Nat
      BY <1>1, RenamedGoes, RenamedAlso, MemNamed DEF Shaped, Mems
<1>3. ~RenamePendingHere
  <2>   SUFFICES ASSUME NEW i \in Renames(mem) PROVE FALSE
        BY DEF RenamePendingHere
  <2>1. AckFor(i)
        BY DEF Unlanded, AckComing
  <2>2. PICK n \in DOMAIN down : down[n].type = "ack" /\ RowIs(down[n].row, i)
        BY <2>1 DEF AckFor
  <2>3. 1 \in DOMAIN down /\ down[1] = Head(down) /\ n \in Nat /\ n >= 1
        BY <1>2
  <2>4. 1 \in Numbered /\ n \in Numbered /\ 1 < n
        BY <1>2, <2>2, <2>3 DEF Numbered
  <2>5. k < down[n].row
        BY <2>3, <2>4 DEF InLine
  <2>6. down[n].row \in RenameRows
        BY <1>1, <2>2 DEF Kinds, RowIs, RenameRows, Renames
  <2>7. k \in Nat /\ down[n].row \in Nat
        BY <1>1, <2>6, Places DEF Latest, RenameRows
  <2>   QED
        BY <2>5, <2>6, <2>7 DEF Latest
<1>4. mem'.handlers = Append(mem.handlers, [row |-> k, count |-> mem.count])
      BY <1>1, <1>3, RenamedAlso
<1>5. Len(mem.handlers) + 1 \in DOMAIN mem'.handlers
      /\ mem'.handlers[Len(mem.handlers) + 1] = [row |-> k, count |-> mem.count]
      BY <1>2, <1>4 DEF Handlers
<1>   QED
      BY <1>2, <1>5 DEF InHand

\* What brings the names together goes on until they are.
LEMMA SettlingStays ==
    ASSUME CInv, Noted, Plain, Kinds, Entering, Named, Held, Asked, NoneQueued, Turns, AckComing, InLine,
           Mates, Closed, MemEnds, Joined, ~Refused, ~past.replayed, Settling, [CatchUpNext]_cvars,
           ~Drops, ~Crash, ~Refresh, ~TeammateRenames, ApplyRow => at' = at
    PROVE  Settling'
<1>1. Shaped /\ LandInTurn(mem.log)
      BY DEF CInv, Turns
<1>2. CASE Unlanded
  <2>1. CASE ServerApplies
        BY <1>2, <2>1, LastLands DEF Settling
  <2>2. CASE ~ServerApplies
        BY <1>1, <1>2, <2>2, UnlandedStays DEF Settling
  <2>   QED
        BY <2>1, <2>2
<1>3. CASE UserRenames
      BY <1>3, NewUnlanded DEF Settling
<1>4. CASE ~Unlanded /\ ~UserRenames
  <2>1. /\ project'.at = project.at /\ \A k : Latest(k) => Latest(k)'
        /\ \A k \in RenameRows : k \in RenameRows'
        BY <1>4, LatestStays
  <2>2. CASE MoveLive /\ Head(mem.handlers).count = mem.count
        BY <2>2, LaterComes
  <2>3. CASE at = project.at /\ ~(MoveLive /\ Head(mem.handlers).count = mem.count)
    <3>1. at' = at
          BY <1>1, <1>4, <2>3, StandsStill, MoveLiveGoes
    <3>   QED
          BY <2>1, <2>3, <3>1 DEF Settling
  <2>4. ASSUME NEW k \in RenameRows, Latest(k), Coming(k)
        PROVE  Settling'
    <3>1. Coming(k)' \/ InHand(k)'
          BY <1>4, <2>4, ComingLeft, TakenInHand
    <3>   QED
          BY <2>1, <2>4, <3>1 DEF Settling
  <2>5. ASSUME NEW k \in RenameRows, Latest(k), InHand(k), ~(MoveLive /\ Head(mem.handlers).count = mem.count)
        PROVE  Settling'
    <3>1. MoveLive => Head(mem.handlers).row # k
      <4>   SUFFICES ASSUME MoveLive, Head(mem.handlers).row = k PROVE FALSE
            OBVIOUS
      <4>1. 1 \in DOMAIN mem.handlers /\ mem.handlers[1] = Head(mem.handlers) /\ mem.handlers \in Handlers
            BY <1>1, MoveLiveAlso, MemNamed DEF Mems, Handlers
      <4>2. PICK n \in DOMAIN mem.handlers : mem.handlers[n].row = k /\ mem.handlers[n].count = mem.count
            BY <2>5 DEF InHand
      <4>3. n = 1 \/ 1 < n
            BY <4>1, <4>2 DEF Handlers
      <4>4. k \in Nat
            BY <1>1, Places DEF RenameRows
      <4>5. ~(1 < n)
            BY <4>1, <4>2, <4>4 DEF InLine
      <4>   QED
            BY <2>5, <4>1, <4>2, <4>3, <4>5
    <3>2. InHand(k)'
          BY <1>4, <2>5, <3>1, AtWorkLeft
    <3>   QED
          BY <2>1, <2>5, <3>2 DEF Settling
  <2>   QED
        BY <1>4, <2>2, <2>3, <2>4, <2>5 DEF Settling
<1>   QED
      BY <1>2, <1>3, <1>4

\* On the connection, with a join not refused, it was so before; but for the join going out.
LEMMA JoinedFrom ==
    ASSUME CInv, CInv', OneJoin, [CatchUpNext]_cvars, Joined', ~Refused', ~Join
    PROVE  /\ Joined /\ ~Refused /\ ~Drops /\ ~Crash
           /\ mem'.flow.step = mem.flow.step \/ Gather \/ FlowEnds
<1>1. Shaped
      BY DEF CInv
<1>2. ~Drops /\ ~Crash
      BY <1>1, DropsGoes, CrashGoes DEF Flowless, Joined
<1>3. Joined /\ (mem'.flow.step = mem.flow.step \/ Gather \/ FlowEnds)
      BY <1>2, FlowSteps DEF FlowStep, Joined
<1>   QED
      BY <1>2, <1>3, RefusedStays

\* A rename made since the join went out waits behind it, or is collapsed into one that does.
LEMMA NewOutStays ==
    ASSUME CInv, CInv', Noted, Plain, OneJoin, Entering, Asked, NoneQueued, LandInTurn(mem.log), AckComing,
           InLine, NewOut, [CatchUpNext]_cvars
    PROVE  NewOut'
<1>1. Shaped /\ JoinFirst /\ Unsent
      BY DEF CInv, Entering, JoinFirst
<1>   SUFFICES ASSUME Joined', ~Refused', JoinsUp' # {}, RenamedHere'
      PROVE  Unlanded'
      BY DEF NewOut
<1>2. ~Join
      BY <1>1, JoinGoes DEF RenamedHere, FlowGoes
<1>3. /\ Joined /\ ~Refused /\ ~Drops /\ ~Crash /\ JoinsUp # {} /\ ~ServerApplies
      BY <1>1, <1>2, JoinedFrom, JoinsUpStay
<1>4. mem.flow.step = "gather"
      BY <1>3 DEF OneJoin, JoinOut
<1>5. CASE UserRenames
      BY <1>5, NewUnlanded
<1>6. CASE ~UserRenames /\ RenamedHere
  <2>1. Unlanded
        BY <1>3, <1>6 DEF NewOut
  <2>2. Refresh => mem.count # mem.flow.renames
        BY <1>1, <1>6, RefreshGoes DEF RenamedHere, Looking
  <2>   QED
        BY <1>3, <2>1, <2>2, UnlandedStays
<1>7. CASE ~UserRenames /\ ~RenamedHere
  <2>1. mem'.count = mem.count
        BY <1>3, <1>7, CountStays
  <2>2. ~Looking'
    <3>1. Looking' => Looking /\ mem'.flow.renames = mem.flow.renames
          BY <1>2, LookingFrom
    <3>2. Looking' => mem'.count # mem'.flow.renames
          BY DEF RenamedHere, Looking
    <3>   QED
          BY <1>7, <2>1, <3>1, <3>2 DEF RenamedHere
  <2>3. mem'.flow.listing = "done" /\ mem'.flow.here
        BY <2>2 DEF RenamedHere
  <2>4. Refresh /\ mem.flow.listing = "read"
        BY <1>7, <2>3, ListingStays DEF RenamedHere
  <2>5. mem.count = mem.flow.renames /\ Here(mem'.log) /\ project' = project
        BY <1>1, <1>7, <2>3, <2>4, RefreshGoes DEF RenamedHere, Looking
  <2>6. /\ \A i \in Renames(mem) : mem.log[i].st = "queued"
        /\ \E i \in Renames(mem) : i \in Renames(mem')
    <3>1. (\A i \in Renames(mem) : mem.log[i].st = "queued") /\ OneKept
          BY <1>1, <2>4, <2>5, RefreshLog
    <3>2. Renames(mem') # {}
          BY <2>1, <2>5 DEF Here, Renames
    <3>   QED
          BY <3>1, <3>2 DEF OneKept, Kept, InLog, Renames
  <2>7. PICK i \in Renames(mem) : i \in Renames(mem') /\ mem.log[i].st = "queued"
        BY <2>6
  <2>8. ~Landed(i)
        BY <1>1, <1>4, <2>7 DEF Unsent, Renames
  <2>   QED
        BY <2>5, <2>7, <2>8 DEF Unlanded, Landed
<1>   QED
      BY <1>5, <1>6, <1>7

\* A rename made while the listing is awaited: the names are brought together without it.
LEMMA MatchedBeforeStays ==
    ASSUME CInv, CInv', Noted, Plain, OneJoin, Kinds, Entering, Named, ListedName, Held, Asked, NoneQueued,
           Turns, AckComing, InLine, Mates, Closed, MemEnds, NewOut, MatchedBefore, [CatchUpNext]_cvars
    PROVE  MatchedBefore'
<1>1. Shaped /\ LandInTurn(mem.log) /\ Stages /\ Stages'
      BY DEF CInv, Turns
<1>   SUFFICES ASSUME Looking', ~Refused', ~past'.replayed, mem'.count # mem'.flow.renames
      PROVE  Settling'
      BY DEF MatchedBefore
<1>2. ~Join
      BY <1>1, JoinGoes DEF FlowGoes
<1>3. /\ Looking /\ mem'.flow.renames = mem.flow.renames /\ ~Refresh /\ ~Drops /\ ~Crash
      /\ mem.flow.step = "gather"
      BY <1>2, LookingFrom
<1>4. Joined' /\ Joined
      BY <1>1, <1>3 DEF Joined, Looking, Stages
<1>5. ~Refused /\ ~ApplyRow
      BY <1>1, <1>3, <1>4, RefusedStays, ApplyGoes
<1>6. ~past.replayed
      BY <1>3, <1>5, StandsStill
<1>7. CASE UserRenames
      BY <1>7, NewUnlanded DEF Settling
<1>8. CASE ~UserRenames
  <2>1. mem.count # mem.flow.renames
        BY <1>3, <1>8, CountStays
  <2>2. Settling
        BY <1>3, <1>5, <1>6, <2>1 DEF MatchedBefore
  <2>3. CASE TeammateRenames
    <3>1. RenamedHere
          BY <1>3, <2>1 DEF RenamedHere
    <3>   QED
          BY <1>1, <1>4, <1>5, <2>3, <3>1, MateSettles
  <2>4. CASE ~TeammateRenames
        BY <1>3, <1>4, <1>5, <1>6, <2>2, <2>4, SettlingStays
  <2>   QED
        BY <2>3, <2>4
<1>   QED
      BY <1>7, <1>8

\* Only a broadcast that is taken up or applied adds to what was applied live.
LEMMA AppliedFrom ==
    ASSUME CInv, Plain, [CatchUpNext]_cvars, ~Renamed, ~MoveLive, ~Crash
    PROVE  mem'.applied \subseteq mem.applied
<1>1. Shaped
      BY DEF CInv
<1>2. CASE UserRenames
      BY <1>1, <1>2, UserRenamesAdds DEF Adds
<1>3. CASE UserChanges \/ Answered \/ AnswerRecorded \/ SettleLanded \/ LandedLeaves \/ Send \/ Resend
      BY <1>1, <1>3, UserChangesSame, AnsweredLeaves, RecordedSame, SettlingLeaves, SendsOne DEF Mems0
<1>4. CASE \/ Write \/ Connects \/ JoinAgain \/ StatusAnswered \/ Join \/ ListingRead
           \/ JoinAnswered \/ Gather \/ Refresh \/ Drops \/ ApplyRow \/ FlowEnds
      BY <1>1, <1>4, StartsOver, StatusGoes, JoinGoes, ListingGoes,
         JoinedGoes, GatherGoes, RefreshGoes, DropsGoes, ApplyGoes, EndsGoes DEF Write
<1>5. CASE ServerNext \/ UNCHANGED cvars
      BY <1>1, <1>5, LandsOne, TakesJoin, AnswersJoin, TeammateGoes DEF ServerNext, cvars
<1>   QED
      BY <1>2, <1>3, <1>4, <1>5 DEF CatchUpNext, ServerNext

\* And that was on its way, or being applied.
LEMMA AppliedWas ==
    ASSUME CInv, Plain, [CatchUpNext]_cvars, ~Crash, NEW k \in mem'.applied
    PROVE  k \in mem.applied \/ Coming(k) \/ AtWork(k)
<1>1. Shaped
      BY DEF CInv
<1>2. CASE Renamed
  <2>1. /\ down # <<>> /\ Head(down).type = "renamed" /\ mem'.applied \subseteq mem.applied \cup {Head(down).row}
        BY <1>1, <1>2, RenamedGoes, RenamedAlso
  <2>2. 1 \in DOMAIN down /\ down[1] = Head(down)
        BY <1>1, <2>1 DEF Shaped
  <2>   QED
        BY <2>1, <2>2 DEF Coming
<1>3. CASE MoveLive
  <2>1. /\ mem.handlers # <<>> /\ mem'.applied = mem.applied \cup {Head(mem.handlers).row}
        BY <1>1, <1>3, MoveLiveAlso
  <2>2. 1 \in DOMAIN mem.handlers /\ mem.handlers[1] = Head(mem.handlers)
        BY <1>1, <2>1, MemNamed DEF Mems, Handlers
  <2>   QED
        BY <2>1, <2>2 DEF AtWork
<1>   QED
      BY <1>2, <1>3, AppliedFrom

\* What of a teammate's was applied since the listing was read found a rename in the queue.
LEMMA PassedStays ==
    ASSUME CInv, CInv', Noted, Plain, Asked, LandInTurn(mem.log), AckComing, InLine, Passed,
           [CatchUpNext]_cvars
    PROVE  Passed'
<1>1. Shaped /\ RowsThere /\ Unsent
      BY DEF CInv
<1>   SUFFICES ASSUME mem'.flow.listing = "read", ~past'.outdated, mem'.count = mem'.flow.renames,
                      NEW k \in MateRows', k > mem'.flow.read, k \in mem'.applied
      PROVE  Renames(mem') # {}
      BY DEF Passed
<1>2. CASE ListingRead
  <2>1. mem'.flow.read = Len(project.journal) /\ project' = project /\ k \in DOMAIN project.journal
        BY <1>1, <1>2, ListingGoes DEF MateRows
  <2>   QED
        BY <1>1, <2>1, Places
<1>3. CASE ~ListingRead
  <2>1. mem.flow.listing = "read" /\ mem'.flow.read = mem.flow.read
        BY <1>3, ListingStays
  <2>2. ~Join
        BY <1>1, JoinGoes
  <2>3. /\ mem'.flow.renames = mem.flow.renames /\ ~Refresh /\ ~Drops /\ ~Crash
        /\ mem.flow.step = "gather"
        BY <2>2, LookingFrom DEF Looking
  <2>4. ~UserRenames
        BY <1>1, <2>1, <2>3, UserRenamesAdds, MemNamed DEF Adds, Asked, Mems, Flows
  <2>5. mem.count = mem.flow.renames
        BY <2>3, <2>4, CountStays
  <2>6. ~past.outdated
        BY <1>1, <1>3, <2>3, StandsStill, MoveLiveGoes
  <2>7. \A i \in Renames(mem) : mem.log[i].st = "queued"
        BY <2>1, <2>5 DEF Asked
  <2>8. Renames(mem') = Renames(mem)
    <3>1. CASE SameRenames
          BY <3>1 DEF SameRenames
    <3>2. CASE Send \/ Resend
      <4>1. Fields
            BY <1>1, <3>2, SendsOne
      <4>   QED
            BY <4>1 DEF Fields, Renames
    <3>3. ASSUME NEW x, TakesOut(x) PROVE FALSE
      <4>1. x \in DOMAIN mem.log /\ mem.log[x].st = "queued" /\ Landed(x)
            BY <2>7, <3>3 DEF TakesOut, Renames
      <4>   QED
            BY <1>1, <2>3, <4>1 DEF Unsent
    <3>   QED
          BY <2>3, <2>4, <3>1, <3>2, <3>3, RenamesSteps
  <2>9. CASE k \in mem.applied
    <3>1. k \in MateRows
      <4>1. TeammateRenames => k # Len(project.journal) + 1
            BY <1>1, <2>9, Places DEF RowsThere
      <4>   QED
            BY <4>1, MatesStep
    <3>   QED
          BY <2>1, <2>5, <2>6, <2>8, <2>9, <3>1 DEF Passed
  <2>10. CASE k \notin mem.applied /\ Renamed
    <3>1. RenamePendingHere
          BY <1>1, <2>10, RenamedAlso
    <3>   QED
          BY <2>8, <3>1 DEF RenamePendingHere
  <2>11. CASE k \notin mem.applied /\ MoveLive
    <3>1. k = Head(mem.handlers).row
          BY <1>1, <2>11, MoveLiveAlso
    <3>   QED
          BY <1>1, <2>1, <2>11, <3>1, MoveLiveGoes
  <2>12. CASE k \notin mem.applied /\ ~Renamed /\ ~MoveLive
    <3>1. mem'.applied \subseteq mem.applied
          BY <1>1, <2>3, <2>12, AppliedFrom
    <3>   QED
          BY <2>12, <3>1
  <2>   QED
        BY <2>9, <2>10, <2>11, <2>12
<1>   QED
      BY <1>2, <1>3

\* The same broadcasts, the same rows and names: the names are brought together as before.
LEMMA SettlingSame ==
    ASSUME UNCHANGED <<down, project>>, mem'.log = mem.log, mem'.count = mem.count,
           mem'.handlers = mem.handlers, at' = at, Settling
    PROVE  Settling'
<1>1. Unlanded => Unlanded'
      BY DEF Unlanded, Landed, Renames
<1>   QED
      BY <1>1 DEF Settling, Latest, RenameRows, Coming, InHand

\* A journal with a rename has a last one.
LEMMA LatestExists ==
    ASSUME Shaped, RenameRows # {}
    PROVE  \E k \in RenameRows : Latest(k)
<1>1. RenameRows \subseteq 1..Len(project.journal) /\ Len(project.journal) \in Nat
      BY Places DEF RenameRows
<1>2. PICK i \in RenameRows : \A j \in RenameRows : i >= j
      BY <1>1, GreatestExists
<1>   QED
      BY <1>1, <1>2 DEF Latest

\* The refresh matches the names: by the listing, by a broadcast that comes, by a rename that is
\* still queued; or the catch-up has the last one.
LEMMA RefreshMatches ==
    ASSUME CInv, Noted, Plain, OneJoin, Entering, ListedName, Asked, Held, NoneQueued, InLine, Mates,
           MatchedBefore, Passed, Joined, ~Refused, Refresh, [CatchUpNext]_cvars,
           ~past'.replayed, ~past'.outdated
    PROVE  Settling' \/ \E k \in RenameRows' : Latest(k)' /\ Due(k)'
<1>1. Shaped /\ Unsent /\ Stages /\ RowsThere
      BY DEF CInv
<1>2. /\ UNCHANGED <<project, down>> /\ mem'.count = mem.count /\ mem'.handlers = mem.handlers
      /\ mem.flow.listing = "read" /\ mem'.flow.here = Here(mem'.log) /\ mem'.flow.read = mem.flow.read
      /\ at' = (IF ~Here(mem'.log) /\ mem.flow.listed # at THEN mem.flow.listed ELSE at)
      /\ past'.replayed = (past.replayed /\ Here(mem'.log)) /\ mem'.applied = mem.applied
      /\ mem'.flow.step = mem.flow.step
      /\ past'.outdated = (past.outdated \/ (/\ Renames(mem) # {} /\ InLog(mem'.log) = {}
                                             /\ \E j \in mem.applied : j > mem.flow.read))
      BY <1>1, RefreshGoes
<1>3. mem.flow.step = "gather" /\ Looking
      BY <1>1, <1>2 DEF Stages, Looking
<1>4. CASE mem.count # mem.flow.renames /\ mem'.log = mem.log
  <2>1. Here(mem'.log)
        BY <1>4 DEF Here
  <2>2. at' = at /\ Settling
        BY <1>2, <1>3, <1>4, <2>1 DEF MatchedBefore
  <2>   QED
        BY <1>2, <1>4, <2>2, SettlingSame
<1>5. CASE mem.count = mem.flow.renames /\ (\A i \in Renames(mem) : mem.log[i].st = "queued") /\ OneKept
  <2>1. ASSUME NEW i \in Renames(mem), NEW j \in Renames(mem), Kept(mem.log, mem'.log, i, j)
        PROVE  Settling'
    <3>1. i \in Renames(mem') /\ i \in DOMAIN mem.log /\ mem.log[i].st = "queued"
          BY <1>5, <2>1 DEF Kept, InLog, Renames
    <3>2. ~Landed(i)
          BY <1>1, <1>3, <3>1 DEF Unsent
    <3>   QED
          BY <1>2, <3>1, <3>2 DEF Settling, Unlanded, Landed
  <2>2. CASE Renames(mem') = {}
    <3>1. InLog(mem'.log) = {} /\ ~Here(mem'.log)
          BY <1>5, <2>2 DEF InLog, Renames, Here
    <3>2. at' = mem.flow.listed /\ ~mem'.flow.here
          BY <1>2, <3>1
    <3>3. CASE \A k \in RenameRows : k <= mem.flow.read
      <4>1. project.at = mem.flow.listed
            BY <1>2, <3>3 DEF ListedName
      <4>   QED
            BY <1>2, <3>2, <4>1 DEF Settling
    <3>4. CASE \E k \in RenameRows : ~(k <= mem.flow.read)
      <4>1. PICK k \in RenameRows : ~(k <= mem.flow.read)
            BY <3>4
      <4>2. PICK l \in RenameRows : Latest(l)
            BY <1>1, <4>1, LatestExists
      <4>3. mem.flow.read \in Nat
            BY <1>1, MemNamed DEF Mems, Flows
      <4>4. l > mem.flow.read
        <5>1. k <= l /\ k \in Nat /\ l \in Nat
              BY <1>1, <4>1, <4>2, Places DEF Latest, RenameRows
        <5>   QED
              BY <4>1, <4>3, <5>1
      <4>5. l \in MateRows
        <5>1. ~OwnAfter(mem.flow.read)
              BY <1>2, <1>5 DEF Asked
        <5>   QED
              BY <4>2, <4>4, <5>1 DEF OwnAfter, RenameRows, MateRows
      <4>6. l \notin mem.applied
        <5>1. CASE Renames(mem) = {}
              BY <1>2, <1>5, <4>4, <4>5, <5>1 DEF Passed
        <5>2. CASE Renames(mem) # {}
              BY <1>2, <3>1, <4>4, <5>2
        <5>   QED
              BY <5>1, <5>2
      <4>7. Latest(l)' /\ l \in RenameRows' /\ l \in MateRows'
            BY <1>2, <4>2, <4>5 DEF Latest, RenameRows, MateRows
      <4>8. Coming(l)' = Coming(l) /\ AtWork(l)' = AtWork(l) /\ InHand(l)' = InHand(l)
            BY <1>2 DEF Coming, AtWork, InHand
      <4>9. CASE Coming(l)
            BY <4>7, <4>8, <4>9 DEF Settling
      <4>10. CASE AtWork(l)
        <5>1. PICK n \in DOMAIN mem.handlers : mem.handlers[n].row = l
              BY <4>10 DEF AtWork
        <5>2. mem.handlers[n].count >= mem.flow.renames /\ mem.handlers[n].count <= mem.count
              BY <5>1 DEF InLine, Held
        <5>3. mem.handlers[n].count \in Nat /\ mem.count \in Nat
              BY <1>1, <5>1, HandlerTyped, MemNamed DEF Mems
        <5>4. mem.handlers[n].count = mem.count
              BY <1>5, <5>2, <5>3
        <5>5. InHand(l)
              BY <5>1, <5>4 DEF InHand
        <5>   QED
              BY <4>7, <4>8, <5>5 DEF Settling
      <4>11. CASE ~Coming(l) /\ ~AtWork(l)
        <5>1. Due(l)'
              BY <1>2, <1>3, <3>2, <4>4, <4>6, <4>7, <4>8, <4>11 DEF Due
        <5>   QED
              BY <4>7, <5>1
      <4>   QED
            BY <4>9, <4>10, <4>11
    <3>   QED
          BY <3>3, <3>4
  <2>   QED
        BY <1>5, <2>1, <2>2 DEF OneKept
<1>   QED
      BY <1>1, <1>4, <1>5, RefreshLog

\* Where a row of the catch-up moves the file is its last name, or a later broadcast is on its way.
LEMMA RowMatches ==
    ASSUME CInv, OneJoin, Named, Refreshed, Remembered, Accounted, Mates, ~Refused,
           ApplyRow, at' # at, ~past'.replayed
    PROVE  Settling'
<1>   DEFINE k == Earliest(mem.flow.todo)
<1>1. Shaped /\ RowsThere
      BY DEF CInv
<1>2. /\ UNCHANGED <<project, down>> /\ mem.flow.step = "rows"
      /\ mem.handlers = <<>> /\ at' = project.journal[k].to
      /\ ~Skipped(k) /\ ~Unguarded(k)
  <2>1. ~Skipped(k) /\ ~Unguarded(k) /\ k \notin mem.flow.own
        BY <1>1, ApplyGoes
  <2>   QED
        BY <1>1, <2>1, ApplyGoes
<1>3. k \in mem.flow.todo /\ k \in DOMAIN project.journal
      BY <1>1, ApplyRowNamed DEF Applies
<1>   HIDE DEF k
<1>4. /\ k \notin mem.flow.had /\ ~mem.flow.here /\ project.journal[k].kind = "rename"
      /\ ~\E j \in CatchupRenames : j > k
      BY <1>2 DEF Skipped
<1>5. k \notin past.seen
  <2>1. k \in mem.flow.rows
        BY <1>1, <1>3 DEF CInv, RowsThere
  <2>   QED
        BY <1>2, <1>4, <2>1 DEF Remembered
<1>6. ~(k <= mem.flow.read) /\ (~\E j \in mem.applied : j > k) /\ mem.count = past.count
      BY <1>2, <1>5 DEF Unguarded
<1>7. mem.flow.listing = "done" /\ ~OwnAfter(mem.flow.read)
      BY <1>2, <1>4, <1>6 DEF Refreshed, Untouched
<1>8. PICK l \in RenameRows : Latest(l)
      BY <1>1, <1>3, <1>4, LatestExists DEF RenameRows
<1>9. k <= l /\ k \in Nat /\ l \in Nat /\ mem.flow.read \in Nat
      BY <1>1, <1>3, <1>4, <1>8, Places, MemNamed DEF Latest, RenameRows, Mems, Flows
<1>10. CASE l = k
      BY <1>2, <1>8, <1>10 DEF Named, Settling
<1>11. CASE l # k
  <2>1. l > k /\ l > mem.flow.read
        BY <1>6, <1>9, <1>11
  <2>2. l \in MateRows
        BY <1>7, <1>8, <2>1 DEF OwnAfter, RenameRows, MateRows
  <2>3. l \notin mem.flow.rows /\ l \notin mem.applied /\ ~AtWork(l)
        BY <1>2, <1>4, <1>6, <1>8, <2>1 DEF CatchupRenames, RenameRows, AtWork
  <2>4. JoinsUp = {} /\ project.join = <<>> /\ \A n \in DOMAIN down : down[n].type # "joined"
        BY <1>2 DEF OneJoin, JoinOut, JoinsDown
  <2>5. Coming(l)
        BY <1>2, <1>7, <2>1, <2>2, <2>3, <2>4 DEF Accounted
  <2>6. Coming(l)' /\ Latest(l)' /\ l \in RenameRows'
        BY <1>2, <1>8, <2>5 DEF Coming, Latest, RenameRows
  <2>   QED
        BY <2>6 DEF Settling
<1>   QED
      BY <1>10, <1>11

\* What is left of the catch-up is taken row by row.
LEMMA TodoStays ==
    ASSUME CInv, [CatchUpNext]_cvars, ~JoinAnswered, ~ApplyRow, ~Drops, ~Crash, ~Connects, ~JoinAgain
    PROVE  mem'.flow.todo = mem.flow.todo
<1>1. Shaped
      BY DEF CInv
<1>2. CASE UserRenames
      BY <1>1, <1>2, UserRenamesAdds DEF Adds
<1>3. CASE UserChanges \/ Answered \/ Renamed \/ MoveLive \/ Send \/ Resend
      BY <1>1, <1>3, UserChangesSame, AnsweredLeaves, RenamedGoes, MoveLiveGoes, SendsOne DEF Mems0
<1>4. CASE AnswerRecorded
      BY <1>1, <1>4, AnswerRecordedAlso
<1>5. CASE StatusAnswered \/ SettleLanded \/ LandedLeaves
      BY <1>1, <1>5, AsksLeave DEF Gathers
<1>6. CASE Join \/ ListingRead \/ Refresh \/ Gather \/ FlowEnds
      BY <1>1, <1>6, JoinGoes, ListingGoes, RefreshGoes, GatherGoes, EndsGoes DEF Gathers
<1>7. CASE Write \/ ServerNext \/ UNCHANGED cvars
      BY <1>1, <1>7, LandsOne, TakesJoin, AnswersJoin, TeammateGoes DEF ServerNext, cvars, Write
<1>   QED
      BY <1>2, <1>3, <1>4, <1>5, <1>6, <1>7 DEF CatchUpNext, ServerNext

\* The row of the last rename is not skipped while it is due.
LEMMA DueIsApplied ==
    ASSUME CInv, Kinds, Named, ListedName, GatheredAll, HadKnown, ApplyRow, at # project.at,
           mem.flow.listing = "done", NEW k \in RenameRows, Latest(k), Due(k), k = Earliest(mem.flow.todo)
    PROVE  at' = project.at
<1>1. Shaped /\ RowsThere
      BY DEF CInv
<1>2. /\ mem.flow.step = "rows"
      /\ k \notin mem.flow.own /\ ~Skipped(k) => at' = project.journal[k].to
      BY <1>1, ApplyGoes
<1>3. k \in mem.flow.todo /\ k \in DOMAIN project.journal /\ k \in mem.flow.rows
  <2>1. Applies(Earliest(mem.flow.todo))
        BY <1>1, ApplyRowNamed
  <2>2. k \in mem.flow.todo /\ k \in DOMAIN project.journal
        BY <2>1 DEF Applies
  <2>   QED
        BY <2>2 DEF CInv, RowsThere
<1>4. k \notin mem.flow.own
      BY DEF Kinds, Due, MateRows, Own
<1>5. project.at = project.journal[k].to
      BY DEF Named
<1>6. ~Skipped(k)
  <2>1. project.journal[k].kind = "rename" /\ k \notin mem.flow.had /\ project.journal[k].to # at /\ ~mem.flow.here
        BY <1>2, <1>5 DEF RenameRows, HadKnown, Due
  <2>2. ~\E j \in CatchupRenames : j > k
    <3>   SUFFICES ASSUME NEW j \in CatchupRenames, j > k PROVE FALSE
          OBVIOUS
    <3>1. j \in RenameRows
          BY DEF CInv, RowsThere, CatchupRenames, RenameRows
    <3>2. j <= k /\ j \in Nat /\ k \in Nat
          BY <1>1, <1>3, <3>1, Places DEF Latest, RenameRows
    <3>   QED
          BY <3>2
  <2>3. \E f \in CatchupRenames : project.journal[f].from = mem.flow.listed
    <3>   DEFINE S == {j \in RenameRows : j > mem.flow.read}
                 f == Earliest(S)
    <3>1. k \in S /\ S \subseteq Nat
          BY <1>1, Places DEF Due, RenameRows
    <3>2. f \in S /\ \A j \in S : f <= j
          BY <3>1, LeastExists
    <3>   HIDE DEF f
    <3>3. project.journal[f].from = mem.flow.listed
          BY <3>2 DEF ListedName
    <3>4. f \in DOMAIN project.journal /\ f <= k /\ mem.flow.read < f /\ f \in Nat /\ k \in Nat
      <4>1. mem.flow.read \in Nat
            BY <1>1, MemNamed DEF Mems, Flows
      <4>   QED
            BY <3>1, <3>2, <4>1 DEF RenameRows
    <3>5. f \in mem.flow.rows
      <4>1. CASE f = k
            BY <1>3, <4>1
      <4>2. CASE f # k
        <5>1. f < k
              BY <3>4, <4>2
        <5>2. Gathered(mem.flow.rows) /\ k > mem.flow.read
              BY DEF GatheredAll, Due
        <5>   QED
              BY <1>3, <3>4, <5>1, <5>2 DEF Gathered
      <4>   QED
            BY <4>1, <4>2
    <3>   QED
          BY <3>2, <3>3, <3>5 DEF CatchupRenames, RenameRows
  <2>   QED
        BY <2>1, <2>2, <2>3 DEF Skipped
<1>   QED
      BY <1>2, <1>4, <1>5, <1>6

\* A last rename the catch-up has is due until its row moves the file.
LEMMA DueStays ==
    ASSUME CInv, Plain, OneJoin, Kinds, Named, ListedName, Held, Remembered, GatheredAll, Accounted, HadKnown,
           Joined, ~Refused, mem.flow.listing = "done", ~TeammateRenames, ~Drops, ~Crash,
           NEW k \in RenameRows, Latest(k), Due(k), ~Settling, [CatchUpNext]_cvars
    PROVE  Settling' \/ (k \in RenameRows' /\ Latest(k)' /\ Due(k)')
<1>1. Shaped
      BY DEF CInv
<1>2. ~Unlanded /\ at # project.at
      BY DEF Settling
<1>3. /\ project'.at = project.at /\ Latest(k)' /\ k \in RenameRows' /\ MateRows' = MateRows
      BY <1>2, LatestStays, MatesStep
<1>4. ~Coming(k)' /\ ~AtWork(k)' /\ k \notin mem'.applied
      BY ComingFrom, AtWorkFrom, AppliedWas DEF Due
<1>5. ~Refresh /\ ~ListingRead /\ ~Join /\ ~Connects /\ ~JoinAgain
      BY <1>1, RefreshGoes, ListingGoes, JoinGoes, StartsOver DEF Due
<1>6. Lists
  <2>1. ~StatusAnswered /\ ~SettleLanded /\ ~LandedLeaves
        BY <1>1, StatusGoes, SettlingLeaves DEF Due
  <2>   QED
        BY <1>5, <2>1, FlowSteps DEF FlowStep
<1>7. ~FlowEnds
      BY <1>1, EndsGoes DEF Due
<1>8. /\ mem'.flow.step = mem.flow.step \/ (Gather /\ mem.flow.step = "gather" /\ mem.flow.join = "joined" /\ mem'.flow.step = "rows")
      /\ JoinAnswered => mem.flow.step = "gather"
  <2>1. JoinAnswered => mem.flow.step = "gather"
    <3>   SUFFICES ASSUME JoinAnswered PROVE mem.flow.step = "gather"
          OBVIOUS
    <3>1. down # <<>> /\ Head(down).type \in {"joined", "refused"}
          BY <1>1, JoinedGoes
    <3>2. 1 \in JoinsDown
          BY <1>1, <3>1 DEF JoinsDown, Shaped
    <3>   QED
          BY <3>2 DEF OneJoin, JoinOut
  <2>2. ~(Gather /\ mem.flow.join = "refused")
        BY DEF Refused
  <2>3. ~(mem'.flow.step \in {"ask", "settle"} /\ (Connects \/ JoinAgain \/ StatusAnswered \/ SettleLanded \/ LandedLeaves))
        BY <1>1, <1>5, StatusGoes, SettlingLeaves DEF Due
  <2>   QED
        BY <1>5, <1>7, <2>1, <2>2, <2>3, FlowSteps DEF FlowStep
<1>   SUFFICES ASSUME ~Settling', mem'.flow.step = "rows"
      PROVE  k \in mem'.flow.todo
      BY <1>3, <1>4, <1>6, <1>8 DEF Due, Lists
<1>9. CASE mem.flow.step = "rows"
  <2>1. k \in mem.flow.todo /\ ~JoinAnswered
        BY <1>8, <1>9 DEF Due
  <2>2. CASE ~ApplyRow
        BY <1>5, <2>1, <2>2, TodoStays
  <2>3. CASE ApplyRow
    <3>1. k # Earliest(mem.flow.todo)
      <4>   SUFFICES ASSUME k = Earliest(mem.flow.todo) PROVE FALSE
            OBVIOUS
      <4>1. at' = project'.at
            BY <1>2, <1>3, <2>3, DueIsApplied
      <4>   QED
            BY <4>1 DEF Settling
    <3>   QED
          BY <1>1, <2>1, <2>3, <3>1, ApplyGoes
  <2>   QED
        BY <2>2, <2>3
<1>10. CASE mem.flow.step # "rows"
  <2>1. Gather /\ mem.flow.step = "gather" /\ mem.flow.join = "joined"
        BY <1>8, <1>10
  <2>2. mem'.flow.todo = mem.flow.todo /\ mem.flow.todo = mem.flow.rows
        BY <1>1, <2>1, GatherGoes DEF Remembered
  <2>3. JoinsUp = {} /\ project.join = <<>> /\ \A n \in DOMAIN down : down[n].type # "joined"
        BY <2>1 DEF OneJoin, JoinOut, JoinsDown
  <2>4. k \in mem.flow.rows
        BY <2>1, <2>3 DEF Accounted, Due
  <2>   QED
        BY <2>2, <2>4
<1>   QED
      BY <1>9, <1>10

\* After the refresh, the names are the same, or brought together, or the catch-up has the last.
LEMMA MatchedAfterStays ==
    ASSUME CInv, CInv', Noted, Plain, OneJoin, Kinds, Entering, Named, ListedName, Held, Asked, NoneQueued,
           Turns, AckComing, InLine, Mates, Closed, MemEnds, Refreshed, Remembered, GatheredAll, Accounted,
           HadKnown, NewOut, MatchedBefore, Passed, MatchedAfter, [CatchUpNext]_cvars
    PROVE  MatchedAfter'
<1>1. Shaped /\ LandInTurn(mem.log)
      BY DEF CInv, Turns
<1>   SUFFICES ASSUME Joined', mem'.flow.listing = "done", ~Refused', ~past'.replayed, ~past'.outdated
      PROVE  Settling' \/ \E k \in RenameRows' : Latest(k)' /\ Due(k)'
      BY DEF MatchedAfter
<1>2. ~Join
      BY <1>1, JoinGoes
<1>3. Joined /\ ~Refused /\ ~Drops /\ ~Crash
      BY <1>2, JoinedFrom
<1>4. CASE Refresh
      BY <1>3, <1>4, RefreshMatches
<1>5. CASE ~Refresh
  <2>1. mem.flow.listing = "done" /\ ~ListingRead
        BY <1>1, <1>5, ListingStays, ListingGoes
  <2>2. ~past.replayed
    <3>1. ApplyRow => past'.replayed = (past.replayed \/
             (Earliest(mem.flow.todo) \notin mem.flow.own /\ ~Skipped(Earliest(mem.flow.todo))
               /\ Unguarded(Earliest(mem.flow.todo))))
          BY <1>1, ApplyGoes
    <3>   QED
          BY <1>5, <3>1, StandsStill
  <2>3. ~past.outdated
        BY <1>1, <1>5, <2>1, StandsStill, MoveLiveGoes
  <2>4. Settling \/ \E k \in RenameRows : Latest(k) /\ Due(k)
        BY <1>3, <2>1, <2>2, <2>3 DEF MatchedAfter
  <2>5. CASE TeammateRenames
        BY <1>1, <1>3, <2>1, <2>5, MateSettles
  <2>6. CASE ApplyRow /\ at' # at
        BY <1>3, <2>6, RowMatches
  <2>7. CASE ~TeammateRenames /\ ~(ApplyRow /\ at' # at) /\ Settling
        BY <1>3, <1>5, <2>2, <2>7, SettlingStays
  <2>8. CASE ~TeammateRenames /\ ~Settling
    <3>1. PICK k \in RenameRows : Latest(k) /\ Due(k)
          BY <2>4, <2>8
    <3>   QED
          BY <1>3, <2>1, <2>8, <3>1, DueStays
  <2>   QED
        BY <2>5, <2>6, <2>7, <2>8
<1>   QED
      BY <1>4, <1>5


-----------------------------------------------------------------------------
NamesInv == UndoneInv /\ NInv

\* The invariant holds at first.
LEMMA NamesAtFirst == CatchUpInit => NamesInv
<1>   SUFFICES ASSUME CatchUpInit PROVE NamesInv
      OBVIOUS
<1>1. UndoneInv
      BY UndoneAtFirst
<1>   DEFINE nothing == [log |-> <<>>, clock |-> <<0, 0>>, applied |-> {}, at |-> First]
<1>2. /\ mem = Started(nothing) /\ file = nothing /\ at = First
      /\ project = [at |-> First, journal |-> <<>>, room |-> FALSE, join |-> <<>>]
      /\ up = <<>> /\ down = <<>>
      BY DEF CatchUpInit
<1>3. mem = [log |-> <<>>, clock |-> <<0, 0>>, recorded |-> <<0, 0>>, applied |-> {},
             known |-> {}, count |-> 0, handlers |-> <<>>, flow |-> NoFlow]
      BY <1>2 DEF Started
<1>4. /\ mem.log = <<>> /\ mem.handlers = <<>> /\ mem.clock = <<0, 0>> /\ mem.known = {}
      /\ mem.flow.step = "off" /\ mem.flow.listing = "none"
      /\ mem.flow.own = {} /\ mem.flow.rows = {}
      BY <1>3 DEF NoFlow
<1>5. /\ DOMAIN mem.log = {} /\ DOMAIN mem.handlers = {} /\ DOMAIN up = {} /\ DOMAIN down = {}
      /\ DOMAIN file.log = {} /\ DOMAIN project.journal = {}
  <2>1. DOMAIN <<>> = {}
        OBVIOUS
  <2>2. up = <<>> /\ down = <<>> /\ file.log = <<>> /\ project.journal = <<>>
        BY <1>2
  <2>   QED
        BY <1>4, <2>1, <2>2
<1>6. file.clock = <<0, 0>> /\ project.join = <<>>
      BY <1>2
<1>7. /\ RenameRows = {} /\ MateRows = {} /\ JoinsUp = {} /\ Sent = {} /\ Numbered = {}
      /\ Renames(mem) = {} /\ InLog(mem.log) = {} /\ InLog(file.log) = {}
      BY <1>5 DEF RenameRows, MateRows, JoinsUp, Sent, Numbered, Renames, InLog
<1>8. ~Joined /\ ~Looking /\ \A k : ~Coming(k) /\ ~AtWork(k) /\ ~InHand(k)
      BY <1>4, <1>5 DEF Joined, Looking, Coming, AtWork, InHand
<1>9. Kinds /\ Entering /\ Named /\ ListedName /\ Mates /\ Closed
      BY <1>4, <1>5, <1>7, <1>8 DEF Kinds, Entering, Named, ListedName, Mates, Closed
<1>10. Turns /\ AckComing /\ InLine
      BY <1>4, <1>5, <1>7, <1>8
      DEF Turns, InTurn, Exclusive, UpInTurn, OutThere, LandInTurn, FileFollows, AckComing, AckFor, InLine
<1>11. Counters /\ JoinClocks
  <2>1. Cardinality(MateRows) = 0 /\ mem.clock[2] = 0 /\ file.clock[2] = 0
        BY <1>4, <1>6, <1>7, FS_EmptySet
  <2>   QED
        BY <1>5, <1>6, <1>7, <2>1 DEF Counters, JoinClocks
<1>12. GatheredAll /\ Accounted /\ HadKnown
      BY <1>4, <1>5 DEF GatheredAll, Gathered, Accounted, HadKnown
<1>13. MemEnds /\ FileEnds /\ FileKept /\ NoneQueued
      BY <1>7, <1>8 DEF MemEnds, FileEnds, Ends, FileKept, NoneQueued
<1>14. NewOut /\ MatchedBefore /\ MatchedAfter /\ Passed
      BY <1>4, <1>8 DEF NewOut, MatchedBefore, MatchedAfter, Passed
<1>   QED
      BY <1>1, <1>9, <1>10, <1>11, <1>12, <1>13, <1>14 DEF NamesInv, NInv

\* Every step keeps it.
LEMMA NamesNextKeeps == NamesInv /\ [CatchUpNext]_cvars => NamesInv'
<1>   SUFFICES ASSUME NamesInv, [CatchUpNext]_cvars PROVE NamesInv'
      OBVIOUS
<1>1. UndoneInv'
      BY UndoneNextKeeps DEF NamesInv
<1>2. /\ CInv /\ Noted /\ OneJoin /\ CInv' /\ OneJoin'
      /\ Plain /\ Quiet /\ Held /\ Asked /\ Refreshed /\ Remembered
      BY <1>1 DEF NamesInv, UndoneInv, CatchUpInv, UInv
<1>3. /\ Kinds /\ Entering /\ Named /\ ListedName /\ Turns /\ AckComing /\ InLine /\ Mates /\ Closed
      /\ Counters /\ JoinClocks /\ GatheredAll /\ Accounted /\ HadKnown
      /\ MemEnds /\ FileEnds /\ FileKept /\ NoneQueued
      /\ NewOut /\ MatchedBefore /\ MatchedAfter /\ Passed /\ LandInTurn(mem.log)
      BY DEF NamesInv, NInv, Turns
<1>4. Kinds' /\ Entering' /\ Named' /\ ListedName'
      BY <1>2, <1>3, KindsStay, EnteringStays, NamedStays, ListedNameStays
<1>5. Turns' /\ AckComing' /\ InLine'
      BY <1>2, <1>3, <1>4, TurnsStay, AckComingStays, InLineStays
<1>6. Mates' /\ Closed' /\ Counters' /\ JoinClocks'
      BY <1>2, <1>3, MatesStay, ClosedStays, CountersStay, JoinClocksStay
<1>7. GatheredAll' /\ Accounted' /\ HadKnown'
      BY <1>2, <1>3, GatheredStays, AccountedStays, HadStays
<1>8. MemEnds' /\ FileEnds' /\ FileKept' /\ NoneQueued'
      BY <1>2, <1>3, MemEndsStays, FileEndsStays, FileKeptStays, NoneQueuedStays
<1>9. NewOut' /\ MatchedBefore' /\ MatchedAfter' /\ Passed'
      BY <1>2, <1>3, NewOutStays, MatchedBeforeStays, MatchedAfterStays, PassedStays
<1>   QED
      BY <1>1, <1>4, <1>5, <1>6, <1>7, <1>8, <1>9 DEF NamesInv, NInv

\* NamesInv holds in every state of every behaviour, for any names and allowances.
THEOREM NamesInvariant == CatchUpSpec => []NamesInv
BY NamesAtFirst, NamesNextKeeps, PTL DEF CatchUpSpec

\* When all is sent and answered, the file has the name the server has for it, whichever of the
\* broadcast, the listing and the catch-up brought a rename, but for what the guards do not know
\* and a rename that came live after the listing was read (handleServerRename, refreshFileIndex,
\* collapseQueuedRenames, applyServerOperation).
THEOREM NamesAgreeAlways == CatchUpSpec => []NamesAgree
<1>1. NamesInv => NamesAgree
  <2>   SUFFICES ASSUME NamesInv, mem.flow.step = "live", mem.log = <<>>, mem.handlers = <<>>,
                        up = <<>>, down = <<>>, ~past.replayed, ~past.outdated
        PROVE  at = project.at
        BY DEF NamesAgree
  <2>1. Entering /\ MatchedAfter
        BY DEF NamesInv, NInv
  <2>2. DOMAIN mem.log = {} /\ DOMAIN mem.handlers = {} /\ DOMAIN down = {}
        OBVIOUS
  <2>3. Joined /\ mem.flow.listing = "done" /\ ~Refused
        BY <2>1, <2>2 DEF Joined, Entering, Refused
  <2>4. Settling \/ \E k \in RenameRows : Latest(k) /\ Due(k)
        BY <2>1, <2>3 DEF MatchedAfter
  <2>5. \A k : ~Due(k)
        BY DEF Due
  <2>   QED
        BY <2>2, <2>4, <2>5 DEF Settling, Unlanded, Renames, Coming, InHand
<1>   QED
      BY <1>1, NamesInvariant, PTL
=============================================================================
