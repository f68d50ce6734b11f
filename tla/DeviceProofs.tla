----------------------------- MODULE DeviceProofs -----------------------------
(***************************************************************************)
(* Proofs about Watchers and LogFile. Of the watchers, for any names,      *)
(* versions and waits: the engine is never told of what it did itself      *)
(* (EchoesStay), and a change no marker and no note may have kept from it  *)
(* is told to it (InStep). Of the log, for any number of archives: it ends *)
(* with the last lines stored (LastLinesKept).                             *)
(*                                                                         *)
(* EchoesStay is a matter of counting and of time: a marker is set for as   *)
(* many events as an operation may come back as (EchoCount), and outlives  *)
(* the last of them. InStep says who will tell the engine of a version it  *)
(* does not know. LastLinesKept follows how many stored lines come before  *)
(* those of each file through a rotation (Follows), which one file is      *)
(* empty in meanwhile (Hole).                                              *)
(***************************************************************************)
EXTENDS Watchers, LogFile, TLAPS

\* How many events chokidar may make of a file it last saw as version s when
\* it is at version f: a file put in another's place may be told as two.
Looks(s, f) == IF s = f THEN 0 ELSE IF s = 0 \/ f = 0 THEN 1 ELSE 2

Marker == [count : Nat, left : Nat]
Timers == /\ marks \in [Path -> Marker] /\ pairs \in [Path \X Path -> Marker]
          /\ calls \in [Path -> Nat] /\ fsCalls \in [Path -> Nat] /\ due \in [Path -> Nat]
          /\ noted \in [Type \X Path -> Nat]
          /\ \A p \in Path : calls[p] <= Never /\ fsCalls[p] <= Never
FilesKept ==
    /\ file \in [Path -> Nat] /\ known \in [Path -> Nat] /\ seen \in [Path -> Nat]
    /\ ops \in Nat /\ mine \subseteq Path /\ silenced \subseteq Path
Owned == /\ own \in [op : Type \cup {"rename", ""}, p : Path \cup {Outside},
                     q : Path \cup {Outside}, left : Nat]
         /\ own.op # "" =>
               own.p \in Path /\ own.q \in Path /\ (own.op # "rename" => own.p = own.q)

\* Chokidar looks in time.
InTime == \A p \in Path : seen[p] # file[p] => due[p] <= FsLate

\* A rename is expected while the engine is at it, and only then.
OnlyOwn ==
    \A pq \in Path \X Path : Live(pairs[pq]) =>
        own.op = "rename" /\ pq = <<own.p, own.q>> /\ pairs[pq].count = 1
Awaited ==
    own.op = "rename" /\ own.p \in mine /\ own.q \in mine =>
        pairs[<<own.p, own.q>>].left > own.left /\ pairs[<<own.p, own.q>>].count > 0

\* A name only the engine has changed: no save of it is to be told, its marker
\* is there for every event still to come, and outlives chokidar's next look;
\* and so it will be after the operation under way.
Unsaved(p) == calls[p] = Never /\ fsCalls[p] = Never
Lasts(p) ==
    seen[p] # file[p] => marks[p].left > due[p] /\ marks[p].count >= Looks(seen[p], file[p])
LastsOn(p) ==
    own.op # "" /\ (p = own.p \/ p = own.q) =>
        /\ marks[p].left > own.left + FsLate
        /\ marks[p].count >= EchoCount(own.op) + Looks(seen[p], file[p])
Marked == \A p \in mine : Unsaved(p) /\ Lasts(p) /\ LastsOn(p)

\* A version the engine does not know: a save waits to be told, or chokidar is to
\* look and nothing will keep its event from the engine.
SaveWaits(p) == file[p] # 0 /\ (calls[p] # Never \/ fsCalls[p] # Never)
LookWaits(p) ==
    /\ seen[p] # file[p] /\ marks[p].left = 0
    /\ IF file[p] = 0 THEN noted[<<"delete", p>>] = 0
       ELSE \A t \in Type : noted[<<t, p>>] = 0
ToBeTold == \A p \in Path \ silenced : known[p] # file[p] => SaveWaits(p) \/ LookWaits(p)

WInv == /\ Timers /\ FilesKept /\ Owned /\ InTime /\ OnlyOwn /\ Awaited /\ Marked /\ EchoesStay
        /\ ToBeTold

-----------------------------------------------------------------------------
\* What the waits are to one another.
LEMMA Waits ==
    /\ Ttl \in Nat /\ RenameTtl \in Nat /\ NoteFor \in Nat /\ Pause \in Nat
    /\ FsPause \in Nat
    /\ OwnLate \in Nat /\ FsLate \in Nat /\ MaxOps \in Nat /\ Never \in Nat
    /\ OwnLate + FsLate < Ttl /\ OwnLate < RenameTtl
    /\ Pause < Never /\ FsPause < Never /\ FsLate < Never
    /\ Outside \notin Path
BY WatchersAssumption DEF Never

\* The markers of some names are set.
LEMMA MarkNamed ==
    ASSUME NEW m \in [Path -> Marker], NEW ps, NEW n \in Nat
    PROVE  /\ Mark(m, ps, n) \in [Path -> Marker]
           /\ \A r \in Path : r \notin ps => Mark(m, ps, n)[r] = m[r]
           /\ \A r \in Path : r \in ps =>
                 /\ Mark(m, ps, n)[r].left = Ttl
                 /\ Mark(m, ps, n)[r].count >= n
                 /\ m[r].left > 0 => Mark(m, ps, n)[r].count = m[r].count + n
BY Waits DEF Mark, Marker, Live

\* An event is taken by the markers of its names.
LEMMA TakeNamed ==
    ASSUME NEW m \in [Path -> Marker], NEW ps
    PROVE  /\ Take(m, ps) \in [Path -> Marker]
           /\ \A r \in Path : r \notin ps => Take(m, ps)[r] = m[r]
           /\ \A r \in Path : r \in ps /\ m[r].left > 0 /\ m[r].count > 1 =>
                 Take(m, ps)[r].left = m[r].left /\ Take(m, ps)[r].count = m[r].count - 1
           /\ \A r \in Path : r \in ps /\ (m[r].left = 0 \/ m[r].count <= 1) =>
                 Take(m, ps)[r].left = 0 /\ Take(m, ps)[r].count = 0
BY DEF Take, Marker, Live, NoMark

\* An event of a name somebody else has changed is no echo.
LEMMA NoEcho ==
    ASSUME ~echoed, NEW ps, NEW x \in ps, x \notin mine', Echo(ps)
    PROVE  ~echoed'
BY DEF Echo

\* How many events chokidar makes.
LEMMA LooksNamed ==
    /\ \A s, f \in Nat : Looks(s, f) \in 0 .. 2
    /\ \A s, f \in Nat : s = f => Looks(s, f) = 0
    /\ \A s, f \in Nat : s # f => Looks(s, f) >= 1
    /\ \A f \in Nat : f # 0 => Looks(0, f) = 1
    /\ \A s, f \in Nat : s # f /\ s # 0 /\ f # 0 => Looks(s, f) = 2
    /\ \A s, f, g \in Nat : Looks(s, g) <= Looks(s, f) + Looks(f, g)
BY DEF Looks

\* The engine's rename is expected no more.
LEMMA LessNamed ==
    ASSUME Timers, OnlyOwn, NEW p \in Path, NEW q \in Path
    PROVE  /\ Less(<<p, q>>, pairs) \in [Path \X Path -> Marker]
           /\ ~Live(Less(<<p, q>>, pairs)[<<p, q>>])
           /\ \A pq \in Path \X Path :
                 pq # <<p, q>> => Less(<<p, q>>, pairs)[pq] = pairs[pq]
<1>1. /\ pairs \in [Path \X Path -> Marker] /\ <<p, q>> \in Path \X Path
      /\ Live(pairs[<<p, q>>]) => pairs[<<p, q>>].count = 1
      BY DEF Timers, OnlyOwn
<1>2. pairs[<<p, q>>] \in Marker
      BY <1>1
<1> DEFINE x == pairs[<<p, q>>]
           m == IF x.count > 1 THEN [count |-> x.count - 1, left |-> x.left] ELSE NoMark
<1>3. m \in Marker /\ ~Live(m)
      BY <1>1, <1>2 DEF Marker, NoMark, Live
<1>4. Less(<<p, q>>, pairs) = [pairs EXCEPT ![<<p, q>>] = m]
      BY DEF Less
<1>  HIDE DEF m
<1>   QED
      BY <1>1, <1>3, <1>4

\* Nothing is begun.
LEMMA WatchersInitHolds == WatchersInit => WInv
<1>  SUFFICES ASSUME WatchersInit PROVE WInv
     OBVIOUS
<1>1. Timers
      BY Waits DEF WatchersInit, Timers, Marker, NoMark
<1>2. FilesKept
  <2>1. MaxOps + 1 \in Nat
        BY Waits
  <2>2. file \in [Path -> Nat]
        BY <2>1 DEF WatchersInit
  <2>   QED
        BY <2>2 DEF WatchersInit, FilesKept
<1>3. Owned
      BY DEF WatchersInit, Owned, NoOp
<1>4. OnlyOwn
      BY DEF WatchersInit, OnlyOwn, Live, NoMark
<1>5. InTime /\ Awaited /\ Marked /\ EchoesStay /\ ToBeTold
      BY DEF WatchersInit, InTime, Awaited, Marked, EchoesStay, ToBeTold, NoOp
<1>   QED
      BY <1>1, <1>2, <1>3, <1>4, <1>5 DEF WInv

-----------------------------------------------------------------------------
\* A debounced save is told: of a name with a save waiting, not the engine's.
LEMMA SaveToldHolds == ASSUME WInv, NEW p \in Path, SaveTold(p) PROVE WInv'
<1>1. /\ calls[p] = 0 /\ calls' = [calls EXCEPT ![p] = Never]
      /\ known' = IF file[p] # 0 THEN [known EXCEPT ![p] = file[p]] ELSE known
      /\ noted' = [noted EXCEPT ![<<"modify", p>>] = NoteFor + 1] /\ Echo({p})
      /\ UNCHANGED <<file, marks, pairs, own, fsCalls, seen, due, ops, silenced, mine>>
      BY DEF SaveTold, Reads, Note
<1>2. Timers'
      BY <1>1, Waits DEF WInv, Timers, Type
<1>3. p \notin mine /\ ~echoed'
  <2>1. p \notin mine
        BY <1>1, Waits DEF WInv, Marked, Unsaved
  <2>   QED
        BY <1>1, <2>1, NoEcho DEF WInv, EchoesStay
<1>4. FilesKept'
      BY <1>1, <1>3 DEF WInv, FilesKept
<1>5. Owned' /\ InTime' /\ OnlyOwn' /\ Awaited' /\ EchoesStay'
      BY <1>1, <1>3 DEF WInv, Owned, InTime, OnlyOwn, Awaited, EchoesStay
<1>6. Marked'
      BY <1>1, <1>3 DEF WInv, Marked, Unsaved, Lasts, LastsOn, FilesKept, Timers
<1>7. ToBeTold'
      BY <1>1 DEF WInv, ToBeTold, SaveWaits, LookWaits, FilesKept, Timers, Type
<1>   QED
      BY <1>2, <1>4, <1>5, <1>6, <1>7 DEF WInv

\* The same of chokidar's.
LEMMA FsSaveToldHolds == ASSUME WInv, NEW p \in Path, FsSaveTold(p) PROVE WInv'
<1>1. /\ fsCalls[p] = 0 /\ fsCalls' = [fsCalls EXCEPT ![p] = Never]
      /\ known' = IF file[p] # 0 THEN [known EXCEPT ![p] = file[p]] ELSE known
      /\ Echo({p})
      /\ UNCHANGED <<file, marks, pairs, own, calls, noted, seen, due, ops, silenced, mine>>
      BY DEF FsSaveTold, Reads
<1>2. Timers'
      BY <1>1, Waits DEF WInv, Timers
<1>3. p \notin mine /\ ~echoed'
  <2>1. p \notin mine
        BY <1>1, Waits DEF WInv, Marked, Unsaved
  <2>   QED
        BY <1>1, <2>1, NoEcho DEF WInv, EchoesStay
<1>4. FilesKept'
      BY <1>1, <1>3 DEF WInv, FilesKept
<1>5. Owned' /\ InTime' /\ OnlyOwn' /\ Awaited' /\ EchoesStay'
      BY <1>1, <1>3 DEF WInv, Owned, InTime, OnlyOwn, Awaited, EchoesStay
<1>6. Marked'
      BY <1>1, <1>3 DEF WInv, Marked, Unsaved, Lasts, LastsOn, FilesKept, Timers
<1>7. ToBeTold'
      BY <1>1 DEF WInv, ToBeTold, SaveWaits, LookWaits, FilesKept, Timers, Type
<1>   QED
      BY <1>2, <1>4, <1>5, <1>6, <1>7 DEF WInv

\* Chokidar's event of a name: taken by the marker, or by what Obsidian has
\* told of, or passed on. An event of a name only the engine has changed is taken.
LEMMA FsEventNamed ==
    ASSUME WInv, NEW p \in Path, NEW type \in Type, FsEvent(type, p), seen[p] # file[p],
           UNCHANGED mine
    PROVE  /\ marks' \in [Path -> Marker] /\ noted' \in [Type \X Path -> Nat]
           /\ fsCalls' \in [Path -> Nat] /\ known' \in [Path -> Nat] /\ ~echoed'
           /\ \A r \in Path : r # p => /\ marks'[r] = marks[r] /\ fsCalls'[r] = fsCalls[r]
                                       /\ known'[r] = known[r]
                                       /\ \A t \in Type : noted'[<<t, r>>] = noted[<<t, r>>]
           /\ marks[p].left = 0 => marks'[p].left = 0
           /\ marks[p].left > 0 /\ marks[p].count > 1 =>
                 marks'[p].left = marks[p].left /\ marks'[p].count = marks[p].count - 1
           /\ \A t \in Type : noted[<<t, p>>] = 0 => noted'[<<t, p>>] = 0
           /\ fsCalls'[p] = fsCalls[p] \/ fsCalls'[p] = FsPause
           /\ p \in mine => fsCalls'[p] = fsCalls[p]
           /\ marks[p].left = 0 /\ noted[<<type, p>>] = 0 =>
                 /\ type = "modify" => fsCalls'[p] = FsPause /\ known' = known
                 /\ type # "modify" => known' = Reads(known, file, type, p)
           /\ known' = known \/ (type # "modify" /\ known' = Reads(known, file, type, p))
<1>1. /\ marks \in [Path -> Marker] /\ marks' \in [Path -> Marker]
      /\ \A r \in Path : r # p => marks'[r] = marks[r]
      /\ marks[p].left = 0 => marks'[p].left = 0
      /\ marks[p].left > 0 /\ marks[p].count > 1 =>
            marks'[p].left = marks[p].left /\ marks'[p].count = marks[p].count - 1
  <2>1. marks' = Take(marks, {p}) /\ marks \in [Path -> Marker]
        BY DEF FsEvent, WInv, Timers
  <2>   QED
        BY <2>1, TakeNamed
<1>2. marks[p].left \in Nat
      BY <1>1 DEF Marker
<1>3. CASE marks[p].left > 0
  <2>1. noted' = noted /\ fsCalls' = fsCalls /\ known' = known /\ echoed' = echoed
        BY <1>3 DEF FsEvent, Live
  <2>2. /\ noted \in [Type \X Path -> Nat] /\ fsCalls \in [Path -> Nat]
        /\ known \in [Path -> Nat]
        /\ ~echoed
        BY DEF WInv, Timers, FilesKept, EchoesStay
  <2>3. ~(marks[p].left = 0)
        BY <1>2, <1>3
  <2>4. /\ noted' \in [Type \X Path -> Nat] /\ fsCalls' \in [Path -> Nat]
        /\ known' \in [Path -> Nat] /\ ~echoed'
        BY <2>1, <2>2
  <2>5. \A r \in Path : /\ fsCalls'[r] = fsCalls[r] /\ known'[r] = known[r]
                        /\ \A t \in Type : noted'[<<t, r>>] = noted[<<t, r>>]
        BY <2>1
  <2>   QED
        BY <1>1, <2>1, <2>3, <2>4, <2>5
<1>4. CASE marks[p].left = 0
  <2>1. p \notin mine'
        BY <1>2, <1>4 DEF WInv, Marked, Lasts, Timers, FilesKept
  <2>2. ~Live(marks[p])
        BY <1>4 DEF Live
  <2>3. /\ noted' = [noted EXCEPT ![<<type, p>>] = 0]
        /\ fsCalls' = IF noted[<<type, p>>] = 0 /\ type = "modify"
                      THEN [fsCalls EXCEPT ![p] = FsPause] ELSE fsCalls
        /\ IF noted[<<type, p>>] = 0 /\ type # "modify"
           THEN known' = Reads(known, file, type, p) /\ Echo({p})
           ELSE known' = known /\ echoed' = echoed
        BY <2>2 DEF FsEvent, FsTaken
  <2>4. ~echoed'
        BY <2>1, <2>3, NoEcho DEF WInv, EchoesStay
  <2>5. /\ Reads(known, file, type, p) \in [Path -> Nat]
        /\ \A r \in Path : r # p => Reads(known, file, type, p)[r] = known[r]
        BY DEF Reads, WInv, FilesKept
  <2>6. noted' \in [Type \X Path -> Nat] /\ fsCalls' \in [Path -> Nat]
        BY <2>3, Waits DEF WInv, Timers
  <2>7. \A t \in Type, r \in Path :
           noted'[<<t, r>>] = IF t = type /\ r = p THEN 0 ELSE noted[<<t, r>>]
        BY <2>3 DEF WInv, Timers
  <2>8. /\ \A r \in Path : r # p => fsCalls'[r] = fsCalls[r]
        /\ fsCalls'[p] = IF noted[<<type, p>>] = 0 /\ type = "modify" THEN FsPause
                         ELSE fsCalls[p]
        BY <2>3 DEF WInv, Timers
  <2>9. known \in [Path -> Nat]
        BY DEF WInv, FilesKept
  <2>10. p \notin mine
        BY <2>1
  <2>11. ~(marks[p].left > 0)
        BY <1>4
  <2>12. \A t \in Type : noted[<<t, p>>] = 0 => noted'[<<t, p>>] = 0
        BY <2>7
  <2>13. \A r \in Path, t \in Type : r # p => noted'[<<t, r>>] = noted[<<t, r>>]
        BY <2>7
  <2>14. /\ known' \in [Path -> Nat] /\ \A r \in Path : r # p => known'[r] = known[r]
         /\ known' = known \/ (type # "modify" /\ known' = Reads(known, file, type, p))
        BY <2>3, <2>5, <2>9
  <2>15. marks[p].left = 0 /\ noted[<<type, p>>] = 0 =>
                 /\ type = "modify" => fsCalls'[p] = FsPause /\ known' = known
                 /\ type # "modify" => known' = Reads(known, file, type, p)
        BY <2>3, <2>8
  <2>   QED
        BY <1>1, <2>4, <2>6, <2>8, <2>10, <2>11, <2>12, <2>13, <2>14, <2>15
<1>   QED
      BY <1>2, <1>3, <1>4

\* Chokidar looks at a file.
LEMMA FsLooksHolds == ASSUME WInv, NEW p \in Path, FsLooks(p) PROVE WInv'
<1> DEFINE type == IF file[p] = 0 THEN "delete"
                   ELSE IF seen[p] = 0 THEN "create" ELSE "modify"
<1>1. /\ seen[p] # file[p] /\ type \in Type /\ FsEvent(type, p)
      /\ seen' = [seen EXCEPT ![p] = file[p]] /\ due' = [due EXCEPT ![p] = Never]
      /\ UNCHANGED <<file, pairs, own, calls, ops, silenced, mine>>
      BY DEF FsLooks, Type
<1>2. /\ marks' \in [Path -> Marker] /\ noted' \in [Type \X Path -> Nat]
      /\ fsCalls' \in [Path -> Nat] /\ known' \in [Path -> Nat] /\ ~echoed'
      /\ \A r \in Path : r # p => /\ marks'[r] = marks[r] /\ fsCalls'[r] = fsCalls[r]
                                  /\ known'[r] = known[r]
                                  /\ \A t \in Type : noted'[<<t, r>>] = noted[<<t, r>>]
      /\ marks[p].left > 0 /\ marks[p].count > 1 =>
            marks'[p].left = marks[p].left /\ marks'[p].count = marks[p].count - 1
      /\ fsCalls'[p] = fsCalls[p] \/ fsCalls'[p] = FsPause
      /\ p \in mine => fsCalls'[p] = fsCalls[p]
      /\ marks[p].left = 0 /\ noted[<<type, p>>] = 0 =>
            /\ type = "modify" => fsCalls'[p] = FsPause /\ known' = known
            /\ type # "modify" => known' = Reads(known, file, type, p)
      /\ known' = known \/ (type # "modify" /\ known' = Reads(known, file, type, p))
      BY <1>1, FsEventNamed
<1>3. type # "modify" => Reads(known, file, type, p)[p] = file[p]
      BY DEF Reads, WInv, FilesKept
<1>  HIDE DEF type
<1>4. /\ type = "delete" <=> file[p] = 0
      /\ type = "modify" => file[p] # 0
      BY DEF type
<1>5. FilesKept' /\ Owned' /\ OnlyOwn' /\ Awaited' /\ EchoesStay'
      BY <1>1, <1>2 DEF WInv, FilesKept, Owned, OnlyOwn, Awaited, EchoesStay
<1>6. /\ seen'[p] = file[p] /\ due'[p] = Never
      /\ \A r \in Path : r # p => seen'[r] = seen[r] /\ due'[r] = due[r]
      BY <1>1 DEF WInv, FilesKept, Timers
<1>7. Timers' /\ InTime'
  <2>1. due' \in [Path -> Nat]
        BY <1>1, Waits DEF WInv, Timers
  <2>2. \A r \in Path : fsCalls'[r] <= Never
        BY <1>2, Waits DEF WInv, Timers
  <2>   QED
        BY <1>1, <1>2, <1>6, <2>1, <2>2 DEF WInv, Timers, InTime
<1>8. Marked'
  <2>  SUFFICES ASSUME NEW r \in mine PROVE Unsaved(r)' /\ Lasts(r)' /\ LastsOn(r)'
       BY <1>1 DEF Marked
  <2>1. r \in Path /\ Unsaved(r) /\ Lasts(r) /\ LastsOn(r)
        BY DEF WInv, Marked, FilesKept
  <2>2. CASE r # p
        BY <1>1, <1>2, <1>6, <2>1, <2>2 DEF Unsaved, Lasts, LastsOn
  <2>3. CASE r = p
    <3>1. Unsaved(r)' /\ Lasts(r)'
          BY <1>1, <1>2, <1>6, <2>1, <2>3 DEF Unsaved, Lasts
    <3>2. ASSUME own.op # "", r = own.p \/ r = own.q
          PROVE  marks'[r].left > own.left + FsLate /\ marks'[r].count >= EchoCount(own.op)
      <4>1. Looks(seen[p], file[p]) \in Nat /\ Looks(seen[p], file[p]) >= 1
            BY <1>1, LooksNamed DEF WInv, FilesKept
      <4>2. EchoCount(own.op) \in Nat /\ EchoCount(own.op) >= 2
            BY DEF EchoCount
      <4>3. own.left \in Nat /\ marks[p] \in Marker
            BY DEF WInv, Owned, Timers
      <4>4. /\ marks[p].left > own.left + FsLate
            /\ marks[p].count >= EchoCount(own.op) + Looks(seen[p], file[p])
            BY <2>1, <2>3, <3>2 DEF LastsOn
      <4>   QED
            BY <1>2, <2>3, <4>1, <4>2, <4>3, <4>4, Waits DEF Marker
    <3>3. Looks(file[p], file[p]) = 0
          BY LooksNamed DEF WInv, FilesKept
    <3>4. EchoCount(own.op) \in Nat
          BY DEF EchoCount
    <3>5. LastsOn(r)'
      <4>1. seen'[r] = file[p] /\ file'[r] = file[p] /\ own' = own
            BY <1>1, <1>6, <2>3
      <4>2. EchoCount(own.op) + Looks(file[p], file[p]) = EchoCount(own.op)
            BY <3>3, <3>4
      <4>   QED
            BY <3>2, <4>1, <4>2 DEF LastsOn
    <3>   QED
          BY <3>1, <3>5
  <2>   QED
        BY <2>2, <2>3
<1>9. ToBeTold'
  <2>  SUFFICES ASSUME NEW r \in Path \ silenced, known'[r] # file[r]
                PROVE  SaveWaits(r)' \/ LookWaits(r)'
       BY <1>1 DEF ToBeTold
  <2>1. CASE r # p
        BY <1>1, <1>2, <1>6, <2>1 DEF WInv, ToBeTold, SaveWaits, LookWaits, Type
  <2>2. CASE r = p
    <3>1. known' = known
          BY <1>2, <1>3, <2>2
    <3>2. SaveWaits(p) \/ LookWaits(p)
          BY <2>2, <3>1 DEF WInv, ToBeTold
    <3>3. CASE SaveWaits(p)
          BY <1>1, <1>2, <2>2, <3>3, Waits DEF SaveWaits
    <3>4. CASE LookWaits(p)
      <4>1. noted[<<type, p>>] = 0 /\ marks[p].left = 0
            BY <1>1, <1>4, <3>4 DEF LookWaits
      <4>2. type = "modify" /\ fsCalls'[p] = FsPause
            BY <1>2, <1>3, <2>2, <4>1
      <4>   QED
            BY <1>1, <1>4, <2>2, <4>2, Waits DEF SaveWaits
    <3>   QED
          BY <3>2, <3>3, <3>4
  <2>   QED
        BY <2>1, <2>2
<1>   QED
      BY <1>5, <1>7, <1>8, <1>9 DEF WInv

\* Chokidar tells of a file put in another's place as a delete.
LEMMA FsSplitsHolds == ASSUME WInv, NEW p \in Path, FsSplits(p) PROVE WInv'
<1>1. /\ seen[p] # file[p] /\ seen[p] # 0 /\ file[p] # 0 /\ "delete" \in Type
      /\ FsEvent("delete", p)
      /\ seen' = [seen EXCEPT ![p] = 0] /\ due' = [due EXCEPT ![p] = 0]
      /\ UNCHANGED <<file, pairs, own, calls, ops, silenced, mine>>
      BY DEF FsSplits, Type
<1>2. Reads(known, file, "delete", p) = known
      BY <1>1 DEF Reads
<1>3. /\ marks' \in [Path -> Marker] /\ noted' \in [Type \X Path -> Nat]
      /\ fsCalls' \in [Path -> Nat] /\ known' \in [Path -> Nat] /\ ~echoed'
      /\ \A r \in Path : r # p => /\ marks'[r] = marks[r] /\ fsCalls'[r] = fsCalls[r]
                                  /\ known'[r] = known[r]
                                  /\ \A t \in Type : noted'[<<t, r>>] = noted[<<t, r>>]
      /\ marks[p].left = 0 => marks'[p].left = 0
      /\ marks[p].left > 0 /\ marks[p].count > 1 =>
            marks'[p].left = marks[p].left /\ marks'[p].count = marks[p].count - 1
      /\ \A t \in Type : noted[<<t, p>>] = 0 => noted'[<<t, p>>] = 0
      /\ fsCalls'[p] = fsCalls[p] \/ fsCalls'[p] = FsPause
      /\ p \in mine => fsCalls'[p] = fsCalls[p]
      /\ known' = known
      BY <1>1, <1>2, FsEventNamed
<1>4. FilesKept' /\ Owned' /\ OnlyOwn' /\ Awaited' /\ EchoesStay'
      BY <1>1, <1>3 DEF WInv, FilesKept, Owned, OnlyOwn, Awaited, EchoesStay
<1>5. /\ seen'[p] = 0 /\ due'[p] = 0
      /\ \A r \in Path : r # p => seen'[r] = seen[r] /\ due'[r] = due[r]
      BY <1>1 DEF WInv, FilesKept, Timers
<1>6. Timers' /\ InTime'
  <2>1. due' \in [Path -> Nat]
        BY <1>1 DEF WInv, Timers
  <2>2. \A r \in Path : fsCalls'[r] <= Never
    <3>1. \A r \in Path : fsCalls'[r] = fsCalls[r] \/ fsCalls'[r] = FsPause
          BY <1>3
    <3>2. \A r \in Path : fsCalls[r] <= Never
          BY DEF WInv, Timers
    <3>   QED
          BY <3>1, <3>2, Waits
  <2>   QED
        BY <1>1, <1>3, <1>5, <2>1, <2>2, Waits DEF WInv, Timers, InTime
<1>7. Marked'
  <2>  SUFFICES ASSUME NEW r \in mine PROVE Unsaved(r)' /\ Lasts(r)' /\ LastsOn(r)'
       BY <1>1 DEF Marked
  <2>1. r \in Path /\ Unsaved(r) /\ Lasts(r) /\ LastsOn(r)
        BY DEF WInv, Marked, FilesKept
  <2>2. CASE r # p
        BY <1>1, <1>3, <1>5, <2>1, <2>2 DEF Unsaved, Lasts, LastsOn
  <2>3. CASE r = p
    <3>1. Looks(seen[p], file[p]) = 2 /\ Looks(0, file[p]) = 1
          BY <1>1, LooksNamed DEF WInv, FilesKept
    <3>2. /\ marks[p] \in Marker /\ due[p] \in Nat /\ own.left \in Nat
          /\ EchoCount(own.op) \in Nat
          BY DEF WInv, Owned, Timers, EchoCount
    <3>3. /\ marks'[p].left = marks[p].left /\ marks'[p].count = marks[p].count - 1
          /\ marks[p].left > 0 /\ marks[p].count >= 2
          BY <1>1, <1>3, <2>1, <2>3, <3>1, <3>2 DEF Lasts, Marker
    <3>4. /\ file'[r] = file[p] /\ own' = own /\ calls'[r] = calls[p]
          /\ fsCalls'[r] = fsCalls[p]
          /\ seen'[r] = 0 /\ due'[r] = 0
          BY <1>1, <1>3, <1>5, <2>3
    <3>5. Unsaved(r)' /\ Lasts(r)'
          BY <2>1, <2>3, <3>1, <3>2, <3>3, <3>4 DEF Unsaved, Lasts, Marker
    <3>6. LastsOn(r)'
      <4>1. SUFFICES ASSUME own.op # "", r = own.p \/ r = own.q
                     PROVE  /\ marks'[p].left > own.left + FsLate
                            /\ marks'[p].count >= EchoCount(own.op) + 1
            BY <2>3, <3>1, <3>4 DEF LastsOn
      <4>2. marks[p].left > own.left + FsLate /\ marks[p].count >= EchoCount(own.op) + 2
            BY <2>1, <2>3, <3>1, <4>1 DEF LastsOn
      <4>3. marks[p].left \in Nat /\ marks[p].count \in Nat
            BY <3>2 DEF Marker
      <4>   QED
            BY <3>2, <3>3, <4>2, <4>3
    <3>   QED
          BY <3>5, <3>6
  <2>   QED
        BY <2>2, <2>3
<1>8. ToBeTold'
  <2>  SUFFICES ASSUME NEW r \in Path \ silenced, known'[r] # file[r]
                PROVE  SaveWaits(r)' \/ LookWaits(r)'
       BY <1>1 DEF ToBeTold
  <2>1. SaveWaits(r) \/ LookWaits(r)
        BY <1>3 DEF WInv, ToBeTold
  <2>2. CASE SaveWaits(r)
        BY <1>1, <1>3, <2>2, Waits DEF SaveWaits
  <2>3. CASE LookWaits(r)
        BY <1>1, <1>3, <1>5, <2>3 DEF LookWaits
  <2>   QED
        BY <2>1, <2>2, <2>3
<1>   QED
      BY <1>4, <1>6, <1>7, <1>8 DEF WInv

-----------------------------------------------------------------------------
\* The engine marks the names of an operation and begins it.
LEMMA BeginHolds ==
    ASSUME WInv, NEW op \in Type \cup {"rename"}, NEW p \in Path, NEW q \in Path,
           Begin(op, p, q)
    PROVE  WInv'
<1>1. /\ own = NoOp /\ ops' = ops + 1 /\ (op # "rename" => p = q)
      /\ marks' = Mark(marks, {p, q}, EchoCount(op))
      /\ pairs' = IF op = "rename" THEN Expect(<<p, q>>) ELSE pairs
      /\ own' = [op |-> op, p |-> p, q |-> q, left |-> OwnLate]
      /\ mine' = mine \cup {n \in {p, q} : Restful(n)}
      /\ silenced' = silenced \cup {n \in {p, q} : Untold(n)}
      /\ UNCHANGED <<file, known, calls, fsCalls, noted, seen, due, echoed>>
      BY DEF Begin
<1>2. EchoCount(op) \in Nat
      BY DEF EchoCount
<1>3. /\ marks' \in [Path -> Marker]
      /\ \A r \in Path : r \notin {p, q} => marks'[r] = marks[r]
      /\ \A r \in Path : r \in {p, q} =>
            /\ marks'[r].left = Ttl
            /\ marks'[r].count >= EchoCount(op)
            /\ marks[r].left > 0 => marks'[r].count = marks[r].count + EchoCount(op)
      BY <1>1, <1>2, MarkNamed DEF WInv, Timers
<1>4. /\ own'.op = op /\ own'.p = p /\ own'.q = q /\ own'.left = OwnLate /\ op # ""
      BY <1>1 DEF Type
<1>5. \A pq \in Path \X Path : ~Live(pairs[pq])
      BY <1>1 DEF WInv, OnlyOwn, NoOp
<1>6. /\ pairs' \in [Path \X Path -> Marker]
      /\ \A pq \in Path \X Path : Live(pairs'[pq]) => op = "rename" /\ pq = <<p, q>>
      /\ op = "rename" => pairs'[<<p, q>>].left = RenameTtl /\ pairs'[<<p, q>>].count = 1
  <2>1. CASE op = "rename"
    <3>1. pairs' = [pairs EXCEPT ![<<p, q>>] = [count |-> 1, left |-> RenameTtl]]
      <4>1. ~Live(pairs[<<p, q>>])
            BY <1>5
      <4>   QED
            BY <1>1, <2>1, <4>1 DEF Expect
    <3>2. pairs \in [Path \X Path -> Marker]
          BY DEF WInv, Timers
    <3>   QED
          BY <1>5, <2>1, <3>1, <3>2, Waits DEF Marker
  <2>2. CASE op # "rename"
        BY <1>1, <1>5, <2>2 DEF WInv, Timers
  <2>   QED
        BY <2>1, <2>2
<1>7. Timers' /\ FilesKept' /\ InTime' /\ EchoesStay'
  <2>1. Timers'
        BY <1>1, <1>3, <1>6 DEF WInv, Timers
  <2>2. FilesKept'
        BY <1>1 DEF WInv, FilesKept
  <2>3. InTime' /\ EchoesStay'
        BY <1>1 DEF WInv, InTime, EchoesStay
  <2>   QED
        BY <2>1, <2>2, <2>3
<1>8. Owned'
      BY <1>1, <1>4, Waits DEF Owned
<1>9. OnlyOwn' /\ Awaited'
  <2>1. OnlyOwn'
        BY <1>4, <1>6 DEF OnlyOwn
  <2>2. op = "rename" => /\ pairs'[<<own'.p, own'.q>>].left = RenameTtl
                         /\ pairs'[<<own'.p, own'.q>>].count = 1
        BY <1>4, <1>6
  <2>3. Awaited'
        BY <1>4, <2>2, Waits DEF Awaited
  <2>   QED
        BY <2>1, <2>3
<1>10. Marked'
  <2>  SUFFICES ASSUME NEW r \in mine' PROVE Unsaved(r)' /\ Lasts(r)' /\ LastsOn(r)'
       BY DEF Marked
  <2>1. r \in Path /\ (r \in mine \/ (r \in {p, q} /\ Restful(r)))
        BY <1>1 DEF WInv, FilesKept
  <2>2. Unsaved(r) /\ Lasts(r)
        BY <2>1 DEF WInv, Marked, Restful, Unsaved, Lasts
  <2>3. Unsaved(r)'
        BY <1>1, <2>2 DEF Unsaved
  <2>4. CASE r \notin {p, q}
        BY <1>1, <1>3, <1>4, <2>1, <2>2, <2>3, <2>4 DEF Lasts, LastsOn
  <2>5. CASE r \in {p, q}
    <3>1. /\ marks[r].left \in Nat /\ marks[r].count \in Nat /\ due[r] \in Nat
          /\ Looks(seen[r], file[r]) \in Nat /\ marks'[r].left = Ttl
          /\ marks'[r].count \in Nat
      <4>1. /\ marks[r] \in Marker /\ marks'[r] \in Marker /\ due[r] \in Nat
            /\ seen[r] \in Nat /\ file[r] \in Nat
            BY <1>3, <2>1 DEF WInv, Timers, FilesKept
      <4>2. Looks(seen[r], file[r]) \in Nat
            BY <4>1, LooksNamed
      <4>3. marks'[r].left = Ttl
            BY <1>3, <2>1, <2>5
      <4>   QED
            BY <4>1, <4>2, <4>3 DEF Marker
    <3>2. marks'[r].count >= EchoCount(op) + Looks(seen[r], file[r])
      <4>1. CASE seen[r] = file[r]
        <5>1. Looks(seen[r], file[r]) = 0
              BY <2>1, <4>1, LooksNamed DEF WInv, FilesKept
        <5>   QED
              BY <1>2, <1>3, <2>1, <2>5, <3>1, <5>1
      <4>2. CASE seen[r] # file[r]
        <5>1. marks[r].left > 0 /\ marks[r].count >= Looks(seen[r], file[r])
              BY <2>2, <3>1, <4>2 DEF Lasts
        <5>   QED
              BY <1>2, <1>3, <2>1, <2>5, <3>1, <5>1
      <4>   QED
            BY <4>1, <4>2
    <3>3. seen[r] # file[r] => due[r] <= FsLate
          BY <2>1 DEF WInv, InTime
    <3>4. Lasts(r)'
          BY <1>1, <1>2, <3>1, <3>2, <3>3, Waits DEF Lasts
    <3>5. LastsOn(r)'
          BY <1>1, <1>4, <3>1, <3>2, Waits DEF LastsOn
    <3>   QED
          BY <2>3, <3>4, <3>5
  <2>   QED
        BY <2>4, <2>5
<1>11. ToBeTold'
  <2>  SUFFICES ASSUME NEW r \in Path \ silenced', known'[r] # file'[r]
                PROVE  SaveWaits(r)' \/ LookWaits(r)'
       BY DEF ToBeTold
  <2>1. r \notin {p, q} /\ r \notin silenced /\ known[r] # file[r]
        BY <1>1 DEF Untold
  <2>2. SaveWaits(r) \/ LookWaits(r)
        BY <2>1 DEF WInv, ToBeTold
  <2>3. marks'[r] = marks[r]
        BY <1>3, <2>1
  <2>   QED
        BY <1>1, <2>2, <2>3 DEF SaveWaits, LookWaits
<1>   QED
      BY <1>7, <1>8, <1>9, <1>10, <1>11 DEF WInv

\* It finds the files otherwise and fails.
LEMMA OwnFailsHolds == ASSUME WInv, OwnFails PROVE WInv'
<1>1. /\ own # NoOp /\ own' = NoOp
      /\ pairs' = IF own.op = "rename" THEN Less(<<own.p, own.q>>, pairs) ELSE pairs
      /\ UNCHANGED <<file, known, marks, calls, fsCalls, noted, seen, due, ops, mine,
                     silenced, echoed>>
      BY DEF OwnFails
<1>2. own.op # "rename" => \A pq \in Path \X Path : ~Live(pairs[pq])
      BY DEF WInv, OnlyOwn
<1>3. pairs' \in [Path \X Path -> Marker] /\ \A pq \in Path \X Path : ~Live(pairs'[pq])
  <2>1. CASE own.op = "rename"
    <3>1. own.p \in Path /\ own.q \in Path
          BY <2>1 DEF WInv, Owned
    <3>2. \A pq \in Path \X Path : pq # <<own.p, own.q>> => ~Live(pairs[pq])
          BY DEF WInv, OnlyOwn
    <3>   QED
          BY <1>1, <2>1, <3>1, <3>2, LessNamed DEF WInv
  <2>2. CASE own.op # "rename"
        BY <1>1, <1>2, <2>2 DEF WInv, Timers
  <2>   QED
        BY <2>1, <2>2
<1>4. Timers' /\ FilesKept' /\ InTime' /\ EchoesStay' /\ ToBeTold'
      BY <1>1, <1>3 DEF WInv, Timers, FilesKept, InTime, EchoesStay, ToBeTold, SaveWaits,
                        LookWaits
<1>5. Owned' /\ OnlyOwn' /\ Awaited'
      BY <1>1, <1>3 DEF Owned, OnlyOwn, Awaited, NoOp
<1>6. Marked'
      BY <1>1 DEF WInv, Marked, Unsaved, Lasts, LastsOn, NoOp
<1>   QED
      BY <1>4, <1>5, <1>6 DEF WInv

\* Time passes, for every timer alike.
LEMMA TickHolds == ASSUME WInv, Tick PROVE WInv'
<1>1. /\ marks \in [Path -> Marker] /\ pairs \in [Path \X Path -> Marker]
      /\ calls \in [Path -> Nat] /\ fsCalls \in [Path -> Nat] /\ due \in [Path -> Nat]
      /\ noted \in [Type \X Path -> Nat]
      BY DEF WInv, Timers
<1>2. /\ \A r \in Path : calls[r] # 0 /\ fsCalls[r] # 0 /\ due[r] # 0
      /\ own # NoOp => own.left > 0
      /\ UNCHANGED <<file, known, seen, ops, mine, silenced, echoed>>
      BY DEF Tick
<1>3. \A n \in Nat : Down(n) \in Nat /\ Down(n) = (IF n = 0 THEN 0 ELSE n - 1)
      BY DEF Down
<1>4. \A n \in Nat : n # 0 => /\ Sooner(n) \in Nat
                              /\ Sooner(n) = (IF n = Never THEN Never ELSE n - 1)
      BY Waits DEF Sooner
<1>19. \A n \in Nat : n # 0 /\ n <= Never => /\ Sooner(n) <= Never
                                             /\ n # Never => Sooner(n) # Never
      BY <1>4, Waits
<1>5. \A r \in Path : /\ marks'[r].count = marks[r].count
                      /\ marks'[r].left = Down(marks[r].left)
                      /\ marks'[r] \in Marker
      BY <1>1, <1>3 DEF Tick, Marker
<1>6. \A pq \in Path \X Path : /\ pairs'[pq].count = pairs[pq].count
                               /\ pairs'[pq].left = Down(pairs[pq].left)
                               /\ pairs'[pq] \in Marker
      BY <1>1, <1>3 DEF Tick, Marker
<1>7. \A k \in Type \X Path : noted'[k] = Down(noted[k])
      BY DEF Tick
<1>8. \A r \in Path : /\ calls'[r] = Sooner(calls[r]) /\ fsCalls'[r] = Sooner(fsCalls[r])
                      /\ due'[r] = Sooner(due[r])
      BY DEF Tick
<1>9. /\ own'.op = own.op /\ own'.p = own.p /\ own'.q = own.q /\ own'.left = Down(own.left)
      /\ own.left \in Nat /\ Owned'
  <2>1. /\ own \in [op : Type \cup {"rename", ""}, p : Path \cup {Outside},
                    q : Path \cup {Outside}, left : Nat]
        /\ own' = [own EXCEPT !.left = Down(own.left)]
        BY DEF WInv, Owned, Tick
  <2>2. /\ own'.op = own.op /\ own'.p = own.p /\ own'.q = own.q
        /\ own'.left = Down(own.left)
        /\ own.left \in Nat
        /\ own' \in [op : Type \cup {"rename", ""}, p : Path \cup {Outside},
                     q : Path \cup {Outside}, left : Nat]
        BY <1>3, <2>1
  <2>   QED
        BY <2>2 DEF WInv, Owned
<1>10. Timers'
  <2>1. marks' \in [Path -> Marker] /\ pairs' \in [Path \X Path -> Marker]
        BY <1>5, <1>6 DEF Tick
  <2>2. calls' \in [Path -> Nat] /\ fsCalls' \in [Path -> Nat] /\ due' \in [Path -> Nat]
        BY <1>1, <1>2, <1>4 DEF Tick
  <2>3. noted' \in [Type \X Path -> Nat]
        BY <1>1, <1>3 DEF Tick
  <2>4. \A r \in Path : calls'[r] <= Never /\ fsCalls'[r] <= Never
    <3>1. \A r \in Path : calls[r] <= Never /\ fsCalls[r] <= Never
          BY DEF WInv, Timers
    <3>   QED
          BY <1>1, <1>2, <1>8, <1>19, <3>1
  <2>   QED
        BY <2>1, <2>2, <2>3, <2>4 DEF Timers
<1>11. FilesKept' /\ EchoesStay'
      BY <1>2 DEF WInv, FilesKept, EchoesStay
<1>12. \A r \in Path : seen[r] # file[r] =>
          due'[r] = due[r] - 1 /\ due[r] > 0 /\ due'[r] <= FsLate
  <2>1. \A r \in Path : seen[r] # file[r] => due[r] <= FsLate
        BY DEF WInv, InTime
  <2>   QED
        BY <1>1, <1>2, <1>4, <1>8, <2>1, Waits
<1>13. InTime'
      BY <1>2, <1>12 DEF InTime
<1>14. OnlyOwn'
      BY <1>1, <1>3, <1>6, <1>9 DEF WInv, OnlyOwn, Live, Marker
<1>15. own.op # "" => own.left > 0 /\ own'.left = own.left - 1
  <2>1. NoOp.op = ""
        BY DEF NoOp
  <2>2. own.op # "" => own.left > 0
        BY <1>2, <2>1
  <2>3. own.left \in Nat /\ own'.left = Down(own.left)
        BY <1>9
  <2>4. own.left > 0 => own'.left = own.left - 1
        BY <1>3, <2>3
  <2>   QED
        BY <2>2, <2>4
<1>16. Awaited'
  <2>  SUFFICES ASSUME own.op = "rename", own.p \in mine, own.q \in mine
                PROVE  /\ pairs'[<<own.p, own.q>>].left > own'.left
                       /\ pairs'[<<own.p, own.q>>].count > 0
       BY <1>2, <1>9 DEF Awaited
  <2>1. <<own.p, own.q>> \in Path \X Path
        BY DEF WInv, FilesKept
  <2>2. pairs[<<own.p, own.q>>].left > own.left /\ pairs[<<own.p, own.q>>].count > 0
        BY DEF WInv, Awaited
  <2>3. pairs[<<own.p, own.q>>].left \in Nat
        BY <1>1, <2>1 DEF Marker
  <2>   QED
        BY <1>3, <1>6, <1>9, <1>15, <2>1, <2>2, <2>3
<1>17. Marked'
  <2>  SUFFICES ASSUME NEW r \in mine PROVE Unsaved(r)' /\ Lasts(r)' /\ LastsOn(r)'
       BY <1>2 DEF Marked
  <2>1. r \in Path /\ Unsaved(r) /\ Lasts(r) /\ LastsOn(r)
        BY DEF WInv, Marked, FilesKept
  <2>2. marks[r].left \in Nat
        BY <1>1, <2>1 DEF Marker
  <2>3. Unsaved(r)'
        BY <1>2, <1>4, <1>8, <2>1, Waits DEF Unsaved
  <2>4. Lasts(r)'
        BY <1>1, <1>2, <1>3, <1>5, <1>12, <2>1, <2>2 DEF Lasts
  <2>5. LastsOn(r)'
    <3>1. SUFFICES ASSUME own.op # "", r = own.p \/ r = own.q
                   PROVE  /\ marks'[r].left > own'.left + FsLate
                          /\ marks'[r].count >= EchoCount(own.op) + Looks(seen[r], file[r])
          BY <1>2, <1>9 DEF LastsOn
    <3>2. /\ marks[r].left > own.left + FsLate
          /\ marks[r].count >= EchoCount(own.op) + Looks(seen[r], file[r])
          BY <2>1, <3>1 DEF LastsOn
    <3>3. own'.left = own.left - 1 /\ own.left \in Nat /\ own.left > 0
          BY <1>9, <1>15, <3>1
    <3>4. marks'[r].count = marks[r].count /\ marks'[r].left = Down(marks[r].left)
          BY <1>5, <2>1
    <3>5. marks[r].left > 0 /\ marks'[r].left = marks[r].left - 1
          BY <1>3, <2>2, <3>2, <3>3, <3>4, Waits
    <3>   QED
          BY <2>2, <3>2, <3>3, <3>4, <3>5, Waits
  <2>   QED
        BY <2>3, <2>4, <2>5
<1>18. ToBeTold'
  <2>  SUFFICES ASSUME NEW r \in Path \ silenced, known[r] # file[r]
                PROVE  SaveWaits(r)' \/ LookWaits(r)'
       BY <1>2 DEF ToBeTold
  <2>1. SaveWaits(r) \/ LookWaits(r)
        BY DEF WInv, ToBeTold
  <2>2. CASE SaveWaits(r)
    <3>1. calls[r] <= Never /\ fsCalls[r] <= Never
          BY DEF WInv, Timers
    <3>2. calls[r] \in Nat /\ fsCalls[r] \in Nat /\ calls[r] # 0 /\ fsCalls[r] # 0
          BY <1>1, <1>2
    <3>3. /\ calls[r] # Never => calls'[r] # Never
          /\ fsCalls[r] # Never => fsCalls'[r] # Never
      <4>1. calls'[r] = Sooner(calls[r]) /\ fsCalls'[r] = Sooner(fsCalls[r])
            BY <1>8
      <4>   QED
            BY <1>19, <3>1, <3>2, <4>1
    <3>   QED
          BY <1>2, <2>2, <3>3 DEF SaveWaits
  <2>3. CASE LookWaits(r)
    <3>1. marks'[r].left = 0 /\ \A t \in Type : noted[<<t, r>>] = 0 => noted'[<<t, r>>] = 0
          BY <1>3, <1>5, <1>7, <2>3 DEF LookWaits
    <3>   QED
          BY <1>2, <2>3, <3>1 DEF LookWaits, Type
  <2>   QED
        BY <2>1, <2>2, <2>3
<1>   QED
      BY <1>9, <1>10, <1>11, <1>13, <1>14, <1>16, <1>17, <1>18 DEF WInv

-----------------------------------------------------------------------------
\* A change of the disk, and when chokidar must look.
LEMMA ChangedNamed ==
    ASSUME WInv, NEW disk \in [Path -> Nat], Changed(disk)
    PROVE  /\ file' = disk /\ due' \in [Path -> Nat]
           /\ \A r \in Path : disk[r] = file[r] => due'[r] = due[r]
           /\ \A r \in Path : seen[r] # disk[r] => due'[r] <= FsLate
<1>1. /\ file' = disk
      /\ due' = [r \in Path |-> IF disk[r] = file[r] THEN due[r]
                                ELSE IF disk[r] = seen[r] THEN Never ELSE FsLate]
      BY DEF Changed
<1>2. due \in [Path -> Nat] /\ \A r \in Path : seen[r] # file[r] => due[r] <= FsLate
      BY DEF WInv, Timers, InTime
<1>   QED
      BY <1>1, <1>2, Waits

\* A change of some names leaves the others as they were, whoever makes it.
LEMMA OthersStay ==
    ASSUME WInv, NEW ns, NEW disk \in [Path -> Nat], Changed(disk),
           \A r \in Path : r \notin ns =>
              /\ disk[r] = file[r] /\ marks'[r] = marks[r] /\ calls'[r] = calls[r]
              /\ known'[r] = known[r] /\ \A t \in Type : noted'[<<t, r>>] = noted[<<t, r>>],
           UNCHANGED <<seen, fsCalls>>, mine' \subseteq mine,
           \A r \in Path : r \notin ns /\ r \in silenced => r \in silenced',
           own' = own \/ own' = NoOp
    PROVE  /\ InTime'
           /\ \A r \in mine' : r \notin ns => Unsaved(r)' /\ Lasts(r)' /\ LastsOn(r)'
           /\ \A r \in Path \ silenced' :
                 r \notin ns /\ known'[r] # file'[r] => SaveWaits(r)' \/ LookWaits(r)'
<1>1. /\ file' = disk /\ due' \in [Path -> Nat]
      /\ \A r \in Path : disk[r] = file[r] => due'[r] = due[r]
      /\ \A r \in Path : seen[r] # disk[r] => due'[r] <= FsLate
      BY ChangedNamed
<1>2. InTime'
      BY <1>1 DEF InTime
<1>3. ASSUME NEW r \in mine', r \notin ns
      PROVE  Unsaved(r)' /\ Lasts(r)' /\ LastsOn(r)'
  <2>1. r \in Path /\ Unsaved(r) /\ Lasts(r) /\ LastsOn(r)
        BY DEF WInv, Marked, FilesKept
  <2>2. /\ file'[r] = file[r] /\ marks'[r] = marks[r] /\ calls'[r] = calls[r]
        /\ due'[r] = due[r]
        BY <1>1, <1>3, <2>1
  <2>3. Unsaved(r)' /\ Lasts(r)'
        BY <2>1, <2>2 DEF Unsaved, Lasts
  <2>4. CASE own' = own
        BY <2>1, <2>2, <2>3, <2>4 DEF LastsOn
  <2>5. CASE own' = NoOp
        BY <2>3, <2>5 DEF LastsOn, NoOp
  <2>   QED
        BY <2>4, <2>5
<1>4. ASSUME NEW r \in Path \ silenced', r \notin ns, known'[r] # file'[r]
      PROVE  SaveWaits(r)' \/ LookWaits(r)'
  <2>1. /\ file'[r] = file[r] /\ marks'[r] = marks[r] /\ calls'[r] = calls[r]
        /\ known'[r] = known[r] /\ \A t \in Type : noted'[<<t, r>>] = noted[<<t, r>>]
        BY <1>1, <1>4
  <2>2. SaveWaits(r) \/ LookWaits(r)
        BY <1>4, <2>1 DEF WInv, ToBeTold
  <2>3. CASE SaveWaits(r)
        BY <2>1, <2>3 DEF SaveWaits
  <2>4. CASE LookWaits(r)
        BY <2>1, <2>4 DEF LookWaits, Type
  <2>   QED
        BY <2>2, <2>3, <2>4
<1>   QED
      BY <1>2, <1>3, <1>4

\* What Obsidian's event of a change comes to: it is taken by a marker, or a save
\* is to be told, or it is passed on and read.
Taken(type, p, disk, k) ==
    /\ marks' \in [Path -> Marker] /\ noted' \in [Type \X Path -> Nat]
    /\ calls' \in [Path -> Nat] /\ \A r \in Path : calls'[r] <= Never
    /\ known' \in [Path -> Nat]
    /\ \A r \in Path : r # p =>
          /\ marks'[r] = marks[r] /\ calls'[r] = calls[r] /\ known'[r] = k[r]
          /\ \A t \in Type : noted'[<<t, r>>] = noted[<<t, r>>]
    /\ marks[p].left > 0 => calls' = calls /\ known' = k
    /\ marks[p].left > 0 /\ marks[p].count > 1 =>
          marks'[p].left = marks[p].left /\ marks'[p].count = marks[p].count - 1
    /\ marks[p].left = 0 =>
          IF type = "modify" THEN calls'[p] = Pause /\ known' = k
          ELSE known'[p] = disk[p]
    /\ ~echoed' \/ (marks[p].left = 0 /\ Echo({p}))

\* onCreate, onDelete and onModify come to that.
LEMMA DiskEventNamed ==
    ASSUME WInv, NEW type \in Type, NEW p \in Path, NEW disk \in [Path -> Nat],
           NEW k \in [Path -> Nat], DiskEvent(type, p, disk, k),
           type = "delete" => disk[p] = 0, type # "delete" => disk[p] # 0
    PROVE  Taken(type, p, disk, k)
<1>  USE DEF Taken
<1>1. /\ marks \in [Path -> Marker] /\ noted \in [Type \X Path -> Nat]
      /\ calls \in [Path -> Nat]
      /\ \A r \in Path : calls[r] <= Never
      /\ ~echoed /\ marks[p].left \in Nat
  <2>1. /\ marks \in [Path -> Marker] /\ noted \in [Type \X Path -> Nat]
        /\ calls \in [Path -> Nat]
        /\ \A r \in Path : calls[r] <= Never
        /\ ~echoed
        BY DEF WInv, Timers, EchoesStay
  <2>   QED
        BY <2>1 DEF Marker
<1>2. /\ marks' \in [Path -> Marker]
      /\ \A r \in Path : r # p => marks'[r] = marks[r]
      /\ marks[p].left > 0 /\ marks[p].count > 1 =>
            marks'[p].left = marks[p].left /\ marks'[p].count = marks[p].count - 1
  <2>1. marks' = Take(marks, {p})
        BY DEF DiskEvent
  <2>   QED
        BY <1>1, <2>1, TakeNamed
<1>3. CASE marks[p].left > 0
  <2>1. calls' = calls /\ known' = k /\ noted' = noted /\ echoed' = echoed
        BY <1>3 DEF DiskEvent, Live
  <2>2. ~(marks[p].left = 0) /\ ~echoed'
        BY <1>1, <1>3, <2>1
  <2>3. /\ noted' \in [Type \X Path -> Nat] /\ calls' \in [Path -> Nat]
        /\ \A r \in Path : calls'[r] <= Never /\ known' \in [Path -> Nat]
        BY <1>1, <2>1
  <2>   QED
        BY <1>2, <2>1, <2>2, <2>3
<1>4. CASE marks[p].left = 0
  <2>1. ~Live(marks[p]) /\ ~(marks[p].left > 0)
        BY <1>4 DEF Live
  <2>2. CASE type = "modify"
    <3>1. /\ calls' = [calls EXCEPT ![p] = Pause] /\ known' = k /\ noted' = noted
          /\ echoed' = echoed
          BY <2>1, <2>2 DEF DiskEvent
    <3>2. /\ calls' \in [Path -> Nat] /\ calls'[p] = Pause
          /\ \A r \in Path : calls'[r] <= Never
          /\ \A r \in Path : r # p => calls'[r] = calls[r]
          BY <1>1, <3>1, Waits
    <3>3. noted' \in [Type \X Path -> Nat] /\ ~echoed'
          BY <1>1, <3>1
    <3>   QED
          BY <1>2, <2>1, <2>2, <3>1, <3>2, <3>3
  <2>3. CASE type # "modify"
    <3>1. /\ calls' = calls /\ known' = Reads(k, disk, type, p) /\ noted' = Note(type, p)
          /\ Echo({p})
          BY <2>1, <2>3 DEF DiskEvent
    <3>2. /\ known' \in [Path -> Nat] /\ known'[p] = disk[p]
          /\ \A r \in Path : r # p => known'[r] = k[r]
          BY <3>1 DEF Reads
    <3>3. /\ noted' \in [Type \X Path -> Nat]
          /\ \A r \in Path : r # p => \A t \in Type : noted'[<<t, r>>] = noted[<<t, r>>]
          BY <1>1, <3>1, Waits DEF Note
    <3>4. /\ calls' \in [Path -> Nat]
          /\ \A r \in Path : calls'[r] = calls[r] /\ calls'[r] <= Never
          BY <1>1, <3>1
    <3>   QED
          BY <1>2, <1>4, <2>1, <2>3, <3>1, <3>2, <3>3, <3>4
  <2>   QED
        BY <2>2, <2>3
<1>   QED
      BY <1>1, <1>3, <1>4

\* The engine's operation comes through, with Obsidian's event, which is taken
\* if the name is the engine's, and leaves enough for chokidar's.
LEMMA ThroughHolds == ASSUME WInv, Through PROVE WInv'
<1>  SUFFICES ASSUME NEW p, p = own.p PROVE WInv'
     OBVIOUS
<1> DEFINE disk == [file EXCEPT ![p] = IF own.op = "delete" THEN 0 ELSE ops + 1]
           k == [known EXCEPT ![p] = disk[p]]
<1>1. /\ own.op \in Type /\ (own.op = "create") = (file[p] = 0) /\ Changed(disk)
      /\ DiskEvent(own.op, p, disk, k) /\ silenced' = silenced \ {p} /\ own' = NoOp
      /\ UNCHANGED <<pairs, fsCalls, seen, ops, mine>>
      BY DEF Through
<1>2. p \in Path /\ own.op # "" /\ own.op # "rename" /\ own.left \in Nat
      BY <1>1 DEF WInv, Owned, Type
<1>3. /\ disk \in [Path -> Nat] /\ k \in [Path -> Nat] /\ (own.op = "delete" => disk[p] = 0)
      /\ (own.op # "delete" => disk[p] # 0)
      /\ k[p] = disk[p] /\ \A r \in Path : r # p => disk[r] = file[r] /\ k[r] = known[r]
  <2>1. file \in [Path -> Nat] /\ known \in [Path -> Nat] /\ ops + 1 \in Nat /\ ops + 1 # 0
        BY DEF WInv, FilesKept
  <2>2. disk \in [Path -> Nat]
        BY <1>2, <2>1
  <2>3. disk[p] = IF own.op = "delete" THEN 0 ELSE ops + 1
        BY <1>2, <2>1
  <2>   QED
        BY <1>2, <2>1, <2>2, <2>3
<1>  HIDE DEF disk, k
<1>4. Taken(own.op, p, disk, k)
  <2>1. own.op \in Type /\ p \in Path /\ DiskEvent(own.op, p, disk, k)
        BY <1>1, <1>2
  <2>2. /\ disk \in [Path -> Nat] /\ k \in [Path -> Nat]
        /\ (own.op = "delete" => disk[p] = 0)
        /\ (own.op # "delete" => disk[p] # 0)
        BY <1>3
  <2>   QED
        BY <2>1, <2>2, DiskEventNamed
<1>  USE DEF Taken
<1>5. /\ file' = disk /\ due' \in [Path -> Nat]
      /\ \A r \in Path : seen[r] # disk[r] => due'[r] <= FsLate
      BY <1>1, <1>3, ChangedNamed
<1>6. /\ InTime'
      /\ \A r \in mine : r # p => Unsaved(r)' /\ Lasts(r)' /\ LastsOn(r)'
      /\ \A r \in Path \ silenced' :
            r # p /\ known'[r] # file'[r] => SaveWaits(r)' \/ LookWaits(r)'
  <2>1. \A r \in Path : r \notin {p} =>
              /\ disk[r] = file[r] /\ marks'[r] = marks[r] /\ calls'[r] = calls[r]
              /\ known'[r] = known[r] /\ \A t \in Type : noted'[<<t, r>>] = noted[<<t, r>>]
        BY <1>3, <1>4
  <2>2. /\ UNCHANGED <<seen, fsCalls>> /\ mine' \subseteq mine
        /\ \A r \in Path : r \notin {p} /\ r \in silenced => r \in silenced'
        BY <1>1
  <2>   QED
        BY <1>1, <1>3, <2>1, <2>2, OthersStay
<1>7. Timers'
  <2>1. /\ pairs' \in [Path \X Path -> Marker] /\ fsCalls' \in [Path -> Nat]
        /\ \A r \in Path : fsCalls'[r] <= Never
        BY <1>1 DEF WInv, Timers
  <2>   QED
        BY <1>4, <1>5, <2>1 DEF Timers
<1>8. FilesKept'
      BY <1>1, <1>3, <1>4, <1>5 DEF WInv, FilesKept
<1>9. Owned' /\ Awaited'
      BY <1>1 DEF Owned, Awaited, NoOp
<1>10. OnlyOwn'
       BY <1>1, <1>2 DEF WInv, OnlyOwn
<1>11. p \in mine => /\ marks[p].left > FsLate
                     /\ marks[p].left \in Nat /\ marks[p].count \in Nat
                     /\ marks[p].count >= EchoCount(own.op) + Looks(seen[p], file[p])
  <2>1. marks[p].left \in Nat /\ marks[p].count \in Nat
        BY <1>2 DEF WInv, Timers, Marker
  <2>2. p \in mine => LastsOn(p)
        BY DEF WInv, Marked
  <2>3. p \in mine => /\ marks[p].left > own.left + FsLate
                      /\ marks[p].count >= EchoCount(own.op) + Looks(seen[p], file[p])
        BY <1>2, <2>2 DEF LastsOn
  <2>4. own.left \in Nat
        BY <1>2
  <2>   QED
        BY <2>1, <2>3, <2>4, Waits
<1>12. EchoesStay'
  <2>1. p \in mine => ~echoed'
        BY <1>4, <1>11, Waits
  <2>2. p \notin mine /\ Echo({p}) => ~echoed'
        BY <1>1, NoEcho DEF WInv, EchoesStay
  <2>   QED
        BY <1>4, <2>1, <2>2 DEF EchoesStay
<1>13. ASSUME p \in mine
       PROVE  Unsaved(p)' /\ Lasts(p)' /\ LastsOn(p)'
  <2>1. /\ seen[p] \in Nat /\ file[p] \in Nat /\ disk[p] \in Nat
        /\ Looks(seen[p], file[p]) \in Nat
        /\ Looks(seen[p], disk[p]) \in Nat /\ Looks(file[p], disk[p]) \in Nat
        /\ Looks(seen[p], disk[p]) <= Looks(seen[p], file[p]) + Looks(file[p], disk[p])
    <3>1. seen[p] \in Nat /\ file[p] \in Nat /\ disk[p] \in Nat
          BY <1>2, <1>3 DEF WInv, FilesKept
    <3>   QED
          BY <3>1, LooksNamed
  <2>2. /\ Looks(file[p], disk[p]) + 1 <= EchoCount(own.op) /\ EchoCount(own.op) \in Nat
        /\ EchoCount(own.op) >= 2
        BY <1>1, <1>3 DEF Looks, EchoCount, Type
  <2>3. marks[p].count > 1 /\ marks[p].left > 0
        BY <1>11, <1>13, <2>1, <2>2, Waits
  <2>4. /\ marks'[p].left = marks[p].left /\ marks'[p].count = marks[p].count - 1
        /\ calls' = calls
        BY <1>4, <2>3
  <2>5. Unsaved(p)'
        BY <1>1, <1>13, <2>4 DEF WInv, Marked, Unsaved
  <2>6. seen'[p] = seen[p] /\ file'[p] = disk[p] /\ due'[p] \in Nat
        BY <1>1, <1>2, <1>5
  <2>7. marks'[p].count >= Looks(seen[p], disk[p])
        BY <1>11, <1>13, <2>1, <2>2, <2>4
  <2>8. seen[p] # disk[p] => marks'[p].left > due'[p]
    <3>1. seen[p] # disk[p] => due'[p] <= FsLate
          BY <1>2, <1>5
    <3>   QED
          BY <1>11, <1>13, <2>4, <2>6, <3>1, Waits
  <2>9. Lasts(p)'
        BY <2>6, <2>7, <2>8 DEF Lasts
  <2>10. LastsOn(p)'
        BY <1>1 DEF LastsOn, NoOp
  <2>   QED
        BY <2>5, <2>9, <2>10
<1>14. Marked'
       BY <1>1, <1>6, <1>13 DEF Marked
<1>15. ToBeTold'
  <2>1. known'[p] = file'[p]
    <3>1. marks[p] \in Marker
          BY <1>2 DEF WInv, Timers
    <3>2. marks[p].left > 0 \/ marks[p].left = 0
          BY <3>1 DEF Marker
    <3>   QED
          BY <1>3, <1>4, <1>5, <3>2
  <2>   QED
        BY <1>6, <2>1 DEF ToBeTold
<1>   QED
      BY <1>6, <1>7, <1>8, <1>9, <1>10, <1>12, <1>14, <1>15 DEF WInv

\* Somebody edits a file, in Obsidian or outside it: its name is the engine's no more.
LEMMA EditHolds ==
    ASSUME WInv, NEW type \in Type, NEW p \in Path, NEW inObsidian \in BOOLEAN,
           Edit(type, p, inObsidian)
    PROVE  WInv'
<1> DEFINE disk == [file EXCEPT ![p] = IF type = "delete" THEN 0 ELSE ops + 1]
           quiet == ~(MayBeDropped(p) \/ (~inObsidian /\ disk[p] = seen[p]))
<1>1. /\ Changed(disk) /\ ops' = ops + 1 /\ mine' = mine \ {p}
      /\ UNCHANGED <<own, fsCalls, seen, pairs>>
      /\ IF inObsidian THEN DiskEvent(type, p, disk, known)
         ELSE UNCHANGED <<known, marks, calls, noted, echoed>>
      /\ silenced' = IF quiet THEN silenced \ {p} ELSE silenced \cup {p}
      BY DEF Edit, Theirs
<1>2. /\ disk \in [Path -> Nat] /\ (type = "delete" => disk[p] = 0)
      /\ (type # "delete" => disk[p] # 0)
      /\ \A r \in Path : r # p => disk[r] = file[r]
      BY DEF WInv, FilesKept
<1>3. quiet => /\ marks[p].left = 0 /\ \A t \in Type : noted[<<t, p>>] = 0
               /\ inObsidian \/ disk[p] # seen[p]
  <2>1. marks[p] \in Marker /\ \A t \in Type : noted[<<t, p>>] \in Nat
        BY DEF WInv, Timers
  <2>   QED
        BY <2>1 DEF MayBeDropped, Marker
<1>  HIDE DEF disk, quiet
<1>4. /\ marks' \in [Path -> Marker] /\ noted' \in [Type \X Path -> Nat]
      /\ calls' \in [Path -> Nat] /\ \A r \in Path : calls'[r] <= Never
      /\ known' \in [Path -> Nat] /\ ~echoed'
      /\ \A r \in Path : r # p =>
            /\ marks'[r] = marks[r] /\ calls'[r] = calls[r] /\ known'[r] = known[r]
            /\ \A t \in Type : noted'[<<t, r>>] = noted[<<t, r>>]
  <2>1. known \in [Path -> Nat]
        BY DEF WInv, FilesKept
  <2>2. CASE inObsidian
    <3>1. DiskEvent(type, p, disk, known)
          BY <1>1, <2>2
    <3>2. p \notin mine' /\ ~echoed
          BY <1>1 DEF WInv, EchoesStay
    <3>3. Echo({p}) => ~echoed'
          BY <3>2, NoEcho
    <3>4. Taken(type, p, disk, known)
          BY <1>2, <2>1, <3>1, DiskEventNamed
    <3>   QED
          BY <3>3, <3>4 DEF Taken
  <2>3. CASE ~inObsidian
        BY <1>1, <2>3 DEF WInv, Timers, FilesKept, EchoesStay
  <2>   QED
        BY <2>2, <2>3
<1>5. file' = disk /\ due' \in [Path -> Nat]
      BY <1>1, <1>2, ChangedNamed
<1>6. /\ InTime'
      /\ \A r \in mine' : r # p => Unsaved(r)' /\ Lasts(r)' /\ LastsOn(r)'
      /\ \A r \in Path \ silenced' :
            r # p /\ known'[r] # file'[r] => SaveWaits(r)' \/ LookWaits(r)'
  <2>1. \A r \in Path : r \notin {p} =>
              /\ disk[r] = file[r] /\ marks'[r] = marks[r] /\ calls'[r] = calls[r]
              /\ known'[r] = known[r] /\ \A t \in Type : noted'[<<t, r>>] = noted[<<t, r>>]
        BY <1>2, <1>4
  <2>2. /\ UNCHANGED <<seen, fsCalls>> /\ mine' \subseteq mine /\ own' = own
        /\ \A r \in Path : r \notin {p} /\ r \in silenced => r \in silenced'
        BY <1>1
  <2>   QED
        BY <1>1, <1>2, <2>1, <2>2, OthersStay
<1>7. Timers'
  <2>1. /\ pairs' \in [Path \X Path -> Marker] /\ fsCalls' \in [Path -> Nat]
        /\ \A r \in Path : fsCalls'[r] <= Never
        BY <1>1 DEF WInv, Timers
  <2>   QED
        BY <1>4, <1>5, <2>1 DEF Timers
<1>8. FilesKept'
      BY <1>1, <1>2, <1>4, <1>5 DEF WInv, FilesKept
<1>9. Owned' /\ Awaited' /\ OnlyOwn' /\ EchoesStay'
  <2>1. Owned' /\ OnlyOwn'
        BY <1>1 DEF WInv, Owned, OnlyOwn
  <2>2. Awaited'
        BY <1>1 DEF WInv, Awaited
  <2>   QED
        BY <1>4, <2>1, <2>2 DEF EchoesStay
<1>10. Marked'
       BY <1>1, <1>6 DEF Marked
<1>11. ToBeTold'
  <2>1. ASSUME p \notin silenced', known'[p] # file'[p]
        PROVE  SaveWaits(p)' \/ LookWaits(p)'
    <3>1. quiet
          BY <1>1, <2>1
    <3>2. marks[p].left = 0 /\ \A t \in Type : noted[<<t, p>>] = 0
          BY <1>3, <3>1
    <3>3. CASE inObsidian
      <4>1. IF type = "modify" THEN calls'[p] = Pause ELSE known'[p] = disk[p]
        <5>1. known \in [Path -> Nat] /\ DiskEvent(type, p, disk, known)
              BY <1>1, <3>3 DEF WInv, FilesKept
        <5>2. Taken(type, p, disk, known)
              BY <1>2, <5>1, DiskEventNamed
        <5>   QED
              BY <3>2, <5>2 DEF Taken
      <4>2. type = "modify" /\ disk[p] # 0
            BY <1>2, <1>5, <2>1, <4>1
      <4>   QED
            BY <1>5, <4>1, <4>2, Waits DEF SaveWaits
    <3>4. CASE ~inObsidian
      <4>1. UNCHANGED <<marks, noted>> /\ disk[p] # seen[p] /\ seen' = seen
            BY <1>1, <1>3, <3>1, <3>4
      <4>   QED
            BY <1>5, <3>2, <4>1 DEF LookWaits, Type
    <3>   QED
          BY <3>3, <3>4
  <2>   QED
        BY <1>6, <2>1 DEF ToBeTold
<1>   QED
      BY <1>6, <1>7, <1>8, <1>9, <1>10, <1>11 DEF WInv

-----------------------------------------------------------------------------
\* What Obsidian's event of a rename within the binding comes to: it is expected,
\* or recorded.
Renamed(p, q, disk, k) ==
    /\ pairs' = Less(<<p, q>>, pairs) /\ calls' = calls /\ noted' = noted
    /\ marks' \in [Path -> Marker] /\ known' \in [Path -> Nat]
    /\ \A r \in Path : r \notin {p, q} => marks'[r] = marks[r] /\ known'[r] = k[r]
    /\ \A r \in {p, q} : marks[r].left > 0 /\ marks[r].count > 1 =>
          /\ marks'[r].left = marks[r].left \/ marks'[r].left = Ttl
          /\ marks'[r].count >= marks[r].count - 1
    /\ IF Live(pairs[<<p, q>>]) THEN known' = k
       ELSE known'[p] = 0 /\ known'[q] = IF k[p] = 0 THEN disk[q] ELSE k[p]
    /\ ~echoed' \/ (~Live(pairs[<<p, q>>]) /\ Echo({p, q}))

\* onRename comes to that.
LEMMA RenameEventNamed ==
    ASSUME WInv, NEW p \in Path, NEW q \in Path, p # q, NEW disk \in [Path -> Nat],
           NEW k \in [Path -> Nat], RenameEvent(p, q, disk, k), disk[p] = 0, disk[q] # 0
    PROVE  Renamed(p, q, disk, k)
<1> DEFINE taken == Take(marks, {p, q})
<1>1. {p, q} \cap Path = {p, q}
      OBVIOUS
<1>2. /\ UNCHANGED calls /\ pairs' = Less(<<p, q>>, pairs)
      /\ IF Live(pairs[<<p, q>>])
         THEN marks' = taken /\ known' = k /\ UNCHANGED <<noted, echoed>>
         ELSE /\ marks' = Mark(taken, {p, q}, EchoCount("rename"))
              /\ known' = ToldRename(k, disk, p, q) /\ UNCHANGED noted /\ Echo({p, q})
      BY <1>1 DEF RenameEvent
<1>3. /\ marks \in [Path -> Marker] /\ taken \in [Path -> Marker]
      /\ \A r \in Path : r \notin {p, q} => taken[r] = marks[r]
      /\ \A r \in {p, q} : marks[r].left > 0 /\ marks[r].count > 1 =>
            taken[r].left = marks[r].left /\ taken[r].count = marks[r].count - 1
  <2>1. marks \in [Path -> Marker]
        BY DEF WInv, Timers
  <2>   QED
        BY <2>1, TakeNamed
<1>4. \A r \in Path : marks[r].left \in Nat /\ marks[r].count \in Nat
      BY <1>3 DEF Marker
<1>  HIDE DEF taken
<1>5. CASE Live(pairs[<<p, q>>])
  <2>1. marks' = taken /\ known' = k /\ UNCHANGED <<noted, echoed>>
        BY <1>2, <1>5
  <2>2. ~echoed'
        BY <2>1 DEF WInv, EchoesStay
  <2>3. \A r \in {p, q} : marks[r].left > 0 /\ marks[r].count > 1 =>
          marks'[r].left = marks[r].left /\ marks'[r].count >= marks[r].count - 1
        BY <1>3, <1>4, <2>1
  <2>   QED
        BY <1>2, <1>3, <1>5, <2>1, <2>2, <2>3 DEF Renamed
<1>6. CASE ~Live(pairs[<<p, q>>])
  <2>1. /\ marks' = Mark(taken, {p, q}, 2) /\ UNCHANGED noted /\ Echo({p, q})
        /\ known' = ToldRename(k, disk, p, q)
        BY <1>2, <1>6 DEF EchoCount
  <2>2. /\ marks' \in [Path -> Marker]
        /\ \A r \in Path : r \notin {p, q} => marks'[r] = taken[r]
        /\ \A r \in Path : r \in {p, q} =>
              /\ marks'[r].left = Ttl
              /\ (taken[r].left > 0 => marks'[r].count = taken[r].count + 2)
        BY <1>3, <2>1, MarkNamed
  <2>3. \A r \in {p, q} : marks[r].left > 0 /\ marks[r].count > 1 =>
          marks'[r].left = Ttl /\ marks'[r].count >= marks[r].count - 1
    <3>1. SUFFICES ASSUME NEW r \in Path, r \in {p, q}, marks[r].left > 0,
                          marks[r].count > 1
                   PROVE  marks'[r].left = Ttl /\ marks'[r].count >= marks[r].count - 1
          OBVIOUS
    <3>2. taken[r].left = marks[r].left /\ taken[r].count = marks[r].count - 1
          BY <1>3, <3>1
    <3>3. marks'[r].left = Ttl /\ marks'[r].count = taken[r].count + 2
          BY <2>2, <3>1, <3>2
    <3>   QED
          BY <1>4, <3>1, <3>2, <3>3
  <2>4. /\ known' \in [Path -> Nat] /\ \A r \in Path : r \notin {p, q} => known'[r] = k[r]
        /\ known'[p] = 0 /\ known'[q] = IF k[p] = 0 THEN disk[q] ELSE k[p]
        BY <2>1 DEF ToldRename, Reads
  <2>   QED
        BY <1>2, <1>3, <1>6, <2>1, <2>2, <2>3, <2>4 DEF Renamed
<1>   QED
      BY <1>5, <1>6

\* The engine's rename comes through; expected, if both names are the engine's.
LEMMA RenamedThroughHolds == ASSUME WInv, RenamedThrough PROVE WInv'
<1>  SUFFICES ASSUME NEW p, NEW q, p = own.p, q = own.q PROVE WInv'
     OBVIOUS
<1> DEFINE disk == [file EXCEPT ![p] = 0, ![q] = file[p]]
           k == [known EXCEPT ![p] = 0, ![q] = known[p]]
<1>1. /\ own.op = "rename" /\ file[p] # 0 /\ file[q] = 0 /\ Changed(disk)
      /\ RenameEvent(p, q, disk, k) /\ own' = NoOp
      /\ silenced' = (silenced \ {p, q})
                     \cup (IF p \in silenced \/ Untold(p) THEN {q} ELSE {})
      /\ UNCHANGED <<fsCalls, seen, ops, mine>>
      BY DEF RenamedThrough
<1>2. p \in Path /\ q \in Path /\ p # q /\ own.left \in Nat
      BY <1>1 DEF WInv, Owned
<1>3. /\ disk \in [Path -> Nat] /\ k \in [Path -> Nat] /\ disk[p] = 0 /\ disk[q] = file[p]
      /\ k[p] = 0 /\ k[q] = known[p]
      /\ \A r \in Path : r \notin {p, q} => disk[r] = file[r] /\ k[r] = known[r]
  <2>1. file \in [Path -> Nat] /\ known \in [Path -> Nat]
        BY DEF WInv, FilesKept
  <2>   QED
        BY <1>2, <2>1
<1>  HIDE DEF disk, k
<1>4. Renamed(p, q, disk, k)
  <2>1. disk[q] # 0
        BY <1>1, <1>3
  <2>   QED
        BY <1>1, <1>2, <1>3, <2>1, RenameEventNamed
<1>  USE DEF Renamed
<1>5. /\ file' = disk /\ due' \in [Path -> Nat]
      /\ \A r \in Path : seen[r] # disk[r] => due'[r] <= FsLate
      BY <1>1, <1>3, ChangedNamed
<1>6. /\ InTime'
      /\ \A r \in mine : r \notin {p, q} => Unsaved(r)' /\ Lasts(r)' /\ LastsOn(r)'
      /\ \A r \in Path \ silenced' :
            r \notin {p, q} /\ known'[r] # file'[r] => SaveWaits(r)' \/ LookWaits(r)'
  <2>1. \A r \in Path : r \notin {p, q} =>
              /\ disk[r] = file[r] /\ marks'[r] = marks[r] /\ calls'[r] = calls[r]
              /\ known'[r] = known[r] /\ \A t \in Type : noted'[<<t, r>>] = noted[<<t, r>>]
        BY <1>3, <1>4
  <2>2. /\ UNCHANGED <<seen, fsCalls>> /\ mine' \subseteq mine
        /\ \A r \in Path : r \notin {p, q} /\ r \in silenced => r \in silenced'
        BY <1>1
  <2>   QED
        BY <1>1, <1>3, <2>1, <2>2, OthersStay
<1>7. pairs' \in [Path \X Path -> Marker] /\ \A pq \in Path \X Path : ~Live(pairs'[pq])
  <2>1. \A pq \in Path \X Path : pq # <<p, q>> => ~Live(pairs[pq])
        BY DEF WInv, OnlyOwn
  <2>2. /\ Less(<<p, q>>, pairs) \in [Path \X Path -> Marker]
        /\ ~Live(Less(<<p, q>>, pairs)[<<p, q>>])
        /\ \A pq \in Path \X Path :
              pq # <<p, q>> => Less(<<p, q>>, pairs)[pq] = pairs[pq]
        BY <1>2, LessNamed DEF WInv
  <2>3. pairs' = Less(<<p, q>>, pairs)
        BY <1>4
  <2>   QED
        BY <2>1, <2>2, <2>3
<1>8. Timers'
  <2>1. /\ fsCalls' \in [Path -> Nat] /\ calls' \in [Path -> Nat]
        /\ noted' \in [Type \X Path -> Nat]
        /\ \A r \in Path : calls'[r] <= Never /\ fsCalls'[r] <= Never
        BY <1>1, <1>4 DEF WInv, Timers
  <2>   QED
        BY <1>4, <1>5, <1>7, <2>1 DEF Timers
<1>9. FilesKept'
      BY <1>1, <1>2, <1>3, <1>4, <1>5 DEF WInv, FilesKept
<1>10. Owned' /\ Awaited' /\ OnlyOwn'
       BY <1>1, <1>7 DEF Owned, Awaited, OnlyOwn, NoOp
<1>11. EchoesStay'
  <2>1. CASE p \in mine /\ q \in mine
    <3>1. pairs[<<p, q>>].left > own.left /\ pairs[<<p, q>>].left \in Nat
      <4>1. pairs[<<p, q>>] \in Marker
            BY <1>2 DEF WInv, Timers
      <4>   QED
            BY <1>1, <2>1, <4>1 DEF WInv, Awaited, Marker
    <3>2. Live(pairs[<<p, q>>])
          BY <1>2, <3>1 DEF Live
    <3>   QED
          BY <1>4, <3>2 DEF EchoesStay
  <2>2. CASE ~(p \in mine /\ q \in mine)
    <3>1. Echo({p, q}) => ~echoed'
          BY <1>1, <2>2, NoEcho DEF WInv, EchoesStay
    <3>   QED
          BY <1>4, <3>1 DEF EchoesStay
  <2>   QED
        BY <2>1, <2>2
<1>12. ASSUME NEW r \in mine, r \in {p, q}
       PROVE  Unsaved(r)' /\ Lasts(r)' /\ LastsOn(r)'
  <2>1. /\ seen[r] \in Nat /\ file[r] \in Nat /\ disk[r] \in Nat /\ r \in Path
        /\ marks[r].left \in Nat /\ marks[r].count \in Nat /\ marks'[r] \in Marker
    <3>1. marks[r] \in Marker /\ r \in Path
          BY <1>2, <1>12 DEF WInv, Timers
    <3>   QED
          BY <1>3, <1>4, <3>1 DEF WInv, FilesKept, Marker
  <2>2. /\ Looks(seen[r], file[r]) \in Nat /\ Looks(seen[r], disk[r]) \in Nat
        /\ Looks(seen[r], disk[r]) <= Looks(seen[r], file[r]) + Looks(file[r], disk[r])
        BY <2>1, LooksNamed
  <2>3. Looks(file[r], disk[r]) = 1
        BY <1>1, <1>3, <1>12 DEF Looks
  <2>4. /\ marks[r].left > own.left + FsLate
        /\ marks[r].count >= EchoCount(own.op) + Looks(seen[r], file[r])
        /\ Unsaved(r)
    <3>1. LastsOn(r) /\ Unsaved(r)
          BY <1>12 DEF WInv, Marked
    <3>2. own.op # "" /\ (r = own.p \/ r = own.q)
          BY <1>1, <1>12
    <3>   QED
          BY <3>1, <3>2 DEF LastsOn
  <2>5. marks[r].left > FsLate /\ marks[r].count >= 2 + Looks(seen[r], file[r])
        BY <1>1, <1>2, <2>1, <2>4, Waits DEF EchoCount
  <2>6. marks[r].left > 0 /\ marks[r].count > 1
        BY <2>1, <2>2, <2>5, Waits
  <2>7. /\ marks'[r].left = marks[r].left \/ marks'[r].left = Ttl
        /\ marks'[r].count >= marks[r].count - 1
        BY <1>4, <1>12, <2>6
  <2>8. marks'[r].left > FsLate /\ marks'[r].left \in Nat /\ marks'[r].count \in Nat
        BY <2>1, <2>5, <2>7, Waits DEF Marker
  <2>9. marks'[r].count >= Looks(seen[r], disk[r])
        BY <2>1, <2>2, <2>3, <2>5, <2>7, <2>8
  <2>10. seen[r] # disk[r] => marks'[r].left > due'[r]
    <3>1. due'[r] \in Nat /\ (seen[r] # disk[r] => due'[r] <= FsLate)
          BY <1>5, <2>1
    <3>   QED
          BY <2>8, <3>1, Waits
  <2>11. seen'[r] = seen[r] /\ file'[r] = disk[r]
         BY <1>1, <1>5
  <2>12. Unsaved(r)'
         BY <1>1, <1>4, <2>4 DEF Unsaved
  <2>13. Lasts(r)'
         BY <2>9, <2>10, <2>11 DEF Lasts
  <2>14. LastsOn(r)'
         BY <1>1 DEF LastsOn, NoOp
  <2>   QED
        BY <2>12, <2>13, <2>14
<1>13. Marked'
       BY <1>1, <1>6, <1>12 DEF Marked
<1>14. ToBeTold'
  <2>1. known'[p] = file'[p]
        BY <1>3, <1>4, <1>5
  <2>2. q \notin silenced' => known'[q] = file'[q]
    <3>1. q \notin silenced' => known[p] = file[p]
          BY <1>1 DEF Untold
    <3>   QED
          BY <1>3, <1>4, <1>5, <3>1
  <2>   QED
        BY <1>6, <2>1, <2>2 DEF ToBeTold
<1>   QED
      BY <1>6, <1>8, <1>9, <1>10, <1>11, <1>13, <1>14 DEF WInv

-----------------------------------------------------------------------------
\* The user's rename within the binding: the names are the engine's no more.
LEMMA UserRenamesHolds ==
    ASSUME WInv, NEW p \in Path, NEW q \in Path, UserMoves(p, q)
    PROVE  WInv'
<1> DEFINE disk == [n \in Path |-> IF n = p THEN 0
                                   ELSE IF n # q THEN file[n]
                                   ELSE IF p = Outside THEN ops + 1 ELSE file[p]]
<1>1. /\ p # q /\ file[p] # 0 /\ file[q] = 0 /\ Changed(disk)
      /\ RenameEvent(p, q, disk, known)
      /\ ops' = ops + 1 /\ mine' = mine \ {p, q} /\ UNCHANGED <<own, fsCalls, seen>>
      /\ silenced' = (silenced \ {p, q}) \cup {n \in {p, q} : MayBeDropped(n)}
                     \cup (IF p \in silenced \/ Untold(p) THEN {q} ELSE {})
  <2>1. p # Outside /\ q # Outside /\ {p, q} \cap Path = {p, q}
        BY Waits
  <2>   QED
        BY <2>1 DEF UserMoves, Theirs
<1>2. /\ disk \in [Path -> Nat] /\ disk[p] = 0 /\ disk[q] = file[p]
      /\ \A r \in Path : r \notin {p, q} => disk[r] = file[r]
  <2>1. file \in [Path -> Nat] /\ p # Outside /\ p # q
        BY <1>1, Waits DEF WInv, FilesKept
  <2>   QED
        BY <2>1
<1>  HIDE DEF disk
<1>3. known \in [Path -> Nat]
      BY DEF WInv, FilesKept
<1>4. Renamed(p, q, disk, known)
  <2>1. disk[q] # 0
        BY <1>1, <1>2
  <2>   QED
        BY <1>1, <1>2, <1>3, <2>1, RenameEventNamed
<1>  USE DEF Renamed
<1>5. file' = disk /\ due' \in [Path -> Nat]
      BY <1>1, <1>2, ChangedNamed
<1>6. /\ InTime'
      /\ \A r \in mine' : r \notin {p, q} => Unsaved(r)' /\ Lasts(r)' /\ LastsOn(r)'
      /\ \A r \in Path \ silenced' :
            r \notin {p, q} /\ known'[r] # file'[r] => SaveWaits(r)' \/ LookWaits(r)'
  <2>1. \A r \in Path : r \notin {p, q} =>
              /\ disk[r] = file[r] /\ marks'[r] = marks[r] /\ calls'[r] = calls[r]
              /\ known'[r] = known[r] /\ \A t \in Type : noted'[<<t, r>>] = noted[<<t, r>>]
        BY <1>2, <1>4
  <2>2. /\ UNCHANGED <<seen, fsCalls>> /\ mine' \subseteq mine /\ own' = own
        /\ \A r \in Path : r \notin {p, q} /\ r \in silenced => r \in silenced'
        BY <1>1
  <2>   QED
        BY <1>1, <1>2, <2>1, <2>2, OthersStay
<1>7. /\ pairs' \in [Path \X Path -> Marker] /\ ~Live(pairs'[<<p, q>>])
      /\ \A pq \in Path \X Path : pq # <<p, q>> => pairs'[pq] = pairs[pq]
  <2>1. /\ Less(<<p, q>>, pairs) \in [Path \X Path -> Marker]
        /\ ~Live(Less(<<p, q>>, pairs)[<<p, q>>])
        /\ \A pq \in Path \X Path :
              pq # <<p, q>> => Less(<<p, q>>, pairs)[pq] = pairs[pq]
        BY LessNamed DEF WInv
  <2>2. pairs' = Less(<<p, q>>, pairs)
        BY <1>4
  <2>   QED
        BY <2>1, <2>2
<1>8. Timers'
  <2>1. /\ fsCalls' \in [Path -> Nat] /\ calls' \in [Path -> Nat]
        /\ noted' \in [Type \X Path -> Nat]
        /\ \A r \in Path : calls'[r] <= Never /\ fsCalls'[r] <= Never
        BY <1>1, <1>4 DEF WInv, Timers
  <2>   QED
        BY <1>4, <1>5, <1>7, <2>1 DEF Timers
<1>9. FilesKept'
      BY <1>1, <1>2, <1>4, <1>5 DEF WInv, FilesKept
<1>10. Owned'
       BY <1>1 DEF WInv, Owned
<1>11. OnlyOwn'
  <2>1. \A pq \in Path \X Path : Live(pairs'[pq]) => pairs'[pq] = pairs[pq]
        BY <1>7
  <2>   QED
        BY <1>1, <2>1 DEF WInv, OnlyOwn
<1>12. Awaited'
  <2>1. SUFFICES ASSUME own.op = "rename", own.p \in mine', own.q \in mine'
                 PROVE  /\ pairs'[<<own.p, own.q>>].left > own.left
                        /\ pairs'[<<own.p, own.q>>].count > 0
        BY <1>1 DEF Awaited
  <2>2. own.p \in mine /\ own.q \in mine /\ own.p # p
        BY <1>1, <2>1
  <2>3. <<own.p, own.q>> \in Path \X Path /\ <<own.p, own.q>> # <<p, q>>
        BY <2>2 DEF WInv, FilesKept
  <2>   QED
        BY <1>7, <2>1, <2>2, <2>3 DEF WInv, Awaited
<1>13. EchoesStay'
  <2>1. p \notin mine'
        BY <1>1
  <2>2. Echo({p, q}) => ~echoed'
        BY <2>1, NoEcho DEF WInv, EchoesStay
  <2>   QED
        BY <1>4, <2>2 DEF EchoesStay
<1>14. Marked'
       BY <1>1, <1>6 DEF Marked
<1>15. ToBeTold'
  <2>1. ASSUME Live(pairs[<<p, q>>])
        PROVE  p \in silenced' /\ q \in silenced'
    <3>1. own.p = p /\ own.q = q
          BY <2>1 DEF WInv, OnlyOwn
    <3>2. MayBeDropped(p) /\ MayBeDropped(q)
          BY <3>1 DEF MayBeDropped
    <3>   QED
          BY <1>1, <3>2
  <2>2. ASSUME ~Live(pairs[<<p, q>>])
        PROVE  known'[p] = file'[p] /\ (q \notin silenced' => known'[q] = file'[q])
    <3>1. q \notin silenced' => known[p] = file[p]
          BY <1>1 DEF Untold
    <3>   QED
          BY <1>2, <1>4, <1>5, <2>2, <3>1
  <2>   QED
        BY <1>6, <2>1, <2>2 DEF ToBeTold
<1>   QED
      BY <1>6, <1>8, <1>9, <1>10, <1>11, <1>12, <1>13, <1>14, <1>15 DEF WInv

\* The user's rename out of the binding, or into it: told as a delete or a create.
LEMMA UserMovesOutHolds ==
    ASSUME WInv, NEW n \in Path, NEW type \in {"delete", "create"},
           UserMoves(IF type = "delete" THEN n ELSE Outside,
                     IF type = "delete" THEN Outside ELSE n)
    PROVE  WInv'
<1>  SUFFICES ASSUME NEW p, NEW q, UserMoves(p, q),
                     p = IF type = "delete" THEN n ELSE Outside,
                     q = IF type = "delete" THEN Outside ELSE n
              PROVE  WInv'
     OBVIOUS
<1> DEFINE disk == [m \in Path |-> IF m = p THEN 0
                                   ELSE IF m # q THEN file[m]
                                   ELSE IF p = Outside THEN ops + 1 ELSE file[p]]
<1>1. /\ {p, q} \cap Path = {n} /\ {n} # {p, q} /\ Outside # n
      /\ (q = Outside) = (type = "delete")
      BY Waits
<1>2. /\ Changed(disk) /\ RenameEvent(p, q, disk, known)
      /\ ops' = ops + 1 /\ mine' = mine \ {n} /\ UNCHANGED <<own, fsCalls, seen>>
      /\ silenced' = (silenced \ {n}) \cup {m \in {n} : MayBeDropped(m)}
      BY <1>1 DEF UserMoves, Theirs
<1>3. /\ disk \in [Path -> Nat] /\ \A r \in Path : r # n => disk[r] = file[r]
      /\ disk[n] = IF type = "delete" THEN 0 ELSE ops + 1
  <2>1. file \in [Path -> Nat] /\ ops + 1 \in Nat
        BY DEF WInv, FilesKept
  <2>2. CASE type = "delete"
        BY <1>1, <2>1, <2>2
  <2>3. CASE type = "create"
        BY <1>1, <2>1, <2>3
  <2>   QED
        BY <2>2, <2>3
<1>  HIDE DEF disk
<1>4. /\ calls' = calls /\ pairs' = pairs /\ marks' = Take(marks, {n})
      /\ known' = Reads(known, disk, type, n) /\ noted' = Note(type, n) /\ Echo({n})
      BY <1>1, <1>2 DEF RenameEvent
<1>5. /\ marks' \in [Path -> Marker] /\ \A r \in Path : r # n => marks'[r] = marks[r]
      BY <1>4, TakeNamed DEF WInv, Timers
<1>6. /\ known' \in [Path -> Nat] /\ known'[n] = disk[n]
      /\ \A r \in Path : r # n => known'[r] = known[r]
  <2>1. known \in [Path -> Nat] /\ ops + 1 # 0
        BY DEF WInv, FilesKept
  <2>   QED
        BY <1>3, <1>4, <2>1 DEF Reads
<1>7. /\ noted' \in [Type \X Path -> Nat]
      /\ \A r \in Path : r # n => \A t \in Type : noted'[<<t, r>>] = noted[<<t, r>>]
  <2>1. noted \in [Type \X Path -> Nat] /\ type \in Type
        BY DEF WInv, Timers, Type
  <2>   QED
        BY <1>4, <2>1, Waits DEF Note
<1>8. ~echoed'
      BY <1>2, <1>4, NoEcho DEF WInv, EchoesStay
<1>9. file' = disk /\ due' \in [Path -> Nat]
      BY <1>2, <1>3, ChangedNamed
<1>10. /\ InTime'
       /\ \A r \in mine' : r # n => Unsaved(r)' /\ Lasts(r)' /\ LastsOn(r)'
       /\ \A r \in Path \ silenced' :
             r # n /\ known'[r] # file'[r] => SaveWaits(r)' \/ LookWaits(r)'
  <2>1. \A r \in Path : r \notin {n} =>
              /\ disk[r] = file[r] /\ marks'[r] = marks[r] /\ calls'[r] = calls[r]
              /\ known'[r] = known[r] /\ \A t \in Type : noted'[<<t, r>>] = noted[<<t, r>>]
        BY <1>3, <1>4, <1>5, <1>6, <1>7
  <2>2. /\ UNCHANGED <<seen, fsCalls>> /\ mine' \subseteq mine /\ own' = own
        /\ \A r \in Path : r \notin {n} /\ r \in silenced => r \in silenced'
        BY <1>2
  <2>   QED
        BY <1>2, <1>3, <2>1, <2>2, OthersStay
<1>11. Timers'
       BY <1>2, <1>4, <1>5, <1>7, <1>9 DEF WInv, Timers
<1>12. FilesKept'
       BY <1>2, <1>3, <1>6, <1>9 DEF WInv, FilesKept
<1>13. Owned' /\ OnlyOwn' /\ Awaited' /\ EchoesStay'
  <2>1. Owned' /\ OnlyOwn'
        BY <1>2, <1>4 DEF WInv, Owned, OnlyOwn
  <2>2. Awaited'
        BY <1>2, <1>4 DEF WInv, Awaited
  <2>   QED
        BY <1>8, <2>1, <2>2 DEF EchoesStay
<1>14. Marked'
       BY <1>2, <1>10 DEF Marked
<1>15. ToBeTold'
  <2>1. known'[n] = file'[n]
        BY <1>6, <1>9
  <2>   QED
        BY <1>10, <2>1 DEF ToBeTold
<1>   QED
      BY <1>10, <1>11, <1>12, <1>13, <1>14, <1>15 DEF WInv

\* The user's renames, one way or the other.
LEMMA UserMovesHolds ==
    ASSUME WInv, NEW p \in Path \cup {Outside}, NEW q \in Path \cup {Outside},
           UserMoves(p, q)
    PROVE  WInv'
<1>1. p # q
      BY DEF UserMoves
<1>2. CASE p \in Path /\ q \in Path
      BY <1>2, UserRenamesHolds
<1>3. CASE p \in Path /\ q = Outside
  <2>1. UserMoves(IF "delete" = "delete" THEN p ELSE Outside,
                  IF "delete" = "delete" THEN Outside ELSE p)
        BY <1>3
  <2>   QED
        BY <1>3, <2>1, UserMovesOutHolds
<1>4. CASE p = Outside /\ q \in Path
  <2>1. UserMoves(IF "create" = "delete" THEN q ELSE Outside,
                  IF "create" = "delete" THEN Outside ELSE q)
        BY <1>4
  <2>   QED
        BY <1>4, <2>1, UserMovesOutHolds
<1>   QED
      BY <1>1, <1>2, <1>3, <1>4

-----------------------------------------------------------------------------
\* Every step keeps the invariant.
LEMMA WatchersStep == WInv /\ [WatchersNext]_wvars => WInv'
<1>  SUFFICES ASSUME WInv, [WatchersNext]_wvars PROVE WInv'
     OBVIOUS
<1>1. CASE UNCHANGED wvars
  <2>1. Timers' /\ FilesKept' /\ Owned' /\ InTime' /\ OnlyOwn' /\ Awaited' /\ EchoesStay'
        BY <1>1 DEF WInv, wvars, Timers, FilesKept, Owned, InTime, OnlyOwn, Awaited, EchoesStay
  <2>2. Marked' /\ ToBeTold'
        BY <1>1 DEF WInv, wvars, Marked, Unsaved, Lasts, LastsOn, ToBeTold, SaveWaits,
                    LookWaits
  <2>   QED
        BY <2>1, <2>2 DEF WInv
<1>2. CASE \E p \in Path : SaveTold(p) \/ FsLooks(p) \/ FsSplits(p) \/ FsSaveTold(p)
      BY <1>2, SaveToldHolds, FsLooksHolds, FsSplitsHolds, FsSaveToldHolds
<1>3. CASE \E op \in Type \cup {"rename"}, p, q \in Path : Begin(op, p, q)
      BY <1>3, BeginHolds
<1>4. CASE Through \/ RenamedThrough \/ OwnFails
      BY <1>4, ThroughHolds, RenamedThroughHolds, OwnFailsHolds
<1>5. CASE \E type \in Type, p \in Path, inObsidian \in BOOLEAN : Edit(type, p, inObsidian)
      BY <1>5, EditHolds
<1>6. CASE \E p, q \in Path \cup {Outside} : UserMoves(p, q)
      BY <1>6, UserMovesHolds
<1>7. CASE Tick
      BY <1>7, TickHolds
<1>   QED
      BY <1>1, <1>2, <1>3, <1>4, <1>5, <1>6, <1>7 DEF WatchersNext

\* The watchers' invariant: what the markers still hold for each name only the
\* engine has changed, and who is to tell of each version it does not know.
THEOREM WatchersInvariant == WatchersSpec => []WInv
<1>1. WatchersInit => WInv
      BY WatchersInitHolds
<1>2. WInv /\ [WatchersNext]_wvars => WInv'
      BY WatchersStep
<1>   QED
      BY <1>1, <1>2, PTL DEF WatchersSpec

\* What the engine does on the disk never comes back to it as a change of the
\* user's (recently-applied.ts, obsidian-events.ts, fs-watcher.ts), for any
\* names, as long as a marker outlives an operation and chokidar's delay.
THEOREM EchoesStayAlways == WatchersSpec => []EchoesStay
<1>1. WInv => EchoesStay
      BY DEF WInv
<1>   QED
      BY <1>1, WatchersInvariant, PTL

\* Once no watcher has anything left to tell, the engine knows every version but
\* of the names changed under a live marker or note.
THEOREM InStepAlways == WatchersSpec => []InStep
<1>1. WInv => InStep
  <2>  SUFFICES ASSUME WInv, seen = file,
                       \A p \in Path : calls[p] = Never /\ fsCalls[p] = Never,
                       NEW p \in Path \ silenced
                PROVE  known[p] = file[p]
       BY DEF InStep
  <2>1. ~SaveWaits(p) /\ ~LookWaits(p)
        BY DEF SaveWaits, LookWaits
  <2>   QED
        BY <2>1 DEF WInv, ToBeTold
<1>   QED
      BY <1>1, WatchersInvariant, PTL
-----------------------------------------------------------------------------
(***************************************************************************)
(* LogFile.                                                                *)
(***************************************************************************)

Line == Nat \X Nat
LogTypes ==
    /\ log \in [Files -> Seq(Line)] /\ stored \in Seq(Line) /\ line \in Line
    /\ at \in {"idle", "drop", "shift", "append"} /\ moving \in 0 .. MaxArchives - 1
    /\ lines \in Nat /\ faults \in Nat

\* The archives come before the file.
Before(first) == \A f \in Files \ {0} : first[f] + Len(log[f]) <= first[0]

\* With no failure: a line is gone only once all archives are there, the one the
\* rotation has emptied aside; an archive is there only if all newer ones are; and the
\* rotation begins with lines in the file, but for a log without any.
Hole == IF at = "shift" THEN moving + 1 ELSE 0
Filled(f) == log[f] # <<>>
Unbroken(first) ==
    /\ first[MaxArchives] = 0 \/ \A f \in Files : f # Hole => Filled(f)
    /\ \A f, g \in Files : f < g /\ f # Hole /\ g # Hole /\ Filled(g) => Filled(f)
    /\ at = "idle" /\ ~Filled(0) => size = 0 \/ \A f \in Files : ~Filled(f)
    /\ at = "drop" => Filled(0) \/ \A f \in Files : ~Filled(f)

Follows(first) ==
    /\ first \in [Files -> Nat] /\ EndToEnd(first) /\ Before(first)
    /\ faults = 0 => Unbroken(first)

LogInv ==
    /\ LogTypes
    /\ \E first : Follows(first)
    /\ at = "shift" => log[moving + 1] = <<>>

LEMMA FilesAre ==
    /\ MaxArchives \in Nat \ {0} /\ 0 \in Files /\ MaxArchives \in Files /\ MaxArchives # 0
    /\ \A f \in Files : f \in Nat /\ f <= MaxArchives
    /\ \A f \in Files \ {0} : f - 1 \in Files
BY LogFileAssumption DEF Files

LEMMA TakeOff == \A a, b \in Nat : \A c : a + b = c => c - b = a
OBVIOUS

LEMMA NoLines == \A ls : ls = <<>> => Len(ls) = 0
OBVIOUS

LEMMA LogInitHolds == LogFileInit => LogInv
<1> SUFFICES ASSUME LogFileInit PROVE LogInv
  OBVIOUS
<1> DEFINE first == [f \in Files |-> 0]
<1>1. LogTypes
  BY FilesAre, LogFileAssumption DEF LogFileInit, LogTypes, Line
<1>2. Follows(first)
  BY FilesAre DEF LogFileInit, Follows, EndToEnd, Before, Unbroken, Filled
<1> QED
  BY <1>1, <1>2 DEF LogInv, LogFileInit

LEMMA LogWriteLine == LogInv /\ WriteLine => LogInv'
<1> SUFFICES ASSUME LogInv, WriteLine PROVE LogInv'
  OBVIOUS
<1> PICK length \in Lengths, found \in {0, Length(log[0])} :
      /\ found # Length(log[0]) => size = Unknown /\ faults < MaxFaults
      /\ faults' = IF found # Length(log[0]) THEN faults + 1 ELSE faults
      /\ line' = <<lines + 1, length>>
      /\ size' = SizeBy(found)
      /\ at' = IF TooLong(SizeBy(found), length) THEN "drop" ELSE "append"
  BY DEF WriteLine
<1> at = "idle" /\ log' = log /\ stored' = stored /\ moving' = moving /\ lines' = lines + 1
  BY DEF WriteLine
<1>1. LogTypes'
  BY LogFileAssumption DEF LogInv, LogTypes, Line
<1> PICK first : Follows(first)
  BY DEF LogInv
<1>2. EndToEnd(first)' /\ Before(first)' /\ first \in [Files -> Nat]
  BY DEF Follows, EndToEnd, Before
<1>3. ASSUME faults' = 0 PROVE Unbroken(first)'
  <2>1. faults = 0 /\ Unbroken(first)
    BY <1>3 DEF LogInv, LogTypes, Follows
  <2>2. Hole' = 0 /\ Hole = 0
    BY DEF Hole
  <2>3. ASSUME at' = "drop", ~Filled(0), size = 0 PROVE FALSE
    <3>1. Unknown # 0
      <4>1. MaxSize \in Nat /\ MaxLines + 1 \in Nat
        BY LogFileAssumption
      <4>2. MaxSize * (MaxLines + 1) \in Nat
        BY <4>1
      <4> QED
        BY <4>2 DEF Unknown
    <3>2. SizeBy(found) = 0
      BY <3>1, <2>3 DEF SizeBy
    <3> QED
      BY <3>2, <2>3 DEF TooLong
  <2>4. at' \in {"drop", "append"}
    OBVIOUS
  <2> QED
    BY <2>1, <2>2, <2>3, <2>4 DEF Unbroken, Filled
<1> QED
  BY <1>1, <1>2, <1>3 DEF LogInv, Follows

LEMMA LogDrop == LogInv /\ Drop => LogInv'
<1> SUFFICES ASSUME LogInv, Drop PROVE LogInv'
  OBVIOUS
<1> USE FilesAre
<1> PICK first : Follows(first)
  BY DEF LogInv
<1> DEFINE m == MaxArchives
           next == [first EXCEPT ![m] = first[m - 1]]
<1>a. LogTypes
  BY DEF LogInv
<1>t. /\ at = "drop" /\ at' = "shift" /\ moving' = m - 1 /\ moving' + 1 = m
      /\ log' = [f \in Files |-> IF f = m THEN <<>> ELSE log[f]]
      /\ stored' = stored /\ faults' = faults /\ lines' = lines /\ line' = line
  <2>1. (m - 1) + 1 = m
    OBVIOUS
  <2> QED
    BY <1>a, <2>1 DEF Drop, LogTypes
<1>1. LogTypes'
  BY <1>t, <1>a DEF LogTypes
<1>b. /\ first \in [Files -> Nat] /\ m \in Files \ {0} /\ m - 1 \in Files
      /\ first[m] + Len(log[m]) = first[m - 1]
      /\ \A f \in Files : Len(log[f]) \in Nat /\ log[f] \in Seq(Line)
  BY <1>a DEF Follows, EndToEnd, LogTypes
<1>c. \A f \in Files : next[f] = IF f = m THEN first[m - 1] ELSE first[f]
  BY <1>b
<1>2. EndToEnd(next)'
  <2>1. next[0] + Len(log'[0]) = Len(stored')
    BY <1>t, <1>b, <1>c DEF Follows, EndToEnd
  <2>2. ASSUME NEW f \in Files \ {0} PROVE next[f] + Len(log'[f]) = next[f - 1]
    <3>1. first[f] + Len(log[f]) = first[f - 1] /\ f - 1 # m
      BY DEF Follows, EndToEnd
    <3> QED
      BY <1>t, <1>b, <1>c, <3>1
  <2>3. ASSUME NEW f \in Files, NEW i \in DOMAIN log'[f] PROVE log'[f][i] = stored'[next[f] + i]
    BY <1>t, <1>b, <1>c DEF Follows, EndToEnd
  <2> QED
    BY <2>1, <2>2, <2>3 DEF EndToEnd
<1>3. Before(next)'
  BY <1>t, <1>b, <1>c DEF Follows, Before
<1>4. ASSUME faults' = 0 PROVE Unbroken(next)'
  <2>1. Unbroken(first) /\ Hole = 0 /\ Hole' = m
    BY <1>4, <1>t DEF Follows, Hole
  <2>2. \A f \in Files : Filled(f)' <=> f # m /\ Filled(f)
    BY <1>t DEF Filled
  <2>3. next[m] = 0 \/ \A f \in Files : f # m => Filled(f)
    <3>1. CASE log[m] = <<>>
      BY <3>1, <2>1, <1>b, <1>c DEF Unbroken, Filled
    <3>2. CASE log[m] # <<>>
      <4>1. Filled(0)
        BY <3>2, <2>1, <1>t DEF Unbroken, Filled
      <4> QED
        BY <3>2, <2>1, <4>1, <1>b DEF Unbroken, Filled
    <3> QED
      BY <3>1, <3>2
  <2>4. \A f, g \in Files : f < g /\ Filled(g) => Filled(f)
    BY <2>1, <1>t DEF Unbroken
  <2> QED
    BY <2>1, <2>2, <2>3, <2>4, <1>t DEF Unbroken
<1>5. next \in [Files -> Nat]
  BY <1>b
<1>6. Follows(next)'
  BY <1>2, <1>3, <1>4, <1>5 DEF Follows
<1> QED
  BY <1>1, <1>6, <1>t, <1>b DEF LogInv

LEMMA LogShift == LogInv /\ Shift => LogInv'
<1> SUFFICES ASSUME LogInv, Shift PROVE LogInv'
  OBVIOUS
<1> USE FilesAre
<1> PICK first : Follows(first)
  BY DEF LogInv
<1>a. LogTypes
  BY DEF LogInv
<1> PICK m : m = moving
  OBVIOUS
<1> PICK next : next = [first EXCEPT ![m + 1] = first[m], ![m] = first[m] + Len(log[m])]
  OBVIOUS
<1>m. m \in Files /\ m + 1 \in Files /\ m \in Nat /\ m + 1 # m /\ m + 1 # 0 /\ (m + 1) - 1 = m
  <2>1. m \in 0 .. MaxArchives - 1
    BY <1>a DEF LogTypes
  <2> QED
    BY <2>1 DEF Files
<1>t. /\ at = "shift" /\ at' = (IF m = 0 THEN "append" ELSE "shift")
      /\ moving' = (IF m = 0 THEN 0 ELSE m - 1)
      /\ log' = [f \in Files |-> IF f = m THEN <<>> ELSE IF f = m + 1 THEN log[m] ELSE log[f]]
      /\ stored' = stored /\ faults' = faults /\ lines' = lines /\ line' = line
      /\ log[m + 1] = <<>>
  BY <1>a, <1>m DEF Shift, LogTypes, LogInv
<1>1. LogTypes'
  BY <1>t, <1>a, <1>m DEF LogTypes
<1>b. /\ first \in [Files -> Nat]
      /\ first[m + 1] = first[m]
      /\ \A f \in Files : Len(log[f]) \in Nat /\ log[f] \in Seq(Line)
  <2>1. /\ first \in [Files -> Nat] /\ first[m + 1] \in Nat
        /\ \A f \in Files : Len(log[f]) \in Nat /\ log[f] \in Seq(Line)
    <3>1. first \in [Files -> Nat]
      BY DEF Follows
    <3>2. \A f \in Files : Len(log[f]) \in Nat /\ log[f] \in Seq(Line)
      BY <1>a DEF LogTypes
    <3> QED
      BY <3>1, <3>2, <1>m
  <2>2. first[m + 1] + Len(log[m + 1]) = first[m] /\ Len(log[m + 1]) = 0
    BY <1>m, <1>t, NoLines DEF Follows, EndToEnd
  <2>3. first[m + 1] = first[m]
    BY <2>1, <2>2
  <2> QED
    BY <2>1, <2>3
<1>c. \A f \in Files : next[f] = IF f = m THEN first[m] + Len(log[m])
                                 ELSE IF f = m + 1 THEN first[m] ELSE first[f]
  BY <1>b, <1>m
<1>d. \A f \in Files : /\ f = m => log'[f] = <<>>
                       /\ f = m + 1 => log'[f] = log[m]
                       /\ f \notin {m, m + 1} => log'[f] = log[f]
  BY <1>t, <1>m
<1>2. EndToEnd(next)'
  <2>1. next[0] + Len(log'[0]) = Len(stored')
    BY <1>t, <1>b, <1>c, <1>d, <1>m DEF Follows, EndToEnd
  <2>2. ASSUME NEW f \in Files \ {0} PROVE next[f] + Len(log'[f]) = next[f - 1]
    <3>1. first[f] + Len(log[f]) = first[f - 1] /\ f - 1 \in Files /\ f \in Nat
      BY DEF Follows, EndToEnd
    <3>2. CASE f = m
      <4>1. next[f] = first[m] + Len(log[m]) /\ Len(log'[f]) = 0 /\ next[f - 1] = first[f - 1]
        <5>1. log'[f] = <<>> /\ f - 1 # m /\ f - 1 # m + 1
          BY <3>1, <3>2, <1>d, <1>m
        <5>2. Len(log'[f]) = 0
          BY <5>1, NoLines
        <5> QED
          BY <5>1, <5>2, <3>1, <3>2, <1>c
      <4> QED
        BY <4>1, <3>1, <3>2, <1>b, <1>m
    <3>3. CASE f = m + 1
      <4>1. next[f] = first[m] /\ log'[f] = log[m] /\ next[f - 1] = first[m] + Len(log[m])
        BY <3>1, <3>3, <1>c, <1>d, <1>m
      <4> QED
        BY <4>1
    <3>4. CASE f \notin {m, m + 1}
      <4>1. next[f] = first[f] /\ log'[f] = log[f]
        BY <3>1, <3>4, <1>c, <1>d, <1>m
      <4>2. next[f - 1] = first[f - 1]
        <5>1. f - 1 # m
          BY <3>1, <3>4, <1>m
        <5>2. CASE f - 1 = m + 1
          BY <5>2, <1>b, <1>c, <1>m
        <5>3. CASE f - 1 # m + 1
          BY <5>1, <5>3, <3>1, <1>c
        <5> QED
          BY <5>2, <5>3
      <4> QED
        BY <4>1, <4>2, <3>1
    <3> QED
      BY <3>2, <3>3, <3>4
  <2>3. ASSUME NEW f \in Files, NEW i \in DOMAIN log'[f] PROVE log'[f][i] = stored'[next[f] + i]
    BY <1>t, <1>b, <1>c, <1>d, <1>m DEF Follows, EndToEnd
  <2> QED
    BY <2>1, <2>2, <2>3 DEF EndToEnd
<1>3. Before(next)'
  <2> SUFFICES ASSUME NEW f \in Files \ {0} PROVE next[f] + Len(log'[f]) <= next[0]
    BY DEF Before
  <2>1. first[f] + Len(log[f]) <= first[0] /\ f \in Nat
    BY DEF Follows, Before
  <2>2. m # 0 => first[m] + Len(log[m]) <= first[0]
    BY <1>m DEF Follows, Before
  <2>3. /\ first[f] \in Nat /\ first[0] \in Nat /\ first[m] \in Nat
        /\ Len(log[m]) \in Nat /\ Len(log[f]) \in Nat
    BY <1>b, <1>m
  <2>4. CASE f = m
    <3>1. next[f] = first[m] + Len(log[m]) /\ Len(log'[f]) = 0 /\ next[0] = first[0]
      BY <2>1, <2>4, <1>c, <1>d, <1>m, NoLines
    <3> QED
      BY <3>1, <2>2, <2>3, <2>4
  <2>5. CASE f = m + 1
    <3>1. next[f] = first[m] /\ log'[f] = log[m]
      BY <2>5, <1>c, <1>d, <1>m
    <3>2. CASE m = 0
      <4>1. next[0] = first[m] + Len(log[m])
        BY <3>2, <1>c
      <4> QED
        BY <4>1, <3>1, <2>3
    <3>3. CASE m # 0
      <4>1. next[0] = first[0]
        BY <3>3, <1>c, <1>m
      <4> QED
        BY <4>1, <3>1, <3>3, <2>2
    <3> QED
      BY <3>2, <3>3
  <2>6. CASE f \notin {m, m + 1}
    <3>1. next[f] = first[f] /\ log'[f] = log[f]
      BY <2>6, <1>c, <1>d, <1>m
    <3>2. next[0] = first[0] \/ (m = 0 /\ next[0] = first[0] + Len(log[m]))
      BY <1>c, <1>m
    <3> QED
      BY <3>1, <3>2, <2>1, <2>3
  <2> QED
    BY <2>4, <2>5, <2>6
<1>4. ASSUME faults' = 0 PROVE Unbroken(next)'
  <2>1. Unbroken(first) /\ Hole = m + 1 /\ Hole' = m
    BY <1>4, <1>t, <1>m DEF Follows, Hole
  <2>2. \A f \in Files : Filled(f)' <=> f # m /\ IF f = m + 1 THEN Filled(m) ELSE Filled(f)
    BY <1>d, <1>m DEF Filled
  <2>3. next[MaxArchives] = 0 \/ \A f \in Files : f # m => Filled(f)'
    <3>1. CASE first[MaxArchives] = 0
      BY <3>1, <1>b, <1>c, <1>m DEF Files
    <3>2. CASE \A f \in Files : f # m + 1 => Filled(f)
      BY <3>2, <2>2, <1>m
    <3> QED
      BY <3>1, <3>2, <2>1 DEF Unbroken
  <2>4. ASSUME NEW f \in Files, NEW g \in Files, f < g, f # m, g # m, Filled(g)' PROVE Filled(f)'
    BY <2>1, <2>2, <2>4, <1>m DEF Unbroken
  <2>5. at' \notin {"idle", "drop"}
    BY <1>t
  <2> QED
    BY <2>1, <2>3, <2>4, <2>5, <1>m DEF Unbroken
<1>5. next \in [Files -> Nat]
  <2>1. Len(log[m]) \in Nat /\ first[m] \in Nat /\ first[m] + Len(log[m]) \in Nat
    BY <1>b, <1>m
  <2> QED
    BY <2>1, <1>b, <1>m
<1>6. Follows(next)'
  BY <1>2, <1>3, <1>4, <1>5 DEF Follows
<1>7. at' = "shift" => log'[moving' + 1] = <<>>
  BY <1>t, <1>d, <1>m
<1> QED
  BY <1>1, <1>6, <1>7 DEF LogInv

LEMMA LogAppendLine == LogInv /\ AppendLine => LogInv'
<1> SUFFICES ASSUME LogInv, AppendLine PROVE LogInv'
  OBVIOUS
<1> USE FilesAre
<1> PICK first : Follows(first)
  BY DEF LogInv
<1>a. LogTypes
  BY DEF LogInv
<1>t. /\ at = "append" /\ at' = "idle" /\ moving' = moving /\ line' = line
      /\ log' = [f \in Files |-> IF f = 0 THEN Append(log[0], line) ELSE log[f]]
      /\ stored' = Append(stored, line) /\ faults' = faults /\ lines' = lines
  BY <1>a DEF AppendLine, LogTypes
<1>b. /\ first \in [Files -> Nat] /\ Len(stored) \in Nat
      /\ \A f \in Files : Len(log[f]) \in Nat /\ log[f] \in Seq(Line) /\ DOMAIN log[f] = 1 .. Len(log[f])
      /\ line \in Line /\ stored \in Seq(Line)
      /\ first[0] + Len(log[0]) = Len(stored)
  BY <1>a DEF Follows, EndToEnd, LogTypes
<1>1. LogTypes'
  BY <1>t, <1>a, <1>b DEF LogTypes
<1>c. /\ Len(stored') = Len(stored) + 1 /\ stored'[Len(stored) + 1] = line
      /\ \A i \in 1 .. Len(stored) : stored'[i] = stored[i]
      /\ Len(log'[0]) = Len(log[0]) + 1 /\ log'[0][Len(log[0]) + 1] = line
      /\ \A i \in 1 .. Len(log[0]) : log'[0][i] = log[0][i]
      /\ log'[0] \in Seq(Line) /\ DOMAIN log'[0] = 1 .. Len(log[0]) + 1
      /\ \A f \in Files \ {0} : log'[f] = log[f]
  BY <1>t, <1>b
<1>2. EndToEnd(first)'
  <2>1. first[0] + Len(log'[0]) = Len(stored')
    <3>1. first[0] \in Nat /\ Len(log[0]) \in Nat /\ first[0] + Len(log[0]) = Len(stored)
      BY <1>b
    <3>2. Len(log'[0]) = Len(log[0]) + 1 /\ Len(stored') = Len(stored) + 1
      BY <1>c
    <3> QED
      BY <3>1, <3>2
  <2>2. ASSUME NEW f \in Files \ {0} PROVE first[f] + Len(log'[f]) = first[f - 1]
    BY <1>b, <1>c DEF Follows, EndToEnd
  <2>3. ASSUME NEW f \in Files, NEW i \in DOMAIN log'[f] PROVE log'[f][i] = stored'[first[f] + i]
    <3>1. CASE f = 0 /\ i = Len(log[0]) + 1
      BY <3>1, <1>b, <1>c
    <3>2. CASE f = 0 /\ i # Len(log[0]) + 1
      <4>1. i \in 1 .. Len(log[0]) /\ first[0] + i \in 1 .. Len(stored)
        BY <3>2, <1>b, <1>c
      <4> QED
        BY <4>1, <3>2, <1>b, <1>c DEF Follows, EndToEnd
    <3>3. CASE f # 0
      <4>1. first[f] + Len(log[f]) <= first[0] /\ i \in 1 .. Len(log[f])
        BY <3>3, <1>b, <1>c DEF Follows, Before
      <4>2. first[f] + i \in 1 .. Len(stored)
        <5>1. first[0] \in Nat /\ Len(log[0]) \in Nat /\ first[f] \in Nat /\ Len(log[f]) \in Nat
          BY <1>b
        <5> QED
          BY <5>1, <4>1, <1>b
      <4>3. log'[f] = log[f] /\ stored'[first[f] + i] = stored[first[f] + i]
        BY <4>2, <3>3, <1>c
      <4> QED
        BY <4>1, <4>3, <1>b DEF Follows, EndToEnd
    <3> QED
      BY <3>1, <3>2, <3>3
  <2> QED
    BY <2>1, <2>2, <2>3 DEF EndToEnd
<1>3. Before(first)'
  BY <1>c DEF Follows, Before
<1>4. ASSUME faults' = 0 PROVE Unbroken(first)'
  <2>1. Unbroken(first) /\ Hole = 0 /\ Hole' = 0
    BY <1>4, <1>t DEF Follows, Hole
  <2>2. Filled(0)' /\ \A f \in Files \ {0} : Filled(f)' <=> Filled(f)
    <3>1. Len(log'[0]) # 0
      <4>1. Len(log[0]) \in Nat
        BY <1>b
      <4> QED
        BY <4>1, <1>c
    <3> QED
      BY <3>1, <1>c DEF Filled
  <2> QED
    BY <2>1, <2>2, <1>t DEF Unbroken
<1> QED
  BY <1>1, <1>2, <1>3, <1>4, <1>t, <1>b DEF LogInv, Follows

LEMMA LogClear == LogInv /\ Clear => LogInv'
<1> SUFFICES ASSUME LogInv, Clear PROVE LogInv'
  OBVIOUS
<1> USE FilesAre
<1> PICK first : Follows(first)
  BY DEF LogInv
<1>a. LogTypes
  BY DEF LogInv
<1>b. /\ first \in [Files -> Nat] /\ Len(stored) \in Nat
      /\ \A f \in Files : Len(log[f]) \in Nat /\ log[f] \in Seq(Line) /\ DOMAIN log[f] = 1 .. Len(log[f])
      /\ stored \in Seq(Line)
      /\ first[0] + Len(log[0]) = Len(stored) /\ Len(stored) - Len(log[0]) = first[0]
  <2>1. first \in [Files -> Nat] /\ first[0] \in Nat /\ first[0] + Len(log[0]) = Len(stored)
    BY DEF Follows, EndToEnd
  <2>2. /\ \A f \in Files : Len(log[f]) \in Nat /\ log[f] \in Seq(Line) /\ DOMAIN log[f] = 1 .. Len(log[f])
        /\ stored \in Seq(Line) /\ Len(stored) \in Nat
    BY <1>a DEF LogTypes
  <2>3. Len(stored) - Len(log[0]) = first[0]
    <3>1. Len(log[0]) \in Nat
      BY <2>2
    <3> QED
      BY <3>1, <2>1, TakeOff
  <2> QED
    BY <2>1, <2>2, <2>3
<1>t. /\ at = "idle" /\ at' = "idle" /\ moving' = moving /\ line' = line /\ size' = 0
      /\ log' = [f \in Files |-> IF f = 0 THEN <<>> ELSE log[f]]
      /\ stored' = SubSeq(stored, 1, first[0]) /\ faults' = faults /\ lines' = lines
  BY <1>a, <1>b DEF Clear, LogTypes
<1>c. /\ Len(stored') = first[0] /\ stored' \in Seq(Line)
      /\ \A i \in 1 .. first[0] : stored'[i] = stored[i]
      /\ log'[0] = <<>> /\ \A f \in Files \ {0} : log'[f] = log[f]
  BY <1>t, <1>b
<1>1. LogTypes'
  BY <1>t, <1>a, <1>c DEF LogTypes
<1>2. EndToEnd(first)'
  <2>1. first[0] + Len(log'[0]) = Len(stored')
    <3>1. first[0] \in Nat /\ Len(log'[0]) = 0
      <4>1. first[0] \in Nat /\ log'[0] = <<>>
        BY <1>b, <1>c
      <4> QED
        BY <4>1, NoLines
    <3> QED
      BY <3>1, <1>c
  <2>2. ASSUME NEW f \in Files \ {0} PROVE first[f] + Len(log'[f]) = first[f - 1]
    BY <1>b, <1>c DEF Follows, EndToEnd
  <2>3. ASSUME NEW f \in Files, NEW i \in DOMAIN log'[f] PROVE log'[f][i] = stored'[first[f] + i]
    <3>1. f # 0
      BY <1>c
    <3>2. first[f] + Len(log[f]) <= first[0] /\ i \in 1 .. Len(log[f])
      BY <3>1, <1>b, <1>c DEF Follows, Before
    <3>3. first[f] + i \in 1 .. first[0]
      <4>1. first[0] \in Nat /\ first[f] \in Nat /\ Len(log[f]) \in Nat
        BY <1>b
      <4> QED
        BY <4>1, <3>2
    <3> QED
      BY <3>1, <3>2, <3>3, <1>b, <1>c DEF Follows, EndToEnd
  <2> QED
    BY <2>1, <2>2, <2>3 DEF EndToEnd
<1>3. Before(first)'
  BY <1>c DEF Follows, Before
<1>4. ASSUME faults' = 0 PROVE Unbroken(first)'
  <2>1. Unbroken(first) /\ Hole = 0 /\ Hole' = 0
    BY <1>4, <1>t DEF Follows, Hole
  <2>2. \A f \in Files \ {0} : Filled(f)' <=> Filled(f)
    BY <1>c DEF Filled
  <2> QED
    BY <2>1, <2>2, <1>t DEF Unbroken
<1> QED
  BY <1>1, <1>2, <1>3, <1>4, <1>t, <1>b DEF LogInv, Follows

LEMMA LogFaults == LogInv /\ (CallFails \/ ProcessEnds) => LogInv'
<1> SUFFICES ASSUME LogInv, CallFails \/ ProcessEnds PROVE LogInv'
  OBVIOUS
<1>t. /\ faults' = faults + 1 /\ at' = "idle" /\ lines' = lines
      /\ log' = log /\ stored' = stored /\ moving' = moving /\ line' = line
  BY DEF CallFails, ProcessEnds
<1>1. LogTypes' /\ faults' # 0
  BY <1>t DEF LogInv, LogTypes
<1> PICK first : Follows(first)
  BY DEF LogInv
<1>2. EndToEnd(first)' /\ Before(first)' /\ first \in [Files -> Nat]
  BY <1>t DEF Follows, EndToEnd, Before
<1> QED
  BY <1>1, <1>2, <1>t DEF LogInv, Follows

LEMMA LogStep == LogInv /\ [LogFileNext]_lvars => LogInv'
<1> SUFFICES ASSUME LogInv, [LogFileNext]_lvars PROVE LogInv'
  OBVIOUS
<1>1. CASE UNCHANGED lvars
  <2>1. LogTypes' /\ (at' = "shift" => log'[moving' + 1] = <<>>)
    BY <1>1 DEF lvars, LogInv, LogTypes
  <2> PICK first : Follows(first)
    BY DEF LogInv
  <2>2. Unbroken(first)' <=> Unbroken(first)
    BY <1>1 DEF lvars, Unbroken, Filled, Hole
  <2>3. Follows(first)'
    BY <1>1, <2>2 DEF lvars, Follows, EndToEnd, Before
  <2> QED
    BY <2>1, <2>3 DEF LogInv
<1>2. CASE LogFileNext
  BY <1>2, LogWriteLine, LogDrop, LogShift, LogAppendLine, LogClear, LogFaults DEF LogFileNext
<1> QED
  BY <1>1, <1>2

LEMMA LogInvGives == LogInv => LastLinesKept
<1> SUFFICES ASSUME LogInv PROVE LastLinesKept
  OBVIOUS
<1> PICK first : Follows(first)
  BY DEF LogInv
<1>1. ASSUME NEW f \in Files PROVE first[f] \in 0 .. Len(stored)
  <2>1. Len(log[f]) \in Nat /\ Len(log[0]) \in Nat /\ first[f] \in Nat /\ first[0] \in Nat
    BY FilesAre DEF LogInv, LogTypes, Follows
  <2>2. first[0] + Len(log[0]) = Len(stored)
    BY DEF Follows, EndToEnd
  <2>3. f # 0 => first[f] + Len(log[f]) <= first[0]
    BY DEF Follows, Before
  <2> QED
    BY <2>1, <2>2, <2>3
<1>2. first \in [Files -> 0 .. Len(stored)]
  BY <1>1 DEF Follows
<1>3. at = "idle" /\ faults = 0 /\ first[MaxArchives] > 0 => \A f \in Files \ {0} : log[f] # <<>>
  BY FilesAre DEF Follows, Unbroken, Hole, Filled
<1> QED
  BY <1>2, <1>3 DEF LastLinesKept, LogInv, Follows

\* sync.log and its archives are read in order as the last lines stored, without a gap,
\* whatever calls fail, wherever the process ends and however many archives there may be.
THEOREM LogInvariant == LogFileSpec => []LogInv
<1>1. LogFileInit => LogInv
  BY LogInitHolds
<1>2. LogInv /\ [LogFileNext]_lvars => LogInv'
  BY LogStep
<1> QED
  BY <1>1, <1>2, PTL DEF LogFileSpec

THEOREM LastLinesKeptAlways == LogFileSpec => []LastLinesKept
<1>1. LogInv => LastLinesKept
  BY LogInvGives
<1> QED
  BY <1>1, LogInvariant, PTL
=============================================================================
