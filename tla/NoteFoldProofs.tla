--------------------------- MODULE NoteFoldProofs ---------------------------
EXTENDS NoteFold, FiniteSetTheorems, WellFoundedInduction, TLAPS

\* A document has had the line, and has it still.
In(l, d) == \E o \in d.ins : o[1] = l
Alive(l, d) == \E o \in d.ins \ d.del : o[1] = l
\* Somebody has had it, after a crash too.
Held(l) == In(l, doc) \/ In(l, server)
Durable(l) == In(l, store.doc) \/ In(l, server)
Kept == typed \ (removed \cup blind)

\* Nothing is deleted that neither it nor the server has; and a line's numbers have a bound.
Whole(d) == d.del \subseteq d.ins \cup server.ins
Bounded(d) == \A l \in Line : \E n \in Nat : \A o \in d.ins : o[1] = l => o[2] <= n
Within(d, e) == d.ins \subseteq e.ins /\ d.del \subseteq e.del

Folding == {"fold", "hash", "merge", "blindMerge"}
AfterFold == {"folded", "look", "write", "wrote"}

Job == [kind : JobKinds, at : Steps, read : Text \cup {NoText}, text : Text \cup {NoText},
        tries : 0 .. FoldAttempts - 1]
Catchup == [at : {"none", "batch", "closed", "load", "lock", "apply"}, batch : Doc]

\* The types, with those of a handler's texts at each of its steps.
Shaped ==
    /\ NoteTypeOK
    /\ typed \subseteq Mine /\ job \in Job /\ catchup \in Catchup
    /\ store \in [doc : Doc, mark : Marks \cup {NoText}]
    /\ job.at \in Folding \cup AfterFold => job.read \in Text
    /\ job.at \in {"merge", "look", "write", "wrote"} => job.text \in Text
    /\ job.at # "none" => open
    /\ catchup.at \in {"lock", "apply"} => open
    /\ ~open => doc = store.doc
\* Each document with those it is a part of.
Docs ==
    /\ Whole(doc) /\ Whole(server) /\ Whole(store.doc) /\ Whole(up)
    /\ store.doc.ins \subseteq doc.ins /\ up.ins \subseteq doc.ins
    /\ Within(catchup.batch, server) /\ Within(down, server)
    /\ Bounded(doc) /\ Bounded(server)
\* A mark tells of edits that its document has.
MarkOf(m, d, s) ==
    m # NoText => /\ m.state.ins \subseteq d.ins /\ m.state.del \subseteq m.state.ins \cup s.ins
                  /\ \A l \in Line : m.text[l] > 0 => In(l, m.state)
MarksHeld == MarkOf(mark, doc, server) /\ MarkOf(store.mark, store.doc, server)
\* What counts as folded, or as written, a document has had.
Records ==
    \A l \in Line :
       /\ rec.folded # NoText /\ rec.folded[l] > 0 => Held(l)
       /\ rec.content[l] > 0 => Held(l)
       /\ saved.folded # NoText /\ saved.folded[l] > 0 => Durable(l)
       /\ saved.content[l] > 0 => Durable(l)
\* The base of a merge, what was folded, and what is to be written.
Folded ==
    \A l \in Line :
       /\ job.at \in {"merge", "look", "write", "wrote"} /\ job.text[l] > 0 => Held(l)
       /\ job.at \in AfterFold /\ job.read[l] > 0 => Held(l)
\* A line the handler did not find on disk is not in the document, or is safe; and so is one
\* that is missing from what it writes.
Missed == job.at \in Folding => \A l \in Kept : job.read[l] = 0 => ~In(l, doc) \/ Durable(l)
Dropped ==
    \A l \in Kept :
       /\ job.at = "look" /\ job.text[l] = 0 /\ job.read[l] > 0 => Durable(l)
       /\ job.at = "write" /\ job.text[l] = 0 => Durable(l)
\* A line deleted from the document, or gone from the disk, is safe.
Deleted == \A l \in Kept : In(l, doc) => Alive(l, doc) \/ Durable(l)
Standing == \A l \in Kept : disk[l] > 0 \/ Durable(l)
\* A line not typed yet is nowhere.
Untyped ==
    \A l \in Mine \ typed :
       /\ disk[l] = 0 /\ ~Held(l)
       /\ job.at \in Folding \cup AfterFold => job.read[l] = 0

NInv ==
    /\ Shaped /\ Docs /\ MarksHeld /\ Records /\ Folded
    /\ Missed /\ Dropped /\ Deleted /\ Standing /\ Untyped

-----------------------------------------------------------------------------
(***************************************************************************)
(* Texts and documents.                                                    *)
(***************************************************************************)
\* A set of numbers with a bound has a largest.
LEMMA LastExists ==
    ASSUME NEW S \in SUBSET Nat, S # {}, NEW n \in Nat, \A m \in S : m <= n
    PROVE  Max(S) \in S /\ \A m \in S : m <= Max(S)
<1>   DEFINE T == {i \in Nat : \E m \in S : i = n - m}
             R == OpToRel(<, Nat)
<1>1. IsWellFoundedOn(R, Nat)
      BY NatLessThanWellFounded
<1>2. \A i, j \in Nat : j < i => <<j, i>> \in R
      BY DEF OpToRel
<1>   HIDE DEF R
<1>3. T \subseteq Nat /\ T # {}
  <2>1. PICK m \in S : TRUE
        OBVIOUS
  <2>2. n - m \in Nat
        OBVIOUS
  <2>   QED
        BY <2>1, <2>2
<1>4. PICK i \in T : \A j \in T : ~(<<j, i>> \in R)
      BY <1>1, <1>3, WFMin
<1>5. PICK x \in S : i = n - x
      OBVIOUS
<1>6. \A y \in S : n - y \in T
      OBVIOUS
<1>7. \A y \in S : ~(n - y < n - x)
      BY <1>2, <1>3, <1>4, <1>5, <1>6
<1>8. \A y \in S : x >= y
      BY <1>7
<1>   QED
      BY <1>8 DEF Max

\* A document has each line finitely often.
LEMMA LineFinite ==
    ASSUME NEW d \in Doc, NEW l \in Line, NEW n \in Nat, \A o \in d.ins : o[1] = l => o[2] <= n
    PROVE  IsFiniteSet({o \in d.ins \ d.del : o[1] = l})
<1>1. IsFiniteSet({l}) /\ IsFiniteSet(0 .. n)
  <2>1. IsFiniteSet({l})
        BY FS_Singleton
  <2>2. 0 \in Int /\ n \in Int
        OBVIOUS
  <2>3. IsFiniteSet(0 .. n)
        BY <2>2, FS_Interval
  <2>   QED
        BY <2>1, <2>3
<1>2. IsFiniteSet({l} \X (0 .. n))
      BY <1>1, FS_Product
<1>3. {o \in d.ins \ d.del : o[1] = l} \subseteq {l} \X (0 .. n)
  <2>1. \A o \in d.ins : o \in Line \X Nat
        BY DEF Doc, Op
  <2>2. \A o \in d.ins : o[1] = l => o = <<o[1], o[2]>> /\ o[2] \in 0 .. n
        BY <2>1
  <2>   QED
        BY <2>2
<1>   QED
      BY <1>2, <1>3, FS_Subset

\* A text is what a document has and has not deleted.
LEMMA TextFacts ==
    ASSUME NEW d \in Doc, Bounded(d)
    PROVE  TextOf(d) \in Text /\ \A l \in Line : TextOf(d)[l] > 0 <=> Alive(l, d)
<1>1. ASSUME NEW l \in Line
      PROVE  /\ Cardinality({o \in d.ins \ d.del : o[1] = l}) \in Nat
             /\ Cardinality({o \in d.ins \ d.del : o[1] = l}) > 0 <=> Alive(l, d)
  <2>   DEFINE S == {o \in d.ins \ d.del : o[1] = l}
  <2>1. IsFiniteSet(S)
    <3>1. PICK n \in Nat : \A o \in d.ins : o[1] = l => o[2] <= n
          BY DEF Bounded
    <3>   QED
          BY <3>1, LineFinite
  <2>2. Cardinality(S) \in Nat /\ (Cardinality(S) = 0 <=> S = {})
        BY <2>1, FS_CardinalityType, FS_EmptySet
  <2>3. S # {} <=> Alive(l, d)
        BY DEF Alive
  <2>   HIDE DEF S
  <2>4. Cardinality(S) > 0 <=> Alive(l, d)
        BY <2>2, <2>3
  <2>   QED
        BY <2>2, <2>4 DEF S
<1>   QED
      BY <1>1 DEF TextOf, Text

\* The insertions made anew nobody has had.
LEMMA NewOpsFacts ==
    ASSUME Shaped, Docs, NEW l \in Line, NEW n \in Nat
    PROVE  /\ NewOps(l, n) \subseteq Op
           /\ \A o \in NewOps(l, n) : o[1] = l /\ o \notin doc.ins \cup server.ins
           /\ n > 0 => NewOps(l, n) # {}
           /\ n = 0 => NewOps(l, n) = {}
           /\ \E k \in Nat : \A o \in NewOps(l, n) : o[2] <= k
<1>   DEFINE used == {o[2] : o \in {p \in doc.ins \cup server.ins \cup store.doc.ins : p[1] = l}}
             last == Max({0} \cup used)
<1>1. /\ \A o \in doc.ins \cup server.ins : o \in Line \X Nat
      /\ store.doc.ins \subseteq doc.ins
      BY DEF Shaped, NoteTypeOK, Doc, Op, Docs
<1>2. PICK i \in Nat : \A o \in doc.ins : o[1] = l => o[2] <= i
      BY DEF Docs, Bounded
<1>3. PICK j \in Nat : \A o \in server.ins : o[1] = l => o[2] <= j
      BY DEF Docs, Bounded
<1>4. \A m \in used : m \in Nat /\ m <= i + j
  <2>1. \A o \in doc.ins \cup server.ins : o[1] = l => o[2] \in Nat /\ (o[2] <= i \/ o[2] <= j)
        BY <1>1, <1>2, <1>3
  <2>   QED
        BY <2>1, <1>1
<1>5. last \in {0} \cup used /\ \A m \in {0} \cup used : m <= last
  <2>   DEFINE S == {0} \cup used
  <2>1. S \in SUBSET Nat /\ S # {} /\ i + j \in Nat /\ \A m \in S : m <= i + j
        BY <1>4
  <2>   HIDE DEF S, used
  <2>2. Max(S) \in S /\ \A m \in S : m <= Max(S)
        BY <2>1, LastExists
  <2>   QED
        BY <2>2 DEF S
<1>6. last \in Nat
      BY <1>4, <1>5
<1>7. NewOps(l, n) = {<<l, k>> : k \in last + 1 .. last + n}
      BY DEF NewOps
<1>8. \A o \in doc.ins \cup server.ins : o[1] = l => o[2] \in used
      OBVIOUS
<1>   HIDE DEF last, used
<1>9. \A k \in last + 1 .. last + n : k \in Nat /\ k > last
      BY <1>6
<1>10. \A o \in NewOps(l, n) : o \in Line \X Nat /\ o[1] = l /\ o[2] > last /\ o[2] <= last + n
      BY <1>6, <1>7, <1>9
<1>11. \A o \in NewOps(l, n) : o \notin doc.ins \cup server.ins
  <2>1. \A m \in used : m \in Nat /\ m <= last
        BY <1>4, <1>5
  <2>   QED
        BY <1>6, <1>8, <1>10, <2>1
<1>12. n > 0 => NewOps(l, n) # {}
  <2>1. n > 0 => last + 1 \in last + 1 .. last + n
        BY <1>6
  <2>   QED
        BY <1>7, <2>1
<1>13. n = 0 => NewOps(l, n) = {}
  <2>1. n = 0 => last + 1 .. last + n = {}
        BY <1>6
  <2>   QED
        BY <1>7, <2>1
<1>   QED
      BY <1>6, <1>10, <1>11, <1>12, <1>13 DEF Op

\* Setting a text keeps what was inserted and gives each line of the text, and only those.
LEMMA SetTextsFacts ==
    ASSUME Shaped, Docs, NEW t \in Text, NEW d \in SetTexts(t)
    PROVE  /\ d \in Doc /\ doc.ins \subseteq d.ins /\ Bounded(d)
           /\ d.del \subseteq doc.del \cup doc.ins
           /\ \A l \in Line : t[l] > 0 => Alive(l, d)
           /\ \A l \in Line : In(l, d) => In(l, doc) \/ t[l] > 0
<1>   DEFINE now == TextOf(doc)
             more == UNION {NewOps(l, Excess(t[l], now[l])) : l \in Line}
             alive(l) == {o \in doc.ins \ doc.del : o[1] = l}
<1>1. PICK gone \in SUBSET {o \in doc.ins \ doc.del : t[o[1]] < now[o[1]]} :
         /\ \A l \in Line : Cardinality(gone \cap alive(l)) = Excess(now[l], t[l])
         /\ d = [ins |-> doc.ins \cup more, del |-> doc.del \cup gone]
      BY DEF SetTexts
<1>2. doc \in Doc /\ Bounded(doc)
      BY DEF Shaped, NoteTypeOK, Docs
<1>3. now \in Text /\ \A l \in Line : now[l] > 0 <=> Alive(l, doc)
      BY <1>2, TextFacts
<1>4. \A l \in Line : t[l] \in Nat /\ now[l] \in Nat
      BY <1>3 DEF Text
<1>   HIDE DEF now
<1>5. ASSUME NEW l \in Line
      PROVE  /\ Excess(t[l], now[l]) \in Nat
             /\ NewOps(l, Excess(t[l], now[l])) \subseteq Op
             /\ \A o \in NewOps(l, Excess(t[l], now[l])) :
                   o[1] = l /\ o \notin doc.ins \cup server.ins
             /\ t[l] > now[l] => NewOps(l, Excess(t[l], now[l])) # {}
             /\ t[l] <= now[l] => NewOps(l, Excess(t[l], now[l])) = {}
             /\ \E k \in Nat : \A o \in NewOps(l, Excess(t[l], now[l])) : o[2] <= k
  <2>1. /\ Excess(t[l], now[l]) \in Nat
        /\ t[l] > now[l] => Excess(t[l], now[l]) > 0
        /\ t[l] <= now[l] => Excess(t[l], now[l]) = 0
        BY <1>4 DEF Excess
  <2>2. NewOps(l, 0) = {}
        BY NewOpsFacts
  <2>   QED
        BY <2>1, <2>2, NewOpsFacts
<1>6. \A o \in more : /\ o \in Op /\ o \notin doc.ins \cup server.ins
                      /\ o[1] \in Line /\ o \in NewOps(o[1], Excess(t[o[1]], now[o[1]]))
      BY <1>5
<1>7. \A l \in Line : NewOps(l, Excess(t[l], now[l])) \subseteq more
      OBVIOUS
<1>   HIDE DEF more
<1>8. d \in Doc
      BY <1>1, <1>2, <1>6 DEF Doc
<1>9. d.ins = doc.ins \cup more /\ d.del = doc.del \cup gone
      BY <1>1
<1>10. Bounded(d)
  <2>1. ASSUME NEW l \in Line
        PROVE  \E n \in Nat : \A o \in d.ins : o[1] = l => o[2] <= n
    <3>1. PICK i \in Nat : \A o \in doc.ins : o[1] = l => o[2] <= i
          BY <1>2 DEF Bounded
    <3>2. PICK j \in Nat : \A o \in NewOps(l, Excess(t[l], now[l])) : o[2] <= j
          BY <1>5
    <3>3. \A o \in d.ins : o[1] = l => o[2] \in Nat /\ (o[2] <= i \/ o[2] <= j)
          BY <1>2, <1>6, <1>9, <3>1, <3>2 DEF Doc, Op
    <3>4. i + j \in Nat /\ \A o \in d.ins : o[1] = l => o[2] <= i + j
          BY <3>3
    <3>   QED
          BY <3>4
  <2>   QED
        BY <2>1 DEF Bounded
<1>11. ASSUME NEW l \in Line, t[l] > 0
       PROVE  Alive(l, d)
  <2>1. CASE t[l] > now[l]
    <3>1. PICK o \in NewOps(l, Excess(t[l], now[l])) : o[1] = l /\ o \notin doc.ins \cup server.ins
          BY <1>5, <2>1
    <3>2. o \in d.ins
          BY <1>7, <1>9
    <3>3. o \notin d.del
          BY <1>9, <3>1 DEF Docs, Whole
    <3>   QED
          BY <3>1, <3>2, <3>3 DEF Alive
  <2>2. CASE t[l] <= now[l]
    <3>1. PICK x \in alive(l) : x \notin gone
      <4>1. SUFFICES ASSUME alive(l) \subseteq gone
                     PROVE  FALSE
            OBVIOUS
      <4>2. gone \cap alive(l) = alive(l)
            BY <4>1
      <4>3. now[l] = Excess(now[l], t[l])
        <5>1. Cardinality(alive(l)) = now[l]
              BY DEF now, TextOf
        <5>   QED
              BY <1>1, <4>2, <5>1
      <4>   QED
            BY <1>4, <1>11, <2>2, <4>3 DEF Excess
    <3>   QED
          BY <1>9, <3>1 DEF Alive
  <2>   QED
        BY <1>4, <2>1, <2>2
<1>12. ASSUME NEW l \in Line, In(l, d)
       PROVE  In(l, doc) \/ t[l] > 0
  <2>1. PICK o \in d.ins : o[1] = l
        BY <1>12 DEF In
  <2>2. CASE o \in doc.ins
        BY <2>1, <2>2 DEF In
  <2>3. CASE o \in more
    <3>1. t[l] > now[l]
          BY <1>4, <1>5, <1>6, <2>1, <2>3
    <3>   QED
          BY <1>4, <3>1
  <2>   QED
        BY <1>9, <2>1, <2>2, <2>3
<1>   QED
      BY <1>8, <1>9, <1>10, <1>11, <1>12

\* A merge keeps a line of ours, unless it is the base's and theirs deleted it, and
\* has only lines of either.
LEMMA Merge3Facts ==
    ASSUME NEW b \in Text, NEW ours \in Text, NEW theirs \in Text
    PROVE  /\ Merge3(b, ours, theirs) \in Text
           /\ \A l \in Line :
                 /\ ours[l] > 0 /\ (b[l] > 0 => theirs[l] > 0) => Merge3(b, ours, theirs)[l] > 0
                 /\ Merge3(b, ours, theirs)[l] > 0 => ours[l] > 0 \/ theirs[l] > 0
<1>   DEFINE stays(l) == Lower(b[l], Lower(ours[l], theirs[l]))
             once(l) == stays(l) + Excess(ours[l], b[l])
             both(l) == stays(l) + (Excess(ours[l], b[l]) + Excess(theirs[l], b[l]))
             m == Merge3(b, ours, theirs)
<1>1. m = [l \in Line |-> m[l]] /\ \A l \in Line : m[l] \in {once(l), both(l)}
      BY Zenon DEF Merge3
<1>2. \A l \in Line : b[l] \in Nat /\ ours[l] \in Nat /\ theirs[l] \in Nat
      BY DEF Text
<1>   HIDE DEF m
<1>3. ASSUME NEW l \in Line
      PROVE  /\ m[l] \in Nat
             /\ ours[l] > 0 /\ (b[l] > 0 => theirs[l] > 0) => m[l] > 0
             /\ m[l] > 0 => ours[l] > 0 \/ theirs[l] > 0
  <2>1. m[l] = once(l) \/ m[l] = both(l)
    <3>   HIDE DEF once, both
    <3>   QED
          BY <1>1
  <2>2. /\ b[l] \in Nat /\ ours[l] \in Nat /\ theirs[l] \in Nat
        BY <1>2
  <2>3. /\ stays(l) \in Nat /\ (b[l] > 0 /\ ours[l] > 0 /\ theirs[l] > 0 => stays(l) > 0)
        /\ stays(l) > 0 => ours[l] > 0
        BY <2>2 DEF Lower
  <2>4. /\ Excess(ours[l], b[l]) \in Nat /\ (Excess(ours[l], b[l]) > 0 => ours[l] > 0)
        /\ b[l] = 0 => Excess(ours[l], b[l]) = ours[l]
        /\ Excess(theirs[l], b[l]) \in Nat /\ (Excess(theirs[l], b[l]) > 0 => theirs[l] > 0)
        BY <2>2 DEF Excess
  <2>   HIDE DEF stays
  <2>   QED
        BY <2>1, <2>2, <2>3, <2>4
<1>4. m \in Text
      BY <1>1, <1>3 DEF Text
<1>   QED
      BY <1>3, <1>4 DEF m

-----------------------------------------------------------------------------
(***************************************************************************)
(* Types.                                                                  *)
(***************************************************************************)
\* Documents merge by union.
LEMMA MergedFacts ==
    ASSUME NEW d \in Doc, NEW e \in Doc
    PROVE  /\ Merged(d, e) \in Doc
           /\ Merged(d, e).ins = d.ins \cup e.ins /\ Merged(d, e).del = d.del \cup e.del
BY DEF Merged, Doc

\* The teammate inserts a line of theirs, or deletes what the server has.
LEMMA TheirEditFacts ==
    ASSUME Shaped, TheirEdit
    PROVE  \E e \in Doc :
              /\ server' = Merged(server, e) /\ down' = IF link THEN Merged(down, e) ELSE down
              /\ e.del \subseteq server.ins /\ \A o \in e.ins : o[1] \in Theirs /\ o[2] <= 1
<1>1. PICK e \in {[ins |-> {<<l, 1>>}, del |-> {}] :
                     l \in {k \in Theirs : <<k, 1>> \notin server.ins}}
                 \cup {[ins |-> {}, del |-> {o}] : o \in server.ins \ server.del} :
         server' = Merged(server, e) /\ down' = IF link THEN Merged(down, e) ELSE down
      BY DEF TheirEdit
<1>2. \/ \E k \in Theirs : e = [ins |-> {<<k, 1>>}, del |-> {}]
      \/ \E o \in server.ins : e = [ins |-> {}, del |-> {o}]
      BY <1>1
<1>3. e \in Doc
  <2>1. \A k \in Theirs : <<k, 1>> \in Op
        BY DEF Op, Line
  <2>2. server.ins \subseteq Op
        BY DEF Shaped, NoteTypeOK, Doc
  <2>3. \A k \in Theirs : [ins |-> {<<k, 1>>}, del |-> {}] \in Doc
        BY <2>1 DEF Doc
  <2>4. \A o \in server.ins : [ins |-> {}, del |-> {o}] \in Doc
        BY <2>2 DEF Doc
  <2>   QED
        BY <1>2, <2>3, <2>4
<1>4. e.del \subseteq server.ins /\ \A o \in e.ins : o[1] \in Theirs /\ o[2] <= 1
      BY <1>2
<1>   QED
      BY <1>1, <1>3, <1>4

\* The texts of the documents.
LEMMA DocTexts ==
    ASSUME Shaped, Docs
    PROVE  /\ doc \in Doc /\ TextOf(doc) \in Text
           /\ \A l \in Line : TextOf(doc)[l] > 0 <=> Alive(l, doc)
           /\ catchup.batch \in Doc /\ TextOf(catchup.batch) \in Text
           /\ \A l \in Line : TextOf(catchup.batch)[l] > 0 => In(l, server)
<1>1. doc \in Doc /\ Bounded(doc) /\ server \in Doc /\ catchup.batch \in Doc
      BY DEF Shaped, NoteTypeOK, Docs, Catchup
<1>2. Bounded(catchup.batch)
      BY DEF Docs, Bounded, Within
<1>3. \A l : Alive(l, catchup.batch) => In(l, server)
      BY DEF Docs, Within, Alive, In
<1>   QED
      BY <1>1, <1>2, <1>3, TextFacts

\* The document once the disk is folded in.
LEMMA FoldInFacts ==
    ASSUME Shaped, Docs, FoldIn
    PROVE  \E t \in Text :
              /\ doc' \in SetTexts(t)
              /\ \/ job.at = "blindMerge" /\ t = job.read
                 \/ job.at = "merge" /\ t = Merge3(job.text, job.read, TextOf(doc))
<1>1. TextOf(doc) \in Text
      BY DocTexts
<1>2. /\ job.at \in {"merge", "blindMerge"} /\ job.read \in Text
      /\ job.at = "merge" => job.text \in Text
      BY DEF FoldIn, Shaped, Folding
<1>3. job.at = "merge" => Merge3(job.text, job.read, TextOf(doc)) \in Text
      BY <1>1, <1>2, Merge3Facts
<1>4. doc' \in SetTexts(IF job.at = "blindMerge" THEN job.read
                        ELSE Merge3(job.text, job.read, TextOf(doc)))
      BY DEF FoldIn
<1>5. CASE job.at = "blindMerge"
  <2>1. doc' \in SetTexts(job.read)
        BY <1>4, <1>5
  <2>   QED
        BY <1>2, <1>5, <2>1
<1>6. CASE job.at = "merge"
  <2>1. doc' \in SetTexts(Merge3(job.text, job.read, TextOf(doc)))
        BY <1>4, <1>6
  <2>   QED
        BY <1>3, <1>6, <2>1
<1>   QED
      BY <1>2, <1>5, <1>6

\* The connection comes or goes.
LEMMA LinkChanges ==
    ASSUME Shaped, catchup' \in Catchup, catchup'.at \in {"none", "batch"},
           up' \in Doc, down' \in Doc, link' \in BOOLEAN, checked' \in BOOLEAN,
           UNCHANGED <<noteFiles, noteMem, on, server, typed, coarse, torn, overtaken>>
    PROVE  Shaped'
<1>   USE DEF noteFiles, noteMem, Shaped
<1>1. NoteTypeOK'
  <2>1. {open, skipped, modifyDue, snapDue, on, link, checked, coarse, torn, overtaken}'
           \subseteq BOOLEAN
        BY DEF NoteTypeOK, Job
  <2>2. job'.tries \in 0 .. FoldAttempts - 1 /\ job'.kind \in JobKinds /\ job'.at \in Steps
        BY DEF NoteTypeOK, Job
  <2>3. /\ disk' \in Text /\ doc' \in Doc /\ server' \in Doc
        /\ store'.doc \in Doc /\ store'.mark \in Marks \cup {NoText}
        /\ mark' \in Marks \cup {NoText}
        /\ rec' \in [folded : Text \cup {NoText}, content : Text]
        /\ saved' \in [folded : Text \cup {NoText}, content : Text]
        /\ base' \in Text \cup {NoText}
        /\ job'.read \in Text \cup {NoText} /\ job'.text \in Text \cup {NoText}
        BY DEF NoteTypeOK, Job
  <2>   QED
        BY <2>1, <2>2, <2>3 DEF NoteTypeOK
<1>2. typed' \subseteq Mine /\ job' \in Job /\ store' \in [doc : Doc, mark : Marks \cup {NoText}]
      OBVIOUS
<1>3. /\ job'.at \in Folding \cup AfterFold => job'.read \in Text
      /\ job'.at \in {"merge", "look", "write", "wrote"} => job'.text \in Text
      /\ job'.at # "none" => open'
      /\ ~open' => doc' = store'.doc
      OBVIOUS
<1>4. catchup'.at \in {"lock", "apply"} => open'
      OBVIOUS
<1>   QED
      BY <1>1, <1>2, <1>3, <1>4

\* The handlers' steps and the texts they hold.
LEMMA ShapedKept ==
    ASSUME Shaped, Docs, NoteNext
    PROVE  Shaped'
<1>   USE NoteAssumption DEF noteFiles, noteMem, noteNet, noteHist
<1>1. /\ doc \in Doc /\ server \in Doc /\ up \in Doc /\ down \in Doc /\ NoOps \in Doc
      /\ store.doc \in Doc /\ catchup.batch \in Doc
      BY DocTexts DEF Shaped, NoteTypeOK, NoOps, Doc
<1>2. TextOf(doc) \in Text /\ TextOf(catchup.batch) \in Text
      BY DocTexts
<1>3. \A d, e \in Doc : Merged(d, e) \in Doc
      BY MergedFacts
<1>4. /\ NoJob \in Job /\ NoJob.at = "none"
      /\ NoCatchup \in Catchup /\ NoCatchup.at = "none"
      BY <1>1 DEF NoJob, Job, NoCatchup, Catchup, JobKinds, Steps
<1>   USE DEF Shaped, NoteTypeOK, Job, JobKinds, Steps, Folding, AfterFold
<1>5. CASE \E l \in Line : Type(l)
      BY <1>1, <1>2, <1>3, <1>5 DEF Type, Save, Text
<1>6. CASE \E l \in Line : Erase(l)
      BY <1>1, <1>2, <1>3, <1>6 DEF Erase, Save, Text
<1>7. CASE TheirEdit
  <2>1. server' \in Doc /\ down' \in Doc
        BY <1>1, <1>3, <1>7, TheirEditFacts
  <2>   QED
        BY <1>7, <2>1 DEF TheirEdit
<1>8. CASE PluginStarts
      BY <1>1, <1>2, <1>3, <1>8 DEF PluginStarts
<1>9. CASE NoteCrash
      BY <1>1, <1>2, <1>3, <1>4, <1>9 DEF NoteCrash
<1>10. CASE NoteConnects
  <2>1. [at |-> "batch", batch |-> server] \in Catchup
        BY <1>1 DEF Catchup
  <2>2. catchup' = [at |-> "batch", batch |-> server]
        BY <1>10 DEF NoteConnects, NoCatchup
  <2>3. catchup' \in Catchup /\ catchup'.at = "batch"
        BY <2>1, <2>2
  <2>4. up' \in Doc /\ down' \in Doc
        BY <1>1, <1>10 DEF NoteConnects
  <2>5. /\ link' = TRUE /\ checked' = FALSE
        /\ UNCHANGED <<noteFiles, noteMem, on, server, noteHist>>
        BY <1>10 DEF NoteConnects
  <2>   QED
        BY <2>3, <2>4, <2>5, LinkChanges
<1>11. CASE NoteDrops
  <2>1. catchup' \in Catchup /\ catchup'.at = "none"
        BY <1>4, <1>11 DEF NoteDrops
  <2>2. up' \in Doc /\ down' \in Doc
        BY <1>1, <1>11 DEF NoteDrops
  <2>3. /\ link' = FALSE
        /\ UNCHANGED <<noteFiles, noteMem, on, checked, server, typed, coarse, torn, overtaken>>
        BY <1>11 DEF NoteDrops
  <2>   QED
        BY <2>1, <2>2, <2>3, LinkChanges
<1>12. CASE ServerTakes
      BY <1>1, <1>2, <1>3, <1>12 DEF ServerTakes
<1>13. CASE StoreTakes
      BY <1>1, <1>2, <1>3, <1>13 DEF StoreTakes, Marks
<1>14. CASE RecordSaved
      BY <1>1, <1>2, <1>3, <1>14 DEF RecordSaved
<1>15. CASE Fold
      BY <1>1, <1>2, <1>3, <1>15 DEF Fold, MarkFolded, SetFolded
<1>16. CASE FindBase
  <2>1. mark' \in Marks \cup {NoText} /\ rec' \in [folded : Text \cup {NoText}, content : Text]
        BY <1>16 DEF FindBase, MarkFolded, SetFolded
  <2>2. LostWrite(job.read) => mark.text \in Text
        BY DEF LostWrite, Marks
  <2>3. Marker(job.read) \in Text \cup {NoText}
        BY <2>2 DEF Marker
  <2>4. base' \in Text \cup {NoText}
        BY <1>16, <2>3 DEF FindBase, MarkFolded
  <2>5. /\ job' \in Job /\ job'.read = job.read
        /\ \/ job'.at \in {"folded", "blindMerge"}
           \/ job'.at = "merge" /\ job'.text \in Text
        BY <1>16, <2>3 DEF FindBase
  <2>   QED
        BY <1>16, <2>1, <2>4, <2>5 DEF FindBase
<1>17. CASE FoldIn
      BY <1>1, <1>2, <1>3, <1>17, SetTextsFacts, FoldInFacts DEF FoldIn, MarkFolded, SetFolded
<1>18. CASE BeginModify
      BY <1>1, <1>2, <1>3, <1>18 DEF BeginModify, Open, NoJob
<1>19. CASE EndModify
      BY <1>1, <1>2, <1>3, <1>4, <1>19 DEF EndModify
<1>20. CASE Hydrate
  <2>1. job' \in Job /\ job'.at = "read" /\ job.at = "fetch"
        BY <1>20 DEF Hydrate
  <2>2. doc' \in Doc /\ up' \in Doc /\ base' \in Text \cup {NoText}
        BY <1>1, <1>2, <1>3, <1>20 DEF Hydrate, TakeIn, Push
  <2>3. skipped' \in BOOLEAN /\ snapDue' \in BOOLEAN /\ checked' \in BOOLEAN
        BY <1>20 DEF Hydrate
  <2>   QED
        BY <1>20, <2>1, <2>2, <2>3 DEF Hydrate
<1>21. CASE ReadDisk
      BY <1>1, <1>2, <1>3, <1>21 DEF ReadDisk
<1>22. CASE BeginSnapshot
      BY <1>1, <1>2, <1>3, <1>22 DEF BeginSnapshot, NoJob
<1>23. CASE MarkWrite
  <2>1. [text |-> TextOf(doc), over |-> rec.folded, synced |-> rec.content, state |-> doc,
         here |-> FALSE] \in Marks
        BY <1>1, <1>2 DEF Marks
  <2>2. /\ mark' \in Marks \cup {NoText} /\ base' \in Text \cup {NoText}
        /\ rec' \in [folded : Text \cup {NoText}, content : Text]
    <3>1. CASE job.read = TextOf(doc)
          BY <1>2, <1>23, <3>1 DEF MarkWrite, SetFolded
    <3>2. CASE job.read # TextOf(doc)
      <4>1. /\ mark' = [text |-> TextOf(doc), over |-> rec.folded, synced |-> rec.content,
                        state |-> doc, here |-> FALSE]
            /\ base' = base /\ rec' = rec
            BY <1>23, <3>2 DEF MarkWrite
      <4>   QED
            BY <2>1, <4>1
    <3>   QED
          BY <3>1, <3>2
  <2>3. \/ job' = NoJob
        \/ /\ job' = [job EXCEPT !.at = "look", !.text = TextOf(doc)]
           /\ job.at = "folded"
        BY <1>23 DEF MarkWrite
  <2>4. \/ job' = NoJob
        \/ /\ job' \in Job /\ job'.at = "look" /\ job'.read = job.read /\ job'.text \in Text
           /\ job.at = "folded"
        BY <1>2, <2>3
  <2>   QED
        BY <1>4, <1>23, <2>2, <2>4 DEF MarkWrite
<1>24. CASE LookAgain
  <2>1. /\ mark' \in Marks \cup {NoText} /\ base' \in Text \cup {NoText}
        /\ rec' \in [folded : Text \cup {NoText}, content : Text]
        BY <1>24 DEF LookAgain, MarkFolded, SetFolded
  <2>2. \/ job' = NoJob
        \/ job' = [job EXCEPT !.at = "write"]
        \/ /\ job.tries + 1 < FoldAttempts
           /\ job' = [job EXCEPT !.at = "fold", !.read = disk, !.text = NoText, !.tries = @ + 1]
        BY <1>24 DEF LookAgain
  <2>3. CASE job' = [job EXCEPT !.at = "write"]
        BY <1>24, <2>1, <2>3 DEF LookAgain
  <2>4. CASE job' = NoJob
    <3>1. job' \in Job /\ job'.at = "none"
          BY <1>4, <2>4
    <3>   QED
          BY <1>24, <2>1, <3>1 DEF LookAgain
  <2>5. CASE /\ job.tries + 1 < FoldAttempts
             /\ job' = [job EXCEPT !.at = "fold", !.read = disk, !.text = NoText, !.tries = @ + 1]
    <3>1. job.tries + 1 \in 0 .. FoldAttempts - 1
          BY <2>5
    <3>2. job' \in Job /\ job'.at = "fold" /\ job'.read \in Text
          BY <2>5, <3>1
    <3>   QED
          BY <1>24, <2>1, <3>2 DEF LookAgain
  <2>   QED
        BY <2>2, <2>3, <2>4, <2>5
<1>25. CASE WriteDisk
      BY <1>1, <1>2, <1>3, <1>25 DEF WriteDisk
<1>26. CASE EndSnapshot
  <2>1. mark # NoText => [mark EXCEPT !.here = TRUE] \in Marks
        BY DEF Marks
  <2>2. mark' \in Marks \cup {NoText}
        BY <1>26, <2>1 DEF EndSnapshot
  <2>   QED
        BY <1>4, <1>26, <2>2 DEF EndSnapshot
<1>27. CASE CatchupLook
      BY <1>1, <1>2, <1>3, <1>27 DEF CatchupLook, Catchup
<1>28. CASE CatchupSkips
  <2>1. /\ mark' \in Marks \cup {NoText} /\ base' \in Text \cup {NoText}
        /\ rec' \in [folded : Text \cup {NoText}, content : Text]
        BY <1>28 DEF CatchupSkips, SetFolded
  <2>2. catchup' \in Catchup /\ catchup'.at \in {"none", "load"}
        BY <1>4, <1>28 DEF CatchupSkips, Catchup
  <2>3. skipped' \in BOOLEAN /\ overtaken' \in BOOLEAN
        BY <1>28 DEF CatchupSkips
  <2>   QED
        BY <1>28, <2>1, <2>2, <2>3 DEF CatchupSkips
<1>29. CASE CatchupOpens
      BY <1>1, <1>2, <1>3, <1>4, <1>29 DEF Catchup, CatchupOpens, Open, NoJob
<1>30. CASE NoteAgreement
      BY <1>1, <1>2, <1>3, <1>30 DEF Catchup, NoteAgreement, MarkFolded, SetFolded, NoJob
<1>31. CASE CatchupApplies
  <2>1. doc' \in Doc /\ base' \in Text \cup {NoText}
        BY <1>1, <1>2, <1>3, <1>31 DEF CatchupApplies, TakeIn
  <2>2. up' \in Doc
        BY <1>1, <1>3, <1>31, <2>1 DEF CatchupApplies, Push
  <2>3. open
        BY <1>31 DEF CatchupApplies
  <2>4. catchup' \in Catchup /\ catchup'.at = "none"
        BY <1>4, <1>31 DEF CatchupApplies
  <2>5. /\ skipped' = FALSE /\ snapDue' = TRUE
        /\ UNCHANGED <<noteFiles, open, mark, rec, job, modifyDue, on, link, checked, server, down,
                       noteHist>>
        BY <1>31 DEF CatchupApplies
  <2>   QED
        BY <2>1, <2>2, <2>3, <2>4, <2>5
<1>32. CASE TheirEditComes
      BY <1>1, <1>2, <1>3, <1>32 DEF TheirEditComes, TakeIn, Open
<1>33. CASE CheckFirst
  <2>1. doc' \in Doc /\ base' \in Text \cup {NoText}
        BY <1>1, <1>2, <1>3, <1>33 DEF CheckFirst, TakeIn
  <2>2. up' \in Doc
        BY <1>1, <1>3, <1>33, <2>1 DEF CheckFirst, Push
  <2>3. open' = TRUE /\ mark' \in Marks \cup {NoText}
        BY <1>33 DEF CheckFirst, Open
  <2>4. /\ skipped' \in BOOLEAN /\ checked' \in BOOLEAN /\ snapDue' \in BOOLEAN
        /\ job' = job /\ catchup' = catchup
        BY <1>33 DEF CheckFirst
  <2>   QED
        BY <1>33, <2>1, <2>2, <2>3, <2>4 DEF CheckFirst
<1>   QED
      BY <1>5, <1>6, <1>7, <1>8, <1>9, <1>10, <1>11, <1>12, <1>13, <1>14, <1>15, <1>16,
         <1>17, <1>18, <1>19, <1>20, <1>21, <1>22, <1>23, <1>24, <1>25, <1>26, <1>27, <1>28,
         <1>29, <1>30, <1>31, <1>32, <1>33 DEF NoteNext, Device

-----------------------------------------------------------------------------
(***************************************************************************)
(* Which document is part of which.                                        *)
(***************************************************************************)
\* What two documents with numbers bounded have between them is bounded too.
LEMMA BoundedUnion ==
    ASSUME NEW d, NEW a \in Doc, NEW b \in Doc, Bounded(a), Bounded(b),
           d.ins \subseteq a.ins \cup b.ins
    PROVE  Bounded(d)
<1>1. ASSUME NEW l \in Line
      PROVE  \E n \in Nat : \A o \in d.ins : o[1] = l => o[2] <= n
  <2>1. PICK i \in Nat : \A o \in a.ins : o[1] = l => o[2] <= i
        BY DEF Bounded
  <2>2. PICK j \in Nat : \A o \in b.ins : o[1] = l => o[2] <= j
        BY DEF Bounded
  <2>3. \A o \in d.ins : o[1] = l => o[2] \in Nat /\ (o[2] <= i \/ o[2] <= j)
        BY <2>1, <2>2 DEF Doc, Op
  <2>4. i + j \in Nat /\ \A o \in d.ins : o[1] = l => o[2] <= i + j
        BY <2>3
  <2>   QED
        BY <2>4
<1>   QED
      BY <1>1 DEF Bounded

\* Nothing the documents hold changes.
LEMMA DocsStay ==
    ASSUME Docs, doc' = doc, server' = server, store'.doc = store.doc, up' \in {up, NoOps},
           down' \in {down, NoOps}, catchup'.batch \in {catchup.batch, server, NoOps}
    PROVE  Docs'
BY DEF Docs, Whole, Within, Bounded, NoOps

\* A document of the server's is merged in.
LEMMA DocsTakeIn ==
    ASSUME Shaped, Docs, NEW d \in Doc, Within(d, server), doc' = Merged(doc, d),
           server' = server, store' = store, up' \in {up, Merged(up, doc')},
           down' \in {down, NoOps}, catchup'.batch \in {catchup.batch, NoOps}
    PROVE  Docs'
<1>1. doc \in Doc /\ server \in Doc /\ up \in Doc
      BY DEF Shaped, NoteTypeOK
<1>2. doc' \in Doc /\ doc'.ins = doc.ins \cup d.ins /\ doc'.del = doc.del \cup d.del
      BY <1>1, MergedFacts
<1>3. /\ Merged(up, doc').ins = up.ins \cup doc'.ins
      /\ Merged(up, doc').del = up.del \cup doc'.del
      BY <1>1, <1>2, MergedFacts
<1>4. Bounded(doc')
      BY <1>1, <1>2, BoundedUnion DEF Docs, Within
<1>5. Whole(doc') /\ Whole(up)' /\ up'.ins \subseteq doc'.ins
      BY <1>2, <1>3 DEF Docs, Whole, Within
<1>6. doc'.del \subseteq doc'.ins \cup server'.ins
      BY <1>2 DEF Docs, Whole, Within
<1>   QED
      BY <1>2, <1>4, <1>5, <1>6 DEF Docs, Whole, Within, Bounded, NoOps

\* The server's document grows.
LEMMA DocsServer ==
    ASSUME Shaped, Docs, server' \in Doc, Within(server, server'),
           server'.del \subseteq server'.ins, Bounded(server'), doc' = doc, store' = store,
           up' \in {up, NoOps}, Within(down', server'), catchup' = catchup
    PROVE  Docs'
BY DEF Docs, Whole, Within, Bounded, NoOps

\* Each document stays a part of those it was a part of.
LEMMA DocsKept ==
    ASSUME Shaped, Docs, MarksHeld, NoteNext
    PROVE  Docs'
<1>   USE DEF noteFiles, noteMem, noteNet, noteHist
<1>1. /\ doc \in Doc /\ server \in Doc /\ up \in Doc /\ down \in Doc
      /\ store.doc \in Doc /\ catchup.batch \in Doc
      BY DocTexts DEF Shaped, NoteTypeOK
<1>2. CASE TheirEdit
  <2>1. PICK e \in Doc :
           /\ server' = Merged(server, e) /\ down' = IF link THEN Merged(down, e) ELSE down
           /\ e.del \subseteq server.ins /\ \A o \in e.ins : o[1] \in Theirs /\ o[2] <= 1
        BY <1>2, TheirEditFacts
  <2>2. /\ server'.ins = server.ins \cup e.ins /\ server'.del = server.del \cup e.del
        /\ Merged(down, e).ins = down.ins \cup e.ins /\ Merged(down, e).del = down.del \cup e.del
        /\ server' \in Doc
        BY <1>1, <2>1, MergedFacts
  <2>3. Bounded(e)
        BY <2>1 DEF Bounded
  <2>4. Bounded(server')
        BY <1>1, <2>2, <2>3, BoundedUnion DEF Docs
  <2>5. Within(server, server') /\ server'.del \subseteq server'.ins /\ Within(down', server')
        BY <2>1, <2>2 DEF Docs, Within, Whole
  <2>   QED
        BY <1>2, <2>2, <2>4, <2>5, DocsServer DEF TheirEdit
<1>3. CASE ServerTakes
  <2>1. /\ server' \in Doc
        /\ server'.ins = server.ins \cup up.ins /\ server'.del = server.del \cup up.del
        BY <1>1, <1>3, MergedFacts DEF ServerTakes
  <2>2. Bounded(server')
        BY <1>1, <2>1, BoundedUnion DEF Docs
  <2>3. Within(server, server') /\ server'.del \subseteq server'.ins /\ Within(down', server')
        BY <1>3, <2>1 DEF Docs, Within, Whole, ServerTakes
  <2>   QED
        BY <1>3, <2>1, <2>2, <2>3, DocsServer DEF ServerTakes
<1>4. CASE NoteCrash
  <2>1. /\ doc' = store.doc /\ server' = server /\ store' = store /\ up' = NoOps /\ down' = NoOps
        /\ catchup'.batch = NoOps
        BY <1>4 DEF NoteCrash, NoCatchup
  <2>2. Bounded(doc')
        BY <1>1, <2>1, BoundedUnion DEF Docs
  <2>   QED
        BY <2>1, <2>2 DEF Docs, Whole, Within, Bounded, NoOps
<1>5. CASE StoreTakes
  <2>1. \/ store'.doc = doc \/ store'.doc = store.doc
        \/ mark # NoText /\ store'.doc = Merged(store.doc, mark.state)
        BY <1>5 DEF StoreTakes, Shaped
  <2>2. mark # NoText => mark.state \in Doc /\ mark.state.ins \subseteq doc.ins /\ Whole(mark.state)
        BY DEF Shaped, NoteTypeOK, Marks, MarksHeld, MarkOf, Whole
  <2>3. store'.doc.ins \subseteq doc.ins /\ Whole(store'.doc)
    <3>1. CASE store'.doc \in {doc, store.doc}
          BY <3>1 DEF Docs
    <3>2. CASE mark # NoText /\ store'.doc = Merged(store.doc, mark.state)
      <4>1. /\ store'.doc.ins = store.doc.ins \cup mark.state.ins
            /\ store'.doc.del = store.doc.del \cup mark.state.del
            BY <1>1, <2>2, <3>2, MergedFacts
      <4>   QED
            BY <2>2, <3>2, <4>1 DEF Docs, Whole
    <3>   QED
          BY <2>1, <3>1, <3>2
  <2>4. UNCHANGED <<doc, server, up, down, catchup>>
        BY <1>5 DEF StoreTakes
  <2>   QED
        BY <2>3, <2>4 DEF Docs, Whole, Within, Bounded
<1>6. CASE FoldIn
  <2>1. PICK t \in Text : doc' \in SetTexts(t)
        BY <1>6, FoldInFacts
  <2>2. /\ doc' \in Doc /\ doc.ins \subseteq doc'.ins /\ Bounded(doc')
        /\ doc'.del \subseteq doc.del \cup doc.ins
        BY <2>1, SetTextsFacts
  <2>3. /\ Merged(up, doc').ins = up.ins \cup doc'.ins
        /\ Merged(up, doc').del = up.del \cup doc'.del
        BY <1>1, <2>2, MergedFacts
  <2>4. up' \in {up, Merged(up, doc')} /\ UNCHANGED <<server, store, down, catchup>>
        BY <1>6 DEF FoldIn
  <2>5. doc'.del \subseteq doc'.ins \cup server.ins
        BY <2>2 DEF Docs, Whole
  <2>   QED
        BY <2>2, <2>3, <2>4, <2>5 DEF Docs, Whole, Within, Bounded
<1>7. Within(server, server) /\ Within(down, server) /\ Within(catchup.batch, server)
      BY DEF Within, Docs
<1>8. CASE Hydrate
  <2>1. CASE doc' = doc /\ up' = up
        BY <1>8, <2>1, DocsStay DEF Hydrate
  <2>2. CASE TakeIn(server, TRUE) /\ Push(server)
        BY <1>1, <1>7, <1>8, <2>2, DocsTakeIn DEF Hydrate, TakeIn, Push
  <2>   QED
        BY <1>8, <2>1, <2>2 DEF Hydrate
<1>9. CASE CatchupApplies
      BY <1>1, <1>7, <1>9, DocsTakeIn DEF CatchupApplies, TakeIn, Push, NoCatchup
<1>10. CASE TheirEditComes
       BY <1>1, <1>7, <1>10, DocsTakeIn DEF TheirEditComes, TakeIn
<1>11. CASE CheckFirst
       BY <1>1, <1>7, <1>11, DocsTakeIn DEF CheckFirst, TakeIn, Push
<1>12. CASE \E l \in Line : Type(l)
       BY <1>12, DocsStay DEF Type, Save
<1>13. CASE \E l \in Line : Erase(l)
       BY <1>13, DocsStay DEF Erase, Save
<1>14. CASE PluginStarts
       BY <1>14, DocsStay DEF PluginStarts
<1>15. CASE NoteConnects
       BY <1>15, DocsStay DEF NoteConnects, NoCatchup
<1>16. CASE NoteDrops
       BY <1>16, DocsStay DEF NoteDrops, NoCatchup
<1>17. CASE RecordSaved
       BY <1>17, DocsStay DEF RecordSaved
<1>18. CASE Fold
       BY <1>18, DocsStay DEF Fold
<1>19. CASE FindBase
       BY <1>19, DocsStay DEF FindBase
<1>20. CASE BeginModify
       BY <1>20, DocsStay DEF BeginModify
<1>21. CASE EndModify
       BY <1>21, DocsStay DEF EndModify
<1>22. CASE ReadDisk
       BY <1>22, DocsStay DEF ReadDisk
<1>23. CASE BeginSnapshot
       BY <1>23, DocsStay DEF BeginSnapshot
<1>24. CASE MarkWrite
       BY <1>24, DocsStay DEF MarkWrite
<1>25. CASE LookAgain
       BY <1>25, DocsStay DEF LookAgain
<1>26. CASE WriteDisk
       BY <1>26, DocsStay DEF WriteDisk
<1>27. CASE EndSnapshot
       BY <1>27, DocsStay DEF EndSnapshot
<1>28. CASE CatchupLook
       BY <1>28, DocsStay DEF CatchupLook, Shaped, Catchup
<1>29. CASE CatchupSkips
       BY <1>29, DocsStay DEF CatchupSkips, NoCatchup, Shaped, Catchup
<1>30. CASE CatchupOpens
       BY <1>30, DocsStay DEF CatchupOpens, Shaped, Catchup
<1>31. CASE NoteAgreement
       BY <1>31, DocsStay DEF NoteAgreement, Shaped, Catchup
<1>   QED
      BY <1>2, <1>3, <1>4, <1>5, <1>6, <1>8, <1>9, <1>10, <1>11, <1>12, <1>13, <1>14, <1>15,
         <1>16, <1>17, <1>18, <1>19, <1>20, <1>21, <1>22, <1>23, <1>24, <1>25, <1>26, <1>27,
         <1>28, <1>29, <1>30, <1>31 DEF NoteNext, Device

-----------------------------------------------------------------------------
(***************************************************************************)
(* What a step changes.                                                    *)
(***************************************************************************)
TakesIn == \E d \in {server, catchup.batch, down} : doc' = Merged(doc, d)
Grown == \A l : (Held(l) => Held(l)') /\ (Durable(l) => Durable(l)')

\* Each variable with the actions that change it.
LEMMA Touches ==
    ASSUME Shaped, NoteNext
    PROVE  /\ disk' = disk \/ WriteDisk \/ \E l \in Line : Type(l) \/ Erase(l)
           /\ server' = server \/ TheirEdit \/ ServerTakes
           /\ store' = store \/ StoreTakes
           /\ saved' = saved \/ RecordSaved
           /\ \/ mark' \in {mark, NoText} \/ (mark' = store.mark /\ ~open)
              \/ MarkWrite \/ EndSnapshot
           /\ \/ rec' = rec \/ Fold \/ FindBase \/ FoldIn \/ MarkWrite \/ LookAgain
              \/ EndSnapshot \/ CatchupSkips \/ NoteAgreement \/ NoteCrash
           /\ \/ job' = job \/ job'.at \notin Folding \cup AfterFold
              \/ ReadDisk \/ Fold \/ FindBase \/ FoldIn \/ MarkWrite \/ LookAgain \/ WriteDisk
           /\ UNCHANGED <<typed, removed, blind>> \/ \E l \in Line : Type(l) \/ Erase(l)
           /\ doc' = doc \/ FoldIn \/ NoteCrash \/ TakesIn
<1>   USE DEF noteFiles, noteMem, noteNet, noteHist
<1>1. CASE \E l \in Line : Type(l)
  <2>1. UNCHANGED <<server, store, saved, mark, rec, job, removed, doc>>
        BY <1>1 DEF Type, Save
  <2>   QED
        BY <1>1, <2>1
<1>2. CASE \E l \in Line : Erase(l)
  <2>1. UNCHANGED <<server, store, saved, mark, rec, job, typed, blind, doc>>
        BY <1>2 DEF Erase, Save
  <2>   QED
        BY <1>2, <2>1
<1>3. CASE TheirEdit
  <2>1. UNCHANGED <<disk, store, saved, mark, rec, job, typed, removed, blind, doc>>
        BY <1>3 DEF TheirEdit
  <2>   QED
        BY <1>3, <2>1
<1>4. CASE PluginStarts
  <2>1. UNCHANGED <<disk, server, store, saved, mark, rec, job, typed, removed, blind, doc>>
        BY <1>4 DEF PluginStarts
  <2>   QED
        BY <1>4, <2>1
<1>5. CASE NoteCrash
  <2>1. UNCHANGED <<disk, server, store, saved, typed, removed, blind>>
        BY <1>5 DEF NoteCrash, NoJob
  <2>2. mark' = NoText
        BY <1>5 DEF NoteCrash, NoJob
  <2>3. job'.at = "none"
        BY <1>5 DEF NoteCrash, NoJob
  <2>   QED
        BY <1>5, <2>1, <2>2, <2>3 DEF Folding, AfterFold
<1>6. CASE NoteConnects
  <2>1. UNCHANGED <<disk, server, store, saved, mark, rec, job, typed, removed, blind, doc>>
        BY <1>6 DEF NoteConnects
  <2>   QED
        BY <1>6, <2>1
<1>7. CASE NoteDrops
  <2>1. UNCHANGED <<disk, server, store, saved, mark, rec, job, typed, removed, blind, doc>>
        BY <1>7 DEF NoteDrops
  <2>   QED
        BY <1>7, <2>1
<1>8. CASE ServerTakes
  <2>1. UNCHANGED <<disk, store, saved, mark, rec, job, typed, removed, blind, doc>>
        BY <1>8 DEF ServerTakes
  <2>   QED
        BY <1>8, <2>1
<1>9. CASE StoreTakes
  <2>1. UNCHANGED <<disk, server, saved, mark, rec, job, typed, removed, blind, doc>>
        BY <1>9 DEF StoreTakes
  <2>   QED
        BY <1>9, <2>1
<1>10. CASE RecordSaved
  <2>1. UNCHANGED <<disk, server, store, mark, rec, job, typed, removed, blind, doc>>
        BY <1>10 DEF RecordSaved
  <2>   QED
        BY <1>10, <2>1
<1>11. CASE Fold
  <2>1. UNCHANGED <<disk, server, store, saved, typed, removed, blind, doc>>
        BY <1>11 DEF Fold, MarkFolded, SetFolded
  <2>2. mark' \in {mark, NoText}
        BY <1>11 DEF Fold, MarkFolded, SetFolded
  <2>   QED
        BY <1>11, <2>1, <2>2
<1>12. CASE FindBase
  <2>1. UNCHANGED <<disk, server, store, saved, typed, removed, blind, doc>>
        BY <1>12 DEF FindBase, MarkFolded, SetFolded
  <2>2. mark' \in {mark, NoText}
        BY <1>12 DEF FindBase, MarkFolded, SetFolded
  <2>   QED
        BY <1>12, <2>1, <2>2
<1>13. CASE FoldIn
  <2>1. UNCHANGED <<disk, server, store, saved, typed, removed, blind>>
        BY <1>13 DEF FoldIn, MarkFolded, SetFolded
  <2>2. mark' \in {mark, NoText}
        BY <1>13 DEF FoldIn, MarkFolded, SetFolded
  <2>   QED
        BY <1>13, <2>1, <2>2
<1>14. CASE BeginModify
  <2>1. UNCHANGED <<disk, server, store, saved, rec, typed, removed, blind, doc>>
        BY <1>14 DEF BeginModify, Open, NoJob
  <2>2. mark' = mark \/ (mark' = store.mark /\ ~open)
        BY <1>14 DEF BeginModify, Open, NoJob
  <2>3. job'.at = "fetch"
        BY <1>14 DEF BeginModify, Open, NoJob
  <2>   QED
        BY <1>14, <2>1, <2>2, <2>3 DEF Folding, AfterFold
<1>15. CASE EndModify
  <2>1. UNCHANGED <<disk, server, store, saved, mark, rec, typed, removed, blind, doc>>
        BY <1>15 DEF EndModify, NoJob
  <2>2. job'.at = "none"
        BY <1>15 DEF EndModify, NoJob
  <2>   QED
        BY <1>15, <2>1, <2>2 DEF Folding, AfterFold
<1>16. CASE Hydrate
  <2>1. UNCHANGED <<disk, server, store, saved, mark, rec, typed, removed, blind>>
        BY <1>16 DEF Hydrate, TakeIn, TakesIn
  <2>2. doc' = doc \/ TakesIn
        BY <1>16 DEF Hydrate, TakeIn, TakesIn
  <2>3. job' = [job EXCEPT !.at = "read"]
        BY <1>16 DEF Hydrate, TakeIn, TakesIn
  <2>4. job'.at = "read"
        BY <2>3 DEF Shaped, Job
  <2>   QED
        BY <1>16, <2>1, <2>2, <2>3, <2>4 DEF Folding, AfterFold
<1>17. CASE ReadDisk
  <2>1. UNCHANGED <<disk, server, store, saved, mark, rec, typed, removed, blind, doc>>
        BY <1>17 DEF ReadDisk
  <2>   QED
        BY <1>17, <2>1
<1>18. CASE BeginSnapshot
  <2>1. UNCHANGED <<disk, server, store, saved, mark, rec, typed, removed, blind, doc>>
        BY <1>18 DEF BeginSnapshot, NoJob
  <2>2. job'.at \in {"none", "fetch"}
        BY <1>18 DEF BeginSnapshot, NoJob
  <2>   QED
        BY <1>18, <2>1, <2>2 DEF Folding, AfterFold
<1>19. CASE MarkWrite
  <2>1. UNCHANGED <<disk, server, store, saved, typed, removed, blind, doc>>
        BY <1>19 DEF MarkWrite
  <2>   QED
        BY <1>19, <2>1
<1>20. CASE LookAgain
  <2>1. UNCHANGED <<disk, server, store, saved, typed, removed, blind, doc>>
        BY <1>20 DEF LookAgain, MarkFolded, SetFolded
  <2>2. mark' \in {mark, NoText}
        BY <1>20 DEF LookAgain, MarkFolded, SetFolded
  <2>   QED
        BY <1>20, <2>1, <2>2
<1>21. CASE WriteDisk
  <2>1. UNCHANGED <<server, store, saved, mark, rec, typed, removed, blind, doc>>
        BY <1>21 DEF WriteDisk
  <2>   QED
        BY <1>21, <2>1
<1>22. CASE EndSnapshot
  <2>1. UNCHANGED <<disk, server, store, saved, typed, removed, blind, doc>>
        BY <1>22 DEF EndSnapshot, NoJob
  <2>2. job'.at = "none"
        BY <1>22 DEF EndSnapshot, NoJob
  <2>   QED
        BY <1>22, <2>1, <2>2 DEF Folding, AfterFold
<1>23. CASE CatchupLook
  <2>1. UNCHANGED <<disk, server, store, saved, mark, rec, job, typed, removed, blind, doc>>
        BY <1>23 DEF CatchupLook
  <2>   QED
        BY <1>23, <2>1
<1>24. CASE CatchupSkips
  <2>1. UNCHANGED <<disk, server, store, saved, job, typed, removed, blind, doc>>
        BY <1>24 DEF CatchupSkips, SetFolded
  <2>2. mark' \in {mark, NoText}
        BY <1>24 DEF CatchupSkips, SetFolded
  <2>   QED
        BY <1>24, <2>1, <2>2
<1>25. CASE CatchupOpens
  <2>1. UNCHANGED <<disk, server, store, saved, rec, typed, removed, blind, doc>>
        BY <1>25 DEF CatchupOpens, Open, NoJob
  <2>2. mark' = mark \/ (mark' = store.mark /\ ~open)
        BY <1>25 DEF CatchupOpens, Open, NoJob
  <2>3. job'.at = "read"
        BY <1>25 DEF CatchupOpens, Open, NoJob
  <2>   QED
        BY <1>25, <2>1, <2>2, <2>3 DEF Folding, AfterFold
<1>26. CASE NoteAgreement
  <2>1. UNCHANGED <<disk, server, store, saved, typed, removed, blind, doc>>
        BY <1>26 DEF NoteAgreement, MarkFolded, SetFolded, NoJob
  <2>2. mark' \in {mark, NoText}
        BY <1>26 DEF NoteAgreement, MarkFolded, SetFolded, NoJob
  <2>3. job'.at = "none"
        BY <1>26 DEF NoteAgreement, MarkFolded, SetFolded, NoJob
  <2>   QED
        BY <1>26, <2>1, <2>2, <2>3 DEF Folding, AfterFold
<1>27. CASE CatchupApplies
  <2>1. UNCHANGED <<disk, server, store, saved, mark, rec, job, typed, removed, blind>>
        BY <1>27 DEF CatchupApplies, TakeIn, TakesIn
  <2>2. TakesIn
        BY <1>27 DEF CatchupApplies, TakeIn, TakesIn
  <2>   QED
        BY <1>27, <2>1, <2>2
<1>28. CASE TheirEditComes
  <2>1. UNCHANGED <<disk, server, store, saved, rec, job, typed, removed, blind>>
        BY <1>28 DEF TheirEditComes, TakeIn, TakesIn, Open
  <2>2. TakesIn
        BY <1>28 DEF TheirEditComes, TakeIn, TakesIn, Open
  <2>3. mark' = mark \/ (mark' = store.mark /\ ~open)
        BY <1>28 DEF TheirEditComes, TakeIn, TakesIn, Open
  <2>   QED
        BY <1>28, <2>1, <2>2, <2>3
<1>29. CASE CheckFirst
  <2>1. UNCHANGED <<disk, server, store, saved, rec, job, typed, removed, blind>>
        BY <1>29 DEF CheckFirst, TakeIn, TakesIn, Open
  <2>2. TakesIn
        BY <1>29 DEF CheckFirst, TakeIn, TakesIn, Open
  <2>3. mark' = mark \/ (mark' = store.mark /\ ~open)
        BY <1>29 DEF CheckFirst, TakeIn, TakesIn, Open
  <2>   QED
        BY <1>29, <2>1, <2>2, <2>3
<1>   QED
      BY <1>1, <1>2, <1>3, <1>4, <1>5, <1>6, <1>7, <1>8, <1>9, <1>10, <1>11, <1>12, <1>13,
         <1>14, <1>15, <1>16, <1>17, <1>18, <1>19, <1>20, <1>21, <1>22, <1>23, <1>24, <1>25,
         <1>26, <1>27, <1>28, <1>29 DEF NoteNext, Device

\* What some document has had it has for good, and so for what is safe.
LEMMA Grows ==
    ASSUME Shaped, Docs, MarksHeld, NoteNext
    PROVE  /\ server.ins \subseteq server'.ins
           /\ store.doc.ins \subseteq store'.doc.ins
           /\ NoteCrash \/ doc.ins \subseteq doc'.ins
           /\ TakesIn => \A o \in doc'.ins : o \in doc.ins \/ o \in server.ins
<1>   USE DEF noteFiles, noteMem, noteNet, noteHist
<1>1. /\ doc \in Doc /\ server \in Doc /\ up \in Doc /\ down \in Doc
      /\ store.doc \in Doc /\ catchup.batch \in Doc
      BY DocTexts DEF Shaped, NoteTypeOK
<1>2. server.ins \subseteq server'.ins
  <2>1. CASE TheirEdit
        BY <2>1 DEF TheirEdit, Merged
  <2>2. CASE ServerTakes
        BY <2>2 DEF ServerTakes, Merged
  <2>   QED
        BY <2>1, <2>2, Touches
<1>3. store.doc.ins \subseteq store'.doc.ins
  <2>1. CASE StoreTakes
    <3>1. \/ store'.doc = doc \/ store'.doc = store.doc
          \/ store'.doc = Merged(store.doc, mark.state)
          BY <2>1 DEF StoreTakes, Shaped
    <3>   QED
          BY <3>1 DEF Docs, Merged
  <2>   QED
        BY <2>1, Touches
<1>4. TakesIn => /\ doc.ins \subseteq doc'.ins
                 /\ \A o \in doc'.ins : o \in doc.ins \/ o \in server.ins
  <2>1. ASSUME NEW d \in {server, catchup.batch, down}, doc' = Merged(doc, d)
        PROVE  /\ doc.ins \subseteq doc'.ins
               /\ \A o \in doc'.ins : o \in doc.ins \/ o \in server.ins
        BY <2>1 DEF Merged, Docs, Within
  <2>   QED
        BY <2>1 DEF TakesIn
<1>5. NoteCrash \/ doc.ins \subseteq doc'.ins
  <2>1. CASE FoldIn
        BY <2>1, FoldInFacts, SetTextsFacts
  <2>   QED
        BY <1>4, <2>1, Touches
<1>   QED
      BY <1>2, <1>3, <1>4, <1>5

\* A line known, and a line safe, stays so as long as the plugin runs; a line safe stays so.
LEMMA StaysKnown ==
    ASSUME Shaped, Docs, MarksHeld, NoteNext
    PROVE  /\ \A l : Durable(l) => Durable(l)'
           /\ NoteCrash \/ Grown
BY Grows DEF Durable, Held, In, Grown

-----------------------------------------------------------------------------
(***************************************************************************)
(* Each part of the invariant, kept.                                       *)
(***************************************************************************)
\* A line newly typed: it is on disk, and nowhere else.
LEMMA TypedFacts ==
    ASSUME NInv, NEW l \in Line, Type(l)
    PROVE  /\ l \in Mine \ typed /\ typed' = typed \cup {l}
           /\ disk' = [disk EXCEPT ![l] = 1]
           /\ Kept' \subseteq Kept \cup {l} /\ (job.at = "write" => l \notin Kept')
           /\ ~Held(l) /\ (job.at \in Folding \cup AfterFold => job.read[l] = 0)
           /\ UNCHANGED <<doc, store, server, saved, rec, mark, job>>
<1>1. /\ l \in Mine \ typed /\ typed' = typed \cup {l} /\ removed' = removed
      /\ blind' = IF job.at = "write" THEN blind \cup {l} ELSE blind
      /\ disk' = [disk EXCEPT ![l] = 1]
      /\ UNCHANGED <<doc, store, server, saved, rec, mark, job>>
      BY DEF Type, Save, noteNet
<1>2. ~Held(l) /\ (job.at \in Folding \cup AfterFold => job.read[l] = 0)
      BY <1>1 DEF NInv, Untyped
<1>3. Kept' \subseteq Kept \cup {l} /\ (job.at = "write" => l \notin Kept')
      BY <1>1 DEF Kept
<1>   QED
      BY <1>1, <1>2, <1>3

\* A line kept is kept since before, or newly typed.
LEMMA KeptChanges ==
    ASSUME NInv, NoteNext, NEW l \in Kept'
    PROVE  /\ l \in Line
           /\ \/ l \in Kept
              \/ /\ disk'[l] = 1 /\ ~In(l, doc) /\ job.at # "write"
                 /\ job.at \in Folding \cup AfterFold => job.read[l] = 0
                 /\ UNCHANGED <<doc, store, server, job>>
<1>1. l \in typed' /\ l \notin removed' /\ l \notin blind'
      BY DEF Kept
<1>2. CASE UNCHANGED <<typed, removed, blind>>
      BY <1>1, <1>2 DEF Kept, NInv, Shaped, Line
<1>3. CASE \E k \in Line : Erase(k)
  <2>1. typed' = typed /\ removed \subseteq removed' /\ blind' = blind
        BY <1>3 DEF Erase
  <2>   QED
        BY <1>1, <2>1 DEF Kept, NInv, Shaped, Line
<1>4. CASE \E k \in Line : Type(k)
  <2>1. PICK k \in Line : Type(k)
        BY <1>4
  <2>2. disk \in [Line -> Nat]
        BY DEF NInv, Shaped, NoteTypeOK, Text
  <2>   QED
        BY <2>1, <2>2, TypedFacts DEF Kept, NInv, Shaped, Line, Held
<1>   QED
      BY <1>2, <1>3, <1>4, Touches DEF NInv

\* What a mark tells of stays in its document, and goes to the store after it.
LEMMA MarksKept ==
    ASSUME NInv, NoteNext
    PROVE  MarksHeld'
<1>1. /\ server.ins \subseteq server'.ins /\ store.doc.ins \subseteq store'.doc.ins
      /\ NoteCrash \/ doc.ins \subseteq doc'.ins
      BY Grows DEF NInv
<1>2. MarkOf(mark, doc, server) /\ MarkOf(store.mark, store.doc, server)
      BY DEF NInv, MarksHeld
<1>3. store'.mark \in {store.mark, mark} /\ MarkOf(store'.mark, store'.doc, server')
  <2>1. CASE store' = store
        BY <1>1, <1>2, <2>1 DEF MarkOf, In
  <2>2. CASE StoreTakes
    <3>1. CASE store'.mark = store.mark
          BY <1>1, <1>2, <3>1 DEF MarkOf, In
    <3>2. CASE store'.mark # store.mark
      <4>1. /\ store' = [store EXCEPT !.mark = mark]
            /\ mark = NoText \/ Merged(mark.state, store.doc) = store.doc
            BY <2>2, <3>2 DEF StoreTakes, NInv, Shaped
      <4>2. store'.mark = mark /\ store'.doc = store.doc
            BY <4>1 DEF NInv, Shaped
      <4>3. mark # NoText => mark.state.ins \subseteq store.doc.ins
            BY <4>1 DEF Merged
      <4>   QED
            BY <1>1, <1>2, <4>2, <4>3 DEF MarkOf, In
    <3>   QED
          BY <3>1, <3>2, <2>2 DEF StoreTakes, NInv, Shaped
  <2>   QED
        BY <2>1, <2>2, Touches DEF NInv
<1>4. MarkOf(mark', doc', server')
  <2>1. CASE NoteCrash
        BY <2>1 DEF NoteCrash, MarkOf
  <2>2. CASE mark' \in {mark, NoText} /\ ~NoteCrash
        BY <1>1, <1>2, <2>2 DEF MarkOf, In
  <2>3. CASE mark' = store.mark /\ ~open /\ ~NoteCrash
    <3>1. doc = store.doc
          BY <2>3 DEF NInv, Shaped
    <3>   QED
          BY <1>1, <1>2, <2>3, <3>1 DEF MarkOf, In
  <2>4. CASE MarkWrite
    <3>1. CASE job.read = TextOf(doc)
      <4>1. mark' \in {mark, NoText} /\ doc' = doc
            BY <2>4, <3>1 DEF MarkWrite, SetFolded
      <4>   QED
            BY <1>1, <1>2, <4>1 DEF MarkOf, In
    <3>2. CASE job.read # TextOf(doc)
      <4>1. mark'.text = TextOf(doc) /\ mark'.state = doc /\ doc' = doc
            BY <2>4, <3>2 DEF MarkWrite
      <4>2. \A l \in Line : TextOf(doc)[l] > 0 => In(l, doc)
            BY DocTexts DEF NInv, Alive, In
      <4>3. Whole(doc)
            BY DEF NInv, Docs
      <4>   QED
            BY <1>1, <4>1, <4>2, <4>3 DEF MarkOf, Whole, In
    <3>   QED
          BY <3>1, <3>2
  <2>5. CASE EndSnapshot
    <3>1. (mark' = [mark EXCEPT !.here = TRUE] /\ mark # NoText) \/ mark' = NoText
          BY <2>5 DEF EndSnapshot
    <3>2. mark # NoText => mark \in Marks
          BY DEF NInv, Shaped, NoteTypeOK
    <3>3. mark' = NoText \/ (mark # NoText /\ mark'.state = mark.state /\ mark'.text = mark.text)
          BY <3>1, <3>2 DEF Marks
    <3>4. doc' = doc
          BY <2>5 DEF EndSnapshot
    <3>   QED
          BY <1>1, <1>2, <3>3, <3>4 DEF MarkOf, In
  <2>   QED
        BY <2>1, <2>2, <2>3, <2>4, <2>5, Touches DEF NInv
<1>   QED
      BY <1>3, <1>4 DEF MarksHeld

\* A fold leaves every line it read in a document.
LEMMA FoldInHeld ==
    ASSUME NInv, NoteNext, FoldIn
    PROVE  \A l \in Line : job.read[l] > 0 => Held(l)'
<1>1. PICK t \in Text :
         /\ doc' \in SetTexts(t)
         /\ \/ job.at = "blindMerge" /\ t = job.read
            \/ job.at = "merge" /\ t = Merge3(job.text, job.read, TextOf(doc))
      BY FoldInFacts DEF NInv
<1>2. \A l \in Line : t[l] > 0 => Alive(l, doc')
      BY <1>1, SetTextsFacts DEF NInv
<1>3. Grown
  <2>1. doc.ins \subseteq doc'.ins
        BY <1>1, SetTextsFacts DEF NInv
  <2>   QED
        BY <2>1, Grows DEF NInv, Durable, Held, In, Grown
<1>4. ASSUME NEW l \in Line, job.read[l] > 0
      PROVE  Held(l)'
  <2>1. CASE t[l] > 0
        BY <1>2, <2>1 DEF Held, In, Alive
  <2>2. CASE ~(t[l] > 0)
    <3>1. job.at = "merge" /\ t = Merge3(job.text, job.read, TextOf(doc))
          BY <1>1, <1>4, <2>2
    <3>2. job.text \in Text /\ job.read \in Text /\ TextOf(doc) \in Text
          BY <3>1, DocTexts DEF NInv, Shaped, Folding
    <3>3. job.text[l] > 0
          BY <1>4, <2>2, <3>1, <3>2, Merge3Facts
    <3>4. Held(l)
          BY <3>1, <3>3 DEF NInv, Folded
    <3>   QED
          BY <1>3, <3>4 DEF Grown
  <2>   QED
        BY <2>1, <2>2
<1>   QED
      BY <1>4

\* The text a fold starts from, and the one it takes the disk for unchanged against.
LEMMA MarkerHeld ==
    ASSUME NInv
    PROVE  /\ Marker(job.read) # NoText =>
                \A l \in Line : Marker(job.read)[l] > 0 => Held(l)
           /\ LostWrite(job.read) => Marker(job.read) # NoText
<1>1. CASE LostWrite(job.read)
  <2>1. mark # NoText /\ Marker(job.read) = mark.text
        BY <1>1 DEF LostWrite, Marker
  <2>2. \A l \in Line : mark.text[l] > 0 => In(l, mark.state) /\ mark.state.ins \subseteq doc.ins
        BY <2>1 DEF NInv, MarksHeld, MarkOf
  <2>3. mark.text # NoText
        BY <2>1, NoteAssumption DEF NInv, Shaped, NoteTypeOK, Marks
  <2>   QED
        BY <2>1, <2>2, <2>3 DEF Held, In
<1>2. CASE ~LostWrite(job.read)
      BY <1>2 DEF Marker, NInv, Records
<1>   QED
      BY <1>1, <1>2

\* What the disk is when nothing on it is new.
LEMMA UnchangedHeld ==
    ASSUME NInv,
           job.read = IF Marker(job.read) = NoText THEN rec.content ELSE Marker(job.read)
    PROVE  \A l \in Line : job.read[l] > 0 => Held(l)
<1>1. CASE Marker(job.read) = NoText
      BY <1>1 DEF NInv, Records
<1>2. CASE Marker(job.read) # NoText
      BY <1>2, MarkerHeld
<1>   QED
      BY <1>1, <1>2

\* The records are of texts that documents have had.
LEMMA RecordsKept ==
    ASSUME NInv, NoteNext, Docs'
    PROVE  Records'
<1>1. (\A l : Durable(l) => Durable(l)') /\ (NoteCrash \/ \A l : Held(l) => Held(l)')
      BY StaysKnown DEF NInv, Grown
<1>2. \A l \in Line : /\ rec.folded # NoText /\ rec.folded[l] > 0 => Held(l)
                      /\ rec.content[l] > 0 => Held(l)
                      /\ saved.folded # NoText /\ saved.folded[l] > 0 => Durable(l)
                      /\ saved.content[l] > 0 => Durable(l)
      BY DEF NInv, Records
<1>3. \A l \in Line : TextOf(doc)[l] > 0 => Held(l)
      BY DocTexts DEF NInv, Held, Alive, In
<1>4. \A l \in Line : /\ saved'.folded # NoText /\ saved'.folded[l] > 0 => Durable(l)'
                      /\ saved'.content[l] > 0 => Durable(l)'
  <2>1. CASE saved' = saved
        BY <1>1, <1>2, <2>1
  <2>2. CASE RecordSaved
    <3>1. saved' = rec /\ store.doc = doc
          BY <2>2 DEF RecordSaved, NInv, Shaped
    <3>2. \A l : Held(l) => Durable(l)
          BY <3>1 DEF Held, Durable
    <3>   QED
          BY <1>1, <1>2, <3>1, <3>2
  <2>   QED
        BY <2>1, <2>2, Touches DEF NInv
<1>5. \A l \in Line : /\ rec'.folded # NoText /\ rec'.folded[l] > 0 => Held(l)'
                      /\ rec'.content[l] > 0 => Held(l)'
  <2>1. CASE NoteCrash
    <3>1. rec' = saved
          BY <2>1 DEF NoteCrash
    <3>2. \A l : Durable(l)' => Held(l)'
          BY DEF Docs, Durable, Held, In
    <3>   QED
          BY <1>1, <1>2, <3>1, <3>2
  <2>2. CASE rec' = rec /\ ~NoteCrash
        BY <1>1, <1>2, <2>2
  <2>3. CASE Fold /\ ~NoteCrash
    <3>1. rec' = rec \/ (rec'.folded = TextOf(doc) /\ rec'.content = rec.content)
          BY <2>3 DEF Fold, MarkFolded, SetFolded
    <3>   QED
          BY <1>1, <1>2, <1>3, <2>3, <3>1
  <2>4. CASE FindBase /\ ~NoteCrash
    <3>1. \/ rec' = rec
          \/ /\ rec'.folded = job.read /\ rec'.content = rec.content
             /\ job.read = IF Marker(job.read) = NoText THEN rec.content ELSE Marker(job.read)
          BY <2>4 DEF FindBase, MarkFolded, SetFolded
    <3>   QED
          BY <1>1, <1>2, <2>4, <3>1, UnchangedHeld
  <2>5. CASE FoldIn /\ ~NoteCrash
    <3>1. rec'.folded = job.read /\ rec'.content = rec.content
          BY <2>5 DEF FoldIn, MarkFolded, SetFolded
    <3>   QED
          BY <1>1, <1>2, <2>5, <3>1, FoldInHeld
  <2>6. CASE MarkWrite /\ ~NoteCrash
    <3>1. rec' = rec \/ (rec'.folded = TextOf(doc) /\ rec'.content = TextOf(doc))
          BY <2>6 DEF MarkWrite, SetFolded
    <3>   QED
          BY <1>1, <1>2, <1>3, <2>6, <3>1
  <2>7. CASE LookAgain /\ ~NoteCrash
    <3>1. job.at = "look"
          BY <2>7 DEF LookAgain
    <3>2. \A l \in Line : (job.text[l] > 0 \/ job.read[l] > 0) => Held(l)
          BY <3>1 DEF NInv, Folded, AfterFold
    <3>3. /\ rec'.folded \in {rec.folded, job.read} /\ rec'.content \in {rec.content, job.text}
      <4>1. \/ rec' = rec \/ rec' = [rec EXCEPT !.content = job.text]
            \/ rec' = [folded |-> job.read, content |-> rec.content]
            BY <2>7 DEF LookAgain, MarkFolded, SetFolded
      <4>   QED
            BY <4>1 DEF NInv, Shaped, NoteTypeOK
    <3>   QED
          BY <1>1, <1>2, <2>7, <3>2, <3>3
  <2>8. CASE EndSnapshot /\ ~NoteCrash
    <3>1. job.at = "wrote" /\ rec' = [rec EXCEPT !.folded = job.text]
          BY <2>8 DEF EndSnapshot
    <3>2. rec'.folded = job.text /\ rec'.content = rec.content
          BY <3>1 DEF NInv, Shaped, NoteTypeOK
    <3>3. \A l \in Line : job.text[l] > 0 => Held(l)
          BY <3>1 DEF NInv, Folded
    <3>   QED
          BY <1>1, <1>2, <2>8, <3>2, <3>3
  <2>9. CASE CatchupSkips /\ ~NoteCrash
    <3>1. \/ rec' = rec
          \/ rec'.folded = TextOf(catchup.batch) /\ rec'.content = rec.content
          BY <2>9 DEF CatchupSkips, SetFolded
    <3>2. \A l \in Line : TextOf(catchup.batch)[l] > 0 => Held(l)
          BY DocTexts DEF NInv, Held
    <3>   QED
          BY <1>1, <1>2, <2>9, <3>1, <3>2
  <2>10. CASE NoteAgreement /\ ~NoteCrash
    <3>1. rec' = rec \/ (rec'.folded = TextOf(doc) /\ rec'.content = rec.content)
          BY <2>10 DEF NoteAgreement, MarkFolded, SetFolded
    <3>   QED
          BY <1>1, <1>2, <1>3, <2>10, <3>1
  <2>   QED
        BY <2>1, <2>2, <2>3, <2>4, <2>5, <2>6, <2>7, <2>8, <2>9, <2>10, Touches DEF NInv
<1>   QED
      BY <1>4, <1>5 DEF Records

\* The texts of a handler are of lines that documents have had.
LEMMA FoldedKept ==
    ASSUME NInv, NoteNext
    PROVE  Folded'
<1>   USE DEF Folding, AfterFold
<1>1. NoteCrash \/ \A l : Held(l) => Held(l)'
      BY StaysKnown DEF NInv, Grown
<1>2. \A l \in Line :
         /\ job.at \in {"merge", "look", "write", "wrote"} /\ job.text[l] > 0 => Held(l)
         /\ job.at \in AfterFold /\ job.read[l] > 0 => Held(l)
      BY DEF NInv, Folded
<1>3. \A l \in Line : TextOf(doc)[l] > 0 => Held(l)
      BY DocTexts DEF NInv, Held, Alive, In
<1>4. NoJob.at = "none" /\ (NoteCrash => job'.at = "none")
      BY DEF NoteCrash, NoJob
<1>5. CASE job' = job \/ job'.at \notin Folding \cup AfterFold
      BY <1>1, <1>2, <1>4, <1>5 DEF Folded
<1>6. job \in Job
      BY DEF NInv, Shaped
<1>7. CASE ReadDisk
  <2>1. job'.at = "fold"
        BY <1>6, <1>7 DEF ReadDisk, Job
  <2>   QED
        BY <2>1 DEF Folded
<1>8. CASE Fold
  <2>1. \/ job'.at = "hash"
        \/ (job'.at = "folded" /\ job'.read = TextOf(doc))
        BY <1>6, <1>8 DEF Fold, Job
  <2>   QED
        BY <1>1, <1>3, <1>4, <2>1 DEF Folded
<1>9. CASE FindBase
  <2>1. \/ /\ job'.at = "folded" /\ job'.read = job.read
           /\ job.read = IF Marker(job.read) = NoText THEN rec.content ELSE Marker(job.read)
        \/ /\ job'.at = "merge" /\ job'.text = Marker(job.read) /\ Marker(job.read) # NoText
        \/ job'.at = "blindMerge"
        BY <1>6, <1>9 DEF FindBase, Job
  <2>   QED
        BY <1>1, <1>4, <2>1, MarkerHeld, UnchangedHeld DEF Folded
<1>10. CASE FoldIn
  <2>1. job'.at = "folded" /\ job'.read = job.read
        BY <1>6, <1>10 DEF FoldIn, Job
  <2>   QED
        BY <1>10, <2>1, FoldInHeld DEF Folded
<1>11. CASE MarkWrite
  <2>1. \/ job' = NoJob
        \/ job.at = "folded" /\ job' = [job EXCEPT !.at = "look", !.text = TextOf(doc)]
        BY <1>11 DEF MarkWrite
  <2>2. \/ job'.at = "none"
        \/ /\ job.at = "folded" /\ job'.at = "look" /\ job'.read = job.read
           /\ job'.text = TextOf(doc)
        BY <1>4, <1>6, <2>1 DEF Job
  <2>   QED
        BY <1>1, <1>2, <1>3, <1>4, <2>2 DEF Folded
<1>12. CASE LookAgain
  <2>1. \/ job' = NoJob
        \/ job.at = "look" /\ job' = [job EXCEPT !.at = "write"]
        \/ job' = [job EXCEPT !.at = "fold", !.read = disk, !.text = NoText, !.tries = @ + 1]
        BY <1>12 DEF LookAgain
  <2>2. \/ job'.at \in {"none", "fold"}
        \/ /\ job.at = "look" /\ job'.at = "write" /\ job'.read = job.read
           /\ job'.text = job.text
        BY <1>4, <1>6, <2>1 DEF Job
  <2>   QED
        BY <1>1, <1>2, <1>4, <2>2 DEF Folded
<1>13. CASE WriteDisk
  <2>1. /\ job.at = "write" /\ job'.at = "wrote" /\ job'.read = job.read /\ job'.text = job.text
        BY <1>6, <1>13 DEF WriteDisk, Job
  <2>   QED
        BY <1>1, <1>2, <1>4, <2>1 DEF Folded
<1>   QED
      BY <1>5, <1>7, <1>8, <1>9, <1>10, <1>11, <1>12, <1>13, Touches DEF NInv

\* A line that a handler did not find on disk is not in the document, or is safe.
LEMMA MissedKept ==
    ASSUME NInv, NoteNext
    PROVE  Missed'
<1>   USE DEF Folding, AfterFold
<1>1. \A l : Durable(l) => Durable(l)'
      BY StaysKnown DEF NInv
<1>2. /\ job.at \in Folding => \A l \in Kept : job.read[l] = 0 => ~In(l, doc) \/ Durable(l)
      /\ \A l \in Kept : disk[l] > 0 \/ Durable(l)
      BY DEF NInv, Missed, Standing
<1>3. job \in Job /\ disk \in Text
      BY DEF NInv, Shaped, NoteTypeOK
<1>4. SUFFICES ASSUME job'.at \in Folding, NEW l \in Kept', job'.read[l] = 0
               PROVE  ~In(l, doc') \/ Durable(l)'
      BY DEF Missed
<1>5. /\ l \in Line
      /\ l \in Kept \/ (disk'[l] = 1 /\ ~In(l, doc) /\ UNCHANGED <<doc, server, job>>)
      BY KeptChanges
<1>6. CASE l \notin Kept
      BY <1>5, <1>6
<1>7. CASE l \in Kept /\ ReadDisk
  <2>1. job'.read = disk
        BY <1>3, <1>7 DEF ReadDisk, Job
  <2>   QED
        BY <1>1, <1>2, <1>4, <1>7, <2>1
<1>8. CASE l \in Kept /\ LookAgain
  <2>1. \/ job' = NoJob
        \/ job' = [job EXCEPT !.at = "write"]
        \/ job' = [job EXCEPT !.at = "fold", !.read = disk, !.text = NoText, !.tries = @ + 1]
        BY <1>8 DEF LookAgain
  <2>2. NoJob.at = "none"
        BY DEF NoJob
  <2>3. job'.read = disk
        BY <1>3, <1>4, <2>1, <2>2 DEF Job
  <2>   QED
        BY <1>1, <1>2, <1>4, <1>8, <2>3 DEF Text
<1>9. CASE l \in Kept /\ doc' = doc /\ job.at \in Folding /\ job'.read = job.read
      BY <1>1, <1>2, <1>4, <1>9
<1>10. CASE l \in Kept /\ TakesIn /\ job.at \in Folding /\ job'.read = job.read
  <2>1. \A o \in doc'.ins : o \in doc.ins \/ o \in server.ins
        BY <1>10, Grows DEF NInv
  <2>2. In(l, doc') => In(l, doc) \/ Durable(l)
        BY <2>1 DEF In, Durable
  <2>   QED
        BY <1>1, <1>2, <1>4, <1>10, <2>2
<1>11. job'.at \notin Folding \/ ReadDisk \/ LookAgain
       \/ (job.at \in Folding /\ job'.read = job.read)
  <2>1. CASE Fold
        BY <1>3, <2>1 DEF Fold, Job
  <2>2. CASE FindBase
        BY <1>3, <2>2 DEF FindBase, Job
  <2>3. CASE FoldIn
        BY <1>3, <2>3 DEF FoldIn, Job
  <2>4. CASE MarkWrite
    <3>1. job' = NoJob \/ job' = [job EXCEPT !.at = "look", !.text = TextOf(doc)]
          BY <2>4 DEF MarkWrite
    <3>2. NoJob.at = "none"
          BY DEF NoJob
    <3>   QED
          BY <1>3, <3>1, <3>2 DEF Job
  <2>5. CASE WriteDisk
        BY <1>3, <2>5 DEF WriteDisk, Job
  <2>   QED
        BY <2>1, <2>2, <2>3, <2>4, <2>5, Touches DEF NInv
<1>12. job'.at \notin Folding \/ doc' = doc \/ TakesIn
  <2>1. CASE FoldIn
        BY <1>3, <2>1 DEF FoldIn, Job
  <2>2. CASE NoteCrash
        BY <2>2 DEF NoteCrash, NoJob
  <2>   QED
        BY <2>1, <2>2, Touches DEF NInv
<1>   QED
      BY <1>4, <1>6, <1>7, <1>8, <1>9, <1>10, <1>11, <1>12

\* A line that a snapshot leaves out is safe.
LEMMA DroppedKept ==
    ASSUME NInv, NoteNext
    PROVE  Dropped'
<1>   USE DEF Folding, AfterFold
<1>1. \A l : Durable(l) => Durable(l)'
      BY StaysKnown DEF NInv
<1>2. \A l \in Kept :
         /\ job.at = "look" /\ job.text[l] = 0 /\ job.read[l] > 0 => Durable(l)
         /\ job.at = "write" /\ job.text[l] = 0 => Durable(l)
         /\ In(l, doc) => Alive(l, doc) \/ Durable(l)
         /\ disk[l] > 0 \/ Durable(l)
      BY DEF NInv, Dropped, Deleted, Standing
<1>3. job \in Job
      BY DEF NInv, Shaped
<1>4. SUFFICES ASSUME NEW l \in Kept'
               PROVE  /\ job'.at = "look" /\ job'.text[l] = 0 /\ job'.read[l] > 0 => Durable(l)'
                      /\ job'.at = "write" /\ job'.text[l] = 0 => Durable(l)'
      BY DEF Dropped
<1>5. /\ l \in Line
      /\ l \in Kept \/ /\ job.at # "write" /\ job' = job
                       /\ job.at \in Folding \cup AfterFold => job.read[l] = 0
      BY KeptChanges
<1>6. CASE l \notin Kept
      BY <1>5, <1>6
<1>7. CASE job' = job \/ job'.at \notin {"look", "write"}
      BY <1>1, <1>2, <1>5, <1>7
<1>8. CASE l \in Kept /\ MarkWrite
  <2>1. \/ job' = NoJob
        \/ job.at = "folded" /\ job' = [job EXCEPT !.at = "look", !.text = TextOf(doc)]
        BY <1>8 DEF MarkWrite
  <2>2. NoJob.at = "none"
        BY DEF NoJob
  <2>3. \/ job'.at = "none"
        \/ /\ job.at = "folded" /\ job'.at = "look" /\ job'.read = job.read
           /\ job'.text = TextOf(doc)
        BY <1>3, <2>1, <2>2 DEF Job
  <2>4. job.at = "folded" /\ job.read[l] > 0 => In(l, doc) \/ Durable(l)
        BY <1>5 DEF NInv, Folded, Held, Durable
  <2>5. TextOf(doc)[l] = 0 => ~Alive(l, doc)
        BY <1>5, DocTexts DEF NInv
  <2>   QED
        BY <1>1, <1>2, <1>8, <2>3, <2>4, <2>5
<1>9. CASE l \in Kept /\ LookAgain
  <2>1. \/ job' = NoJob
        \/ /\ job.at = "look" /\ disk = job.read /\ job' = [job EXCEPT !.at = "write"]
        \/ job' = [job EXCEPT !.at = "fold", !.read = disk, !.text = NoText, !.tries = @ + 1]
        BY <1>9 DEF LookAgain
  <2>2. NoJob.at = "none"
        BY DEF NoJob
  <2>3. \/ job'.at \in {"none", "fold"}
        \/ job.at = "look" /\ job'.at = "write" /\ disk = job.read /\ job'.text = job.text
        BY <1>3, <2>1, <2>2 DEF Job
  <2>   QED
        BY <1>1, <1>2, <1>9, <2>3
<1>10. job' = job \/ job'.at \notin {"look", "write"} \/ MarkWrite \/ LookAgain
  <2>1. CASE ReadDisk
        BY <1>3, <2>1 DEF ReadDisk, Job
  <2>2. CASE Fold
        BY <1>3, <2>2 DEF Fold, Job
  <2>3. CASE FindBase
        BY <1>3, <2>3 DEF FindBase, Job
  <2>4. CASE FoldIn
        BY <1>3, <2>4 DEF FoldIn, Job
  <2>5. CASE WriteDisk
        BY <1>3, <2>5 DEF WriteDisk, Job
  <2>   QED
        BY <2>1, <2>2, <2>3, <2>4, <2>5, Touches DEF NInv
<1>   QED
      BY <1>6, <1>7, <1>8, <1>9, <1>10

\* A line deleted from the document is safe: the server has what it deletes, and a fold
\* deletes only what the handler found on disk or in the base.
LEMMA DeletedKept ==
    ASSUME NInv, NoteNext
    PROVE  Deleted'
<1>1. \A l : Durable(l) => Durable(l)'
      BY StaysKnown DEF NInv
<1>2. \A l \in Kept : In(l, doc) => Alive(l, doc) \/ Durable(l)
      BY DEF NInv, Deleted
<1>3. SUFFICES ASSUME NEW l \in Kept', In(l, doc')
               PROVE  Alive(l, doc') \/ Durable(l)'
      BY DEF Deleted
<1>4. l \in Line /\ (l \in Kept \/ (~In(l, doc) /\ doc' = doc))
      BY KeptChanges
<1>5. CASE doc' = doc
      BY <1>1, <1>2, <1>3, <1>4, <1>5
<1>6. CASE l \in Kept /\ NoteCrash
      BY <1>1, <1>3, <1>6 DEF NoteCrash, Durable
<1>7. CASE l \in Kept /\ TakesIn
  <2>1. In(l, doc) \/ Durable(l)
        BY <1>3, <1>7, Grows DEF NInv, In, Durable
  <2>2. \A o \in doc'.del : o \in doc.del \/ o \in server.ins
        BY <1>7 DEF TakesIn, Merged, NInv, Docs, Whole, Within
  <2>3. doc.ins \subseteq doc'.ins
        BY <1>7 DEF TakesIn, Merged
  <2>4. Alive(l, doc) => Alive(l, doc') \/ Durable(l)
        BY <2>2, <2>3 DEF Alive, Durable, In
  <2>   QED
        BY <1>1, <1>2, <1>7, <2>1, <2>4
<1>8. CASE l \in Kept /\ FoldIn
  <2>1. PICK t \in Text :
           /\ doc' \in SetTexts(t)
           /\ \/ job.at = "blindMerge" /\ t = job.read
              \/ job.at = "merge" /\ t = Merge3(job.text, job.read, TextOf(doc))
        BY <1>8, FoldInFacts DEF NInv
  <2>2. (t[l] > 0 => Alive(l, doc')) /\ (In(l, doc) \/ t[l] > 0)
        BY <1>3, <1>4, <2>1, SetTextsFacts DEF NInv
  <2>3. job.read \in Text /\ TextOf(doc) \in Text /\ (job.at = "merge" => job.text \in Text)
        BY <2>1, DocTexts DEF NInv, Shaped, Folding
  <2>4. CASE job.read[l] = 0
    <3>1. job.at \in Folding
          BY <2>1 DEF Folding
    <3>2. ~In(l, doc) \/ Durable(l)
          BY <1>8, <2>4, <3>1 DEF NInv, Missed
    <3>   QED
          BY <1>1, <2>2, <3>2
  <2>5. CASE job.read[l] > 0
    <3>1. CASE t[l] > 0
          BY <2>2, <3>1
    <3>2. CASE ~(t[l] > 0)
      <4>1. job.at = "merge" /\ t = Merge3(job.text, job.read, TextOf(doc))
            BY <2>1, <2>5, <3>2
      <4>2. ~(TextOf(doc)[l] > 0)
            BY <1>4, <2>3, <2>5, <3>2, <4>1, Merge3Facts
      <4>3. ~Alive(l, doc)
            BY <1>4, <4>2, DocTexts DEF NInv
      <4>   QED
            BY <1>1, <1>2, <1>8, <2>2, <3>2, <4>3
    <3>   QED
          BY <3>1, <3>2
  <2>6. job.read[l] \in Nat
        BY <1>4, <2>3 DEF Text
  <2>   QED
        BY <2>4, <2>5, <2>6
<1>   QED
      BY <1>4, <1>5, <1>6, <1>7, <1>8, Touches DEF NInv

\* A line is on disk, or safe: a snapshot leaves out only what is.
LEMMA StandingKept ==
    ASSUME NInv, NoteNext
    PROVE  Standing'
<1>1. \A l : Durable(l) => Durable(l)'
      BY StaysKnown DEF NInv
<1>2. \A l \in Kept : disk[l] > 0 \/ Durable(l)
      BY DEF NInv, Standing
<1>3. SUFFICES ASSUME NEW l \in Kept'
               PROVE  disk'[l] > 0 \/ Durable(l)'
      BY DEF Standing
<1>4. l \in Line /\ (l \in Kept \/ disk'[l] = 1)
      BY KeptChanges
<1>5. disk \in Text
      BY DEF NInv, Shaped, NoteTypeOK
<1>6. CASE disk'[l] = 1
      BY <1>6
<1>7. CASE l \in Kept /\ disk' = disk
      BY <1>1, <1>2, <1>7
<1>8. CASE l \in Kept /\ WriteDisk
  <2>1. job.at = "write" /\ disk' = job.text
        BY <1>8 DEF WriteDisk
  <2>2. job.text[l] = 0 => Durable(l)
        BY <1>8, <2>1 DEF NInv, Dropped
  <2>3. job.text[l] \in Nat
        BY <1>4, <2>1 DEF NInv, Shaped, Text
  <2>   QED
        BY <1>1, <2>1, <2>2, <2>3
<1>9. CASE l \in Kept /\ \E k \in Line : Type(k)
  <2>1. PICK k \in Line : Type(k)
        BY <1>9
  <2>2. disk' = [disk EXCEPT ![k] = 1]
        BY <2>1, TypedFacts
  <2>3. disk'[l] = 1 \/ disk'[l] = disk[l]
        BY <1>4, <1>5, <2>2 DEF Text
  <2>   QED
        BY <1>1, <1>2, <1>9, <2>3
<1>10. CASE l \in Kept /\ \E k \in Line : Erase(k)
  <2>1. PICK k \in Line : Erase(k)
        BY <1>10
  <2>2. disk' = [disk EXCEPT ![k] = 0] /\ k \in removed'
        BY <2>1 DEF Erase, Save
  <2>3. k # l
        BY <1>3, <2>2 DEF Kept
  <2>4. disk'[l] = disk[l]
        BY <1>4, <1>5, <2>2, <2>3 DEF Text
  <2>   QED
        BY <1>1, <1>2, <1>10, <2>4
<1>   QED
      BY <1>4, <1>6, <1>7, <1>8, <1>9, <1>10, Touches DEF NInv

\* A line not typed yet is nowhere.
LEMMA UntypedKept ==
    ASSUME NInv, NoteNext
    PROVE  Untyped'
<1>   USE DEF Folding, AfterFold
<1>1. \A l \in Mine \ typed :
         /\ disk[l] = 0 /\ ~In(l, doc) /\ ~In(l, server)
         /\ job.at \in Folding \cup AfterFold => job.read[l] = 0
      BY DEF NInv, Untyped, Held
<1>2. job \in Job /\ disk \in Text /\ doc \in Doc /\ server \in Doc /\ up \in Doc
      BY DEF NInv, Shaped, NoteTypeOK
<1>3. SUFFICES ASSUME NEW l \in Mine \ typed'
               PROVE  /\ disk'[l] = 0 /\ ~In(l, doc') /\ ~In(l, server')
                      /\ job'.at \in Folding \cup AfterFold => job'.read[l] = 0
      BY DEF Untyped, Held
<1>4. l \in Line /\ l \in Mine \ typed
  <2>1. typed \subseteq typed'
    <3>1. CASE \E k \in Line : Type(k)
          BY <3>1 DEF Type
    <3>2. CASE \E k \in Line : Erase(k)
          BY <3>2 DEF Erase
    <3>   QED
          BY <3>1, <3>2, Touches DEF NInv
  <2>   QED
        BY <1>3, <2>1 DEF Line
<1>5. disk'[l] = 0
  <2>1. CASE WriteDisk
    <3>1. job.at = "write" /\ disk' = job.text
          BY <2>1 DEF WriteDisk
    <3>2. job.text[l] > 0 => Held(l)
          BY <1>4, <3>1 DEF NInv, Folded
    <3>3. job.text[l] \in Nat
          BY <1>4, <3>1 DEF NInv, Shaped, Text
    <3>   QED
          BY <1>1, <1>4, <3>1, <3>2, <3>3 DEF Held
  <2>2. CASE \E k \in Line : Type(k)
    <3>1. PICK k \in Line : Type(k)
          BY <2>2
    <3>2. disk' = [disk EXCEPT ![k] = 1] /\ k \in typed'
          BY <3>1, TypedFacts
    <3>   QED
          BY <1>1, <1>2, <1>3, <1>4, <3>2 DEF Text
  <2>3. CASE \E k \in Line : Erase(k)
    <3>1. PICK k \in Line : Erase(k)
          BY <2>3
    <3>2. disk' = [disk EXCEPT ![k] = 0]
          BY <3>1 DEF Erase, Save
    <3>   QED
          BY <1>1, <1>2, <1>4, <3>2 DEF Text
  <2>4. CASE disk' = disk
        BY <1>1, <1>4, <2>4
  <2>   QED
        BY <2>1, <2>2, <2>3, <2>4, Touches DEF NInv
<1>6. ~In(l, server')
  <2>1. CASE TheirEdit
    <3>1. PICK e \in Doc : server' = Merged(server, e) /\ \A o \in e.ins : o[1] \in Theirs
          BY <2>1, TheirEditFacts DEF NInv
    <3>2. l \notin Theirs
          BY <1>4, NoteAssumption
    <3>3. server'.ins = server.ins \cup e.ins
          BY <3>1 DEF Merged
    <3>   QED
          BY <1>1, <1>4, <3>1, <3>2, <3>3 DEF In
  <2>2. CASE ServerTakes
    <3>1. server'.ins \subseteq server.ins \cup doc.ins
          BY <2>2 DEF ServerTakes, Merged, NInv, Docs
    <3>   QED
          BY <1>1, <1>4, <3>1 DEF In
  <2>   QED
        BY <1>1, <1>4, <2>1, <2>2, Touches DEF NInv
<1>7. ~In(l, doc')
  <2>1. CASE FoldIn
    <3>1. PICK t \in Text :
             /\ doc' \in SetTexts(t)
             /\ \/ job.at = "blindMerge" /\ t = job.read
                \/ job.at = "merge" /\ t = Merge3(job.text, job.read, TextOf(doc))
          BY <2>1, FoldInFacts DEF NInv
    <3>2. In(l, doc') => In(l, doc) \/ t[l] > 0
          BY <1>4, <3>1, SetTextsFacts DEF NInv
    <3>3. job.read \in Text /\ TextOf(doc) \in Text /\ (job.at = "merge" => job.text \in Text)
          BY <3>1, DocTexts DEF NInv, Shaped
    <3>4. job.read[l] = 0
          BY <1>1, <1>4, <3>1
    <3>5. ~(TextOf(doc)[l] > 0)
          BY <1>1, <1>4, DocTexts DEF NInv, Alive, In
    <3>6. ~(t[l] > 0)
      <4>1. CASE job.at = "blindMerge" /\ t = job.read
            BY <3>4, <4>1
      <4>2. CASE job.at = "merge" /\ t = Merge3(job.text, job.read, TextOf(doc))
        <5>1. ~(job.read[l] > 0)
              BY <3>4
        <5>   QED
              BY <1>4, <3>3, <3>5, <4>2, <5>1, Merge3Facts
      <4>   QED
            BY <3>1, <4>1, <4>2
    <3>   QED
          BY <1>1, <1>4, <3>2, <3>6
  <2>2. CASE NoteCrash
        BY <1>1, <1>4, <2>2 DEF NoteCrash, NInv, Docs, In
  <2>3. CASE TakesIn
    <3>1. \A o \in doc'.ins : o \in doc.ins \/ o \in server.ins
          BY <2>3, Grows DEF NInv
    <3>   QED
          BY <1>1, <1>4, <3>1 DEF In
  <2>   QED
        BY <1>1, <1>4, <2>1, <2>2, <2>3, Touches DEF NInv
<1>8. job'.at \in Folding \cup AfterFold => job'.read[l] = 0
  <2>1. CASE ReadDisk
        BY <1>1, <1>2, <1>4, <2>1 DEF ReadDisk, Job
  <2>2. CASE Fold
        BY <1>1, <1>2, <1>4, <2>2 DEF Fold, Job
  <2>3. CASE FindBase
    <3>1. job'.read = job.read /\ job.at = "hash"
          BY <1>2, <2>3 DEF FindBase, Job
    <3>   QED
          BY <1>1, <1>4, <3>1
  <2>4. CASE FoldIn
        BY <1>1, <1>2, <1>4, <2>4 DEF FoldIn, Job
  <2>5. CASE MarkWrite
    <3>1. \/ job' = NoJob
          \/ job.at = "folded" /\ job' = [job EXCEPT !.at = "look", !.text = TextOf(doc)]
          BY <2>5 DEF MarkWrite
    <3>2. NoJob.at = "none"
          BY DEF NoJob
    <3>3. job'.at = "none" \/ (job.at = "folded" /\ job'.read = job.read)
          BY <1>2, <3>1, <3>2 DEF Job
    <3>   QED
          BY <1>1, <1>4, <3>3
  <2>6. CASE LookAgain
    <3>1. \/ job' = NoJob
          \/ job.at = "look" /\ job' = [job EXCEPT !.at = "write"]
          \/ job' = [job EXCEPT !.at = "fold", !.read = disk, !.text = NoText, !.tries = @ + 1]
          BY <2>6 DEF LookAgain
    <3>2. NoJob.at = "none"
          BY DEF NoJob
    <3>3. \/ job'.at = "none" \/ job'.read = disk
          \/ (job.at = "look" /\ job'.read = job.read)
          BY <1>2, <3>1, <3>2 DEF Job
    <3>   QED
          BY <1>1, <1>4, <3>3
  <2>7. CASE WriteDisk
        BY <1>1, <1>2, <1>4, <2>7 DEF WriteDisk, Job
  <2>   QED
        BY <1>1, <1>4, <2>1, <2>2, <2>3, <2>4, <2>5, <2>6, <2>7, Touches DEF NInv
<1>   QED
      BY <1>5, <1>6, <1>7, <1>8

-----------------------------------------------------------------------------
(***************************************************************************)
(* What always holds.                                                      *)
(***************************************************************************)
\* The invariant holds at the start: the note is the same everywhere.
LEMMA InvInit ==
    ASSUME NoteInit
    PROVE  NInv
<1>   DEFINE d == [ins |-> {<<First, 1>>}, del |-> {}]
<1>1. d \in Doc /\ Bounded(d) /\ d.ins = {<<First, 1>>} /\ d.del = {}
  <2>1. <<First, 1>> \in Op
        BY DEF Op, Line
  <2>2. d \in Doc
        BY <2>1 DEF Doc
  <2>3. Bounded(d)
        BY DEF Bounded
  <2>   QED
        BY <2>2, <2>3
<1>2. /\ disk = TextOf(d) /\ doc = d /\ server = d /\ store = [doc |-> d, mark |-> NoText]
      /\ rec.folded \in {TextOf(d), NoText} /\ rec.content = TextOf(d) /\ saved = rec
      /\ rec \in [folded : {TextOf(d), NoText}, content : {TextOf(d)}]
      /\ open = FALSE /\ mark = NoText /\ base = NoText /\ skipped = FALSE /\ job = NoJob
      /\ modifyDue = FALSE /\ snapDue = FALSE
      /\ on = FALSE /\ link = FALSE /\ checked = FALSE /\ catchup = NoCatchup
      /\ up = NoOps /\ down = NoOps
      /\ typed = {} /\ coarse = FALSE /\ torn = FALSE /\ overtaken = FALSE
      BY DEF NoteInit
<1>3. TextOf(d) \in Text /\ \A l \in Line : TextOf(d)[l] > 0 <=> Alive(l, d)
      BY <1>1, TextFacts
<1>4. (\A l : Alive(l, d) <=> l = First) /\ (\A l : In(l, d) <=> l = First)
  <2>   HIDE DEF d
  <2>1. <<First, 1>> \in d.ins \ d.del /\ \A o \in d.ins : o = <<First, 1>>
        BY <1>1
  <2>2. <<First, 1>>[1] = First
        OBVIOUS
  <2>   QED
        BY <2>1, <2>2 DEF Alive, In
<1>   HIDE DEF d
<1>5. NoOps \in Doc /\ NoOps.ins = {} /\ NoOps.del = {}
      BY DEF NoOps, Doc
<1>6. /\ NoJob \in Job /\ NoJob.at = "none" /\ NoJob.kind = "none" /\ NoJob.tries = 0
      /\ NoJob.read = NoText /\ NoJob.text = NoText
      /\ NoCatchup \in Catchup /\ NoCatchup.at = "none" /\ NoCatchup.batch = NoOps
      BY <1>5, NoteAssumption DEF NoJob, Job, NoCatchup, Catchup, JobKinds, Steps
<1>7. Shaped
  <2>1. job.tries \in 0 .. FoldAttempts - 1
        BY <1>2, <1>6, NoteAssumption
  <2>2. NoteTypeOK
        BY <1>1, <1>2, <1>3, <1>5, <1>6, <2>1 DEF NoteTypeOK, JobKinds, Steps
  <2>3. store \in [doc : Doc, mark : Marks \cup {NoText}] /\ doc = store.doc
        BY <1>1, <1>2
  <2>4. job \in Job /\ job.at = "none" /\ catchup \in Catchup /\ catchup.at = "none"
        BY <1>2, <1>6
  <2>   QED
        BY <1>2, <2>2, <2>3, <2>4 DEF Shaped, Folding, AfterFold
<1>8. Docs
      BY <1>1, <1>2, <1>5, <1>6 DEF Docs, Whole, Within
<1>9. MarksHeld
      BY <1>2 DEF MarksHeld, MarkOf
<1>10. Records
      BY <1>2, <1>3, <1>4 DEF Records, Held, Durable
<1>11. Folded /\ Missed /\ Dropped
      BY <1>2, <1>6 DEF Folded, Missed, Dropped, Folding, AfterFold
<1>12. Deleted /\ Standing
      BY <1>2 DEF Deleted, Standing, Kept
<1>13. Untyped
  <2>1. ASSUME NEW l \in Mine \ typed
        PROVE  /\ disk[l] = 0 /\ ~Held(l)
               /\ job.at \in Folding \cup AfterFold => job.read[l] = 0
    <3>1. l \in Line /\ l # First
          BY NoteAssumption DEF Line
    <3>2. disk[l] \in Nat
          BY <1>2, <1>3, <3>1 DEF Text
    <3>3. disk[l] = 0
          BY <1>2, <1>3, <1>4, <3>1, <3>2
    <3>   QED
          BY <1>2, <1>4, <1>6, <3>1, <3>3 DEF Held, Folding, AfterFold
  <2>   QED
        BY <2>1 DEF Untyped
<1>   QED
      BY <1>7, <1>8, <1>9, <1>10, <1>11, <1>12, <1>13 DEF NInv

\* A step that changes nothing keeps it.
LEMMA InvStutter ==
    ASSUME NInv, UNCHANGED noteVars
    PROVE  NInv'
<1>   USE DEF noteVars, noteFiles, noteMem, noteNet, noteHist, NInv
<1>1. Shaped'
      BY DEF Shaped, NoteTypeOK
<1>2. Docs'
      BY DEF Docs, Whole, Within, Bounded
<1>3. MarksHeld' /\ Folded'
      BY DEF MarksHeld, Folded, Held
<1>4. Records'
  <2>1. /\ rec' = rec /\ saved' = saved /\ doc' = doc /\ server' = server /\ store' = store
        BY Zenon
  <2>   QED
        BY <2>1 DEF Records, Held, Durable
<1>5. Missed' /\ Dropped' /\ Deleted' /\ Standing'
      BY DEF Missed, Dropped, Deleted, Standing, Kept, Durable
<1>6. Untyped'
      BY DEF Untyped, Held
<1>   QED
      BY <1>1, <1>2, <1>3, <1>4, <1>5, <1>6

\* Whatever the user, the teammate, the connection and crashes do, the invariant holds.
THEOREM NoteInvariant == NoteSpec => []NInv
<1>1. NoteInit => NInv
      BY InvInit
<1>2. NInv /\ [NoteNext]_noteVars => NInv'
  <2>1. ASSUME NInv, NoteNext
        PROVE  NInv'
    <3>1. Shaped'
          BY <2>1, ShapedKept DEF NInv
    <3>2. Docs'
          BY <2>1, DocsKept DEF NInv
    <3>3. MarksHeld' /\ Records' /\ Folded'
          BY <2>1, <3>2, MarksKept, RecordsKept, FoldedKept
    <3>4. Missed' /\ Dropped' /\ Deleted' /\ Standing' /\ Untyped'
          BY <2>1, MissedKept, DroppedKept, DeletedKept, StandingKept, UntypedKept
    <3>   QED
          BY <3>1, <3>2, <3>3, <3>4 DEF NInv
  <2>   QED
        BY <2>1, InvStutter
<1>   QED
      BY <1>1, <1>2, PTL DEF NoteSpec

\* A line the user saved and did not remove is never gone: it is on disk, in the document in
\* memory or in the server's (handleLocalModify, writeDocSnapshot, foldDiskEditsIntoDoc).
THEOREM NothingTypedLostAlways == NoteSpec => []NothingTypedLost
<1>1. NInv => NothingTypedLost
  <2>1. ASSUME NInv, NEW l \in Kept
        PROVE  disk[l] > 0 \/ \E o \in doc.ins \cup server.ins : o[1] = l
    <3>1. disk[l] > 0 \/ Durable(l)
          BY <2>1 DEF NInv, Standing
    <3>2. store.doc.ins \subseteq doc.ins
          BY <2>1 DEF NInv, Docs
    <3>   QED
          BY <3>1, <3>2 DEF Durable, In
  <2>   QED
        BY <2>1 DEF NothingTypedLost, Kept
<1>   QED
      BY <1>1, NoteInvariant, PTL

\* Types; and a snapshot folds at most FoldAttempts times (writeDocSnapshot).
THEOREM NoteTypesAlways == NoteSpec => []NoteTypeOK
<1>1. NInv => NoteTypeOK
      BY DEF NInv, Shaped
<1>   QED
      BY <1>1, NoteInvariant, PTL

-----------------------------------------------------------------------------
(***************************************************************************)
(* What a fold takes for the user's edit.                                  *)
(***************************************************************************)
\* No fold went without a base, and no crash lost the record of one.
Calm == ~torn /\ ~coarse
\* Lines of the teammate's that the user did not remove; and those the records are true of.
Untouched == Theirs \ removed
Watched == IF overtaken THEN Untouched ELSE Line
\* The server knows that the line is deleted.
Dead(l) == <<l, 1>> \in server.del
Has(t, l) == t # NoText /\ t[l] > 0
\* The handler has the text of the disk; and has marked its write.
Scanned == Folding \cup {"folded", "look", "write"}
Writing == job.at \in {"look", "write", "wrote"}
TheMarks == {mark, store.mark} \ {NoText}

\* The mark the document has, or would have if it were open; and state.json missed its write.
Before == IF open THEN mark ELSE store.mark
LostMark ==
    /\ Before # NoText /\ Before.here
    /\ Before.text # rec.folded /\ Before.over = rec.folded /\ Before.synced = rec.content

Agreeing == job.kind = "agree" => job.at = "read"
\* What is deleted in a part of the document is deleted in it.
Dels ==
    /\ store.doc.del \subseteq doc.del /\ up.del \subseteq doc.del
    /\ mark # NoText => mark.state.del \subseteq doc.del
    /\ store.mark # NoText => store.mark.state.del \subseteq store.doc.del
\* A confirmed mark that says more than the record is from the store; and there is none once
\* the fold is done, or a write is marked.
Confirmed ==
    /\ open /\ mark # NoText /\ mark.here /\ mark.text # rec.folded => store.mark = mark
    /\ Writing => mark = NoText \/ ~mark.here
    /\ job.at = "folded" => ~LostMark

\* A line is inserted once.
Single(l) == \A o \in doc.ins \cup server.ins : o[1] = l => o = <<l, 1>>
Ones(l) ==
    /\ disk[l] <= 1
    /\ rec.folded # NoText => rec.folded[l] <= 1
    /\ saved.folded # NoText => saved.folded[l] <= 1
    /\ \A m \in TheMarks : m.text[l] <= 1
    /\ job.at \in Scanned => job.read[l] <= 1
    /\ job.at = "merge" \/ Writing => job.text[l] <= 1
\* A line on disk that somebody has is in the document here, and in the record of the last
\* fold; or it is in the mark, and the record misses that write.
Told(l) ==
    /\ disk[l] > 0 /\ l \notin Mine => Held(l)
    /\ disk[l] > 0 /\ Held(l) => In(l, doc)
    /\ Has(rec.folded, l) => In(l, doc)
    /\ Has(saved.folded, l) => In(l, store.doc)
    /\ job.at # "wrote" /\ disk[l] > 0 /\ Held(l) =>
          /\ rec.folded # NoText /\ rec.folded[l] = 0 => LostMark /\ saved = rec
          /\ rec.folded = NoText => In(l, store.doc)
          /\ LostMark => Before.text[l] > 0
\* What the fold under way has read of the line, and what it merges; what is to be written.
Read(l) ==
    /\ job.at \in Scanned => /\ job.read[l] = 0 /\ disk[l] > 0 => ~Held(l)
                             /\ job.read[l] > 0 /\ l \notin Mine => Held(l)
    /\ job.at \in Folding /\ job.read[l] > 0 /\ Held(l) => In(l, doc)
    /\ job.at \in {"folded", "look", "write"} /\ job.read[l] > 0 => In(l, doc)
    /\ job.at \in {"fold", "hash"} /\ job.read[l] > 0 /\ Held(l) =>
          /\ rec.folded # NoText /\ rec.folded[l] = 0 => LostMark
          /\ LostMark => Before.text[l] > 0
    /\ job.at = "merge" /\ job.read[l] > 0 /\ job.text[l] = 0 => ~Held(l)
    /\ Writing /\ job.text[l] > 0 => In(l, doc)
    /\ job.at = "wrote" /\ disk[l] > 0 /\ Held(l) => job.text[l] > 0
\* A line missing from a mark's text was deleted before that write, or inserted after it; once
\* the write is confirmed the disk has not got it either.
Marked(l) ==
    \A m \in TheMarks :
       /\ Has(m.over, l) => In(l, m.state)
       /\ m.text[l] = 0 /\ In(l, m.state) => <<l, 1>> \in m.state.del
       /\ m.here /\ m.text[l] = 0 /\ In(l, m.state) =>
             disk[l] = 0 /\ (Writing => job.text[l] = 0)
       /\ m.here /\ m.text[l] = 0 /\ m.over = NoText /\ rec.folded = NoText /\ job.at # "wrote" =>
             disk[l] = 0 \/ ~Held(l)
Clear(l) == Single(l) /\ Ones(l) /\ Told(l) /\ Read(l) /\ Marked(l)
\* A line of the teammate's that the disk had it still has, or the server knows that it is
\* deleted; and the document has no deletion of it that the server has not.
TheirsStay(l) ==
    /\ Has(rec.folded, l) \/ Has(saved.folded, l) => disk[l] > 0 \/ Dead(l)
    /\ \A m \in TheMarks : m.here /\ m.text[l] > 0 => disk[l] > 0 \/ Dead(l)
    /\ job.at \in Scanned /\ job.read[l] > 0 => disk[l] > 0
    /\ job.at \in {"look", "write"} /\ job.text[l] = 0 /\ disk[l] > 0 => Dead(l)
    /\ job.at = "merge" /\ job.read[l] = 0 /\ job.text[l] > 0 => Dead(l)
    /\ job.at = "wrote" /\ job.text[l] > 0 => disk[l] > 0
    /\ \A o \in doc.del : o[1] = l => o \in server.del

TInv ==
    /\ Agreeing /\ Dels
    /\ Calm => Confirmed /\ (\A l \in Watched : Clear(l)) /\ \A l \in Untouched : TheirsStay(l)

\* A document with one insertion of a line has it once or not at all.
LEMMA TextSingle ==
    ASSUME NEW d \in Doc, NEW l \in Line, \A o \in d.ins : o[1] = l => o = <<l, 1>>
    PROVE  /\ TextOf(d)[l] = IF <<l, 1>> \in d.ins \ d.del THEN 1 ELSE 0
           /\ In(l, d) <=> <<l, 1>> \in d.ins
<1>   DEFINE S == {o \in d.ins \ d.del : o[1] = l}
<1>1. <<l, 1>>[1] = l
      OBVIOUS
<1>2. TextOf(d)[l] = Cardinality(S)
      BY DEF TextOf
<1>3. CASE <<l, 1>> \in d.ins \ d.del
  <2>1. S = {<<l, 1>>}
        BY <1>1, <1>3
  <2>   HIDE DEF S
  <2>2. Cardinality(S) = 1
        BY <2>1, FS_Singleton
  <2>   QED
        BY <1>1, <1>2, <1>3, <2>2 DEF In
<1>4. CASE <<l, 1>> \notin d.ins \ d.del
  <2>1. S = {}
        BY <1>1, <1>4
  <2>2. Cardinality(S) = 0
        BY <2>1, FS_EmptySet
  <2>   QED
        BY <1>1, <1>2, <1>4, <2>2 DEF In
<1>   QED
      BY <1>3, <1>4

\* A merge of lines that are there once: it inserts a line that only the user has, and
\* deletes one that only the user's text misses.
LEMMA MergeSingle ==
    ASSUME NEW b \in Text, NEW ours \in Text, NEW theirs \in Text, NEW l \in Line,
           b[l] <= 1, ours[l] <= 1, theirs[l] <= 1,
           ours[l] > 0 /\ b[l] = 0 => theirs[l] = 0
    PROVE  /\ Merge3(b, ours, theirs)[l] \in 0 .. 1
           /\ Merge3(b, ours, theirs)[l] > theirs[l] => ours[l] > 0 /\ b[l] = 0
           /\ Merge3(b, ours, theirs)[l] < theirs[l] => ours[l] = 0 /\ b[l] > 0
           /\ ours[l] > 0 /\ b[l] = 0 => Merge3(b, ours, theirs)[l] > 0
<1>   DEFINE in(t, at) == [k \in at |-> Excess(t[k], b[k])]
             place(k) == IF SamePlace THEN Line ELSE IF k \in Theirs THEN Theirs ELSE Line \ Theirs
             stays == Lower(b[l], Lower(ours[l], theirs[l]))
             once == Excess(ours[l], b[l])
             both == Excess(ours[l], b[l]) + Excess(theirs[l], b[l])
             m == Merge3(b, ours, theirs)[l]
<1>1. /\ m = stays + IF in(ours, place(l)) = in(theirs, place(l)) THEN once ELSE both
      BY Zenon DEF Merge3
<1>2. in(ours, place(l)) = in(theirs, place(l)) => once = Excess(theirs[l], b[l])
  <2>1. l \in place(l)
        OBVIOUS
  <2>2. in(ours, place(l))[l] = once /\ in(theirs, place(l))[l] = Excess(theirs[l], b[l])
        BY <2>1
  <2>   HIDE DEF in, place, once
  <2>   QED
        BY <2>2
<1>3. b[l] \in 0 .. 1 /\ ours[l] \in 0 .. 1 /\ theirs[l] \in 0 .. 1
      BY DEF Text
<1>   DEFINE same == in(ours, place(l)) = in(theirs, place(l))
<1>   HIDE DEF in, place, m
<1>4. m = stays + (IF same THEN once ELSE both) /\ (same => once = Excess(theirs[l], b[l]))
      BY <1>1, <1>2
<1>   HIDE DEF same
<1>5. /\ m \in 0 .. 1 
      /\ m > theirs[l] => ours[l] > 0 /\ b[l] = 0
      /\ m < theirs[l] => ours[l] = 0 /\ b[l] > 0
      /\ ours[l] > 0 /\ b[l] = 0 => m > 0
      BY <1>3, <1>4 DEF Lower, Excess
<1>   QED
      BY <1>5 DEF m

\* The text set, for a line that was inserted at most once: it is inserted if nobody has it,
\* and deleted if the text has not got it.
LEMMA SetTextsSingle ==
    ASSUME Shaped, Docs, NEW t \in Text, NEW d \in SetTexts(t), NEW l \in Line, Single(l),
           t[l] <= 1, t[l] > TextOf(doc)[l] => ~Held(l)
    PROVE  /\ \A o \in d.ins : o[1] = l => o = <<l, 1>>
           /\ In(l, d) => In(l, doc) \/ t[l] > TextOf(doc)[l]
           /\ t[l] > TextOf(doc)[l] => In(l, d)
           /\ \A o \in d.del : o[1] = l => o \in doc.del \/ (t[l] < TextOf(doc)[l] /\ o \in doc.ins)
<1>   DEFINE now == TextOf(doc)
             more == UNION {NewOps(k, Excess(t[k], now[k])) : k \in Line}
             alive(k) == {o \in doc.ins \ doc.del : o[1] = k}
             used(k) == {o[2] : o \in {p \in doc.ins \cup server.ins \cup store.doc.ins : p[1] = k}}
<1>1. PICK gone \in SUBSET {o \in doc.ins \ doc.del : t[o[1]] < now[o[1]]} :
         /\ \A k \in Line : Cardinality(gone \cap alive(k)) = Excess(now[k], t[k])
         /\ d = [ins |-> doc.ins \cup more, del |-> doc.del \cup gone]
      BY DEF SetTexts
<1>2. now \in Text /\ t[l] \in Nat /\ now[l] \in Nat
      BY DocTexts DEF Text
<1>3. /\ d.ins = doc.ins \cup more /\ d.del = doc.del \cup gone
      /\ \A o \in gone : o \in doc.ins /\ t[o[1]] < now[o[1]]
      BY <1>1
<1>   HIDE DEF now
<1>4. ASSUME NEW o \in more
      PROVE  o \in NewOps(o[1], Excess(t[o[1]], now[o[1]]))
  <2>1. PICK k \in Line : o \in NewOps(k, Excess(t[k], now[k]))
        OBVIOUS
  <2>2. Excess(t[k], now[k]) \in Nat
        BY <1>2 DEF Text, Excess
  <2>   QED
        BY <2>1, <2>2, NewOpsFacts
<1>5. t[l] <= now[l] => NewOps(l, Excess(t[l], now[l])) = {}
  <2>1. t[l] <= now[l] => Excess(t[l], now[l]) = 0
        BY <1>2 DEF Excess
  <2>   QED
        BY <2>1, NewOpsFacts
<1>6. t[l] > now[l] => NewOps(l, Excess(t[l], now[l])) = {<<l, 1>>}
  <2>1. SUFFICES ASSUME t[l] > now[l]
                 PROVE  NewOps(l, 1) = {<<l, 1>>} /\ Excess(t[l], now[l]) = 1
        OBVIOUS
  <2>2. Excess(t[l], now[l]) = 1
        BY <1>2, <2>1 DEF Excess
  <2>3. used(l) = {}
        BY <2>1 DEF now, Held, In, Docs
  <2>4. Max({0} \cup used(l)) = 0
        BY <2>3 DEF Max
  <2>5. NewOps(l, 1) = {<<l, k>> : k \in 0 + 1 .. 0 + 1}
        BY <2>4 DEF NewOps
  <2>   QED
        BY <2>2, <2>5
<1>7. NewOps(l, Excess(t[l], now[l])) \subseteq more
      OBVIOUS
<1>   HIDE DEF more
<1>8. \A o \in d.ins : o[1] = l => o \in doc.ins \/ (t[l] > now[l] /\ o = <<l, 1>>)
      BY <1>2, <1>3, <1>4, <1>5, <1>6
<1>9. t[l] > now[l] => <<l, 1>> \in d.ins /\ <<l, 1>>[1] = l
      BY <1>3, <1>6, <1>7
<1>   QED
      BY <1>3, <1>8, <1>9 DEF Single, In, now

-----------------------------------------------------------------------------
(***************************************************************************)
(* A step, as what it does to what the fold has of the note.               *)
(***************************************************************************)
\* No text changes, and no record: at most the document opens, or takes in what the server has.
Quiet ==
    /\ UNCHANGED <<disk, store, saved, rec, server, removed, overtaken>>
    /\ doc' = doc \/ TakesIn
    /\ UNCHANGED <<open, mark>> \/ (~open /\ open' /\ mark' = store.mark)
    /\ job' = job \/ (job.at # "wrote" /\ job'.at \notin Folding \cup AfterFold)
Saves ==
    /\ \E k \in Line :
          \/ /\ k \in Mine /\ ~Held(k) /\ disk' = [disk EXCEPT ![k] = 1] /\ removed' = removed
             /\ job.at \in Folding \cup AfterFold => job.read[k] = 0
          \/ disk' = [disk EXCEPT ![k] = 0] /\ removed' = removed \cup {k}
    /\ UNCHANGED <<doc, open, mark, store, rec, saved, server, job, overtaken>>
\* The teammate's edits, and this device's, reach the server.
Serves ==
    /\ server.del \subseteq server'.del
    /\ \A o \in server'.ins : o \in server.ins \cup doc.ins \/ (o[1] \in Theirs /\ o = <<o[1], 1>>)
    /\ UNCHANGED <<disk, doc, open, mark, store, rec, saved, job, removed, overtaken>>
Stores ==
    /\ open
    /\ \/ store.mark = mark /\ store'.mark = store.mark /\ store'.doc = doc
       \/ /\ store.mark # mark /\ store'.mark = mark /\ store'.doc = store.doc
          /\ mark # NoText => mark.state.del \subseteq store.doc.del
       \/ /\ store.mark # mark /\ store'.mark = store.mark
          /\ mark # NoText /\ store'.doc = Merged(store.doc, mark.state)
    /\ UNCHANGED <<disk, doc, open, mark, rec, saved, server, job, removed, overtaken>>
Persists ==
    /\ (open => store.doc = doc) /\ saved' = rec
    /\ UNCHANGED <<disk, doc, open, mark, store, rec, server, job, removed, overtaken>>
Crashes ==
    /\ ~open' /\ doc' = store.doc /\ mark' = NoText /\ rec' = saved /\ job' = NoJob
    /\ ~torn' => job.at # "wrote" /\ (saved.folded = rec.folded \/ MarkStands)
    /\ UNCHANGED <<disk, store, saved, server, removed, overtaken>>

\* A text counts as folded; and which.
Refold(t) ==
    /\ t \in Text /\ rec'.folded = t
    /\ mark' = IF open /\ mark # NoText /\ mark.text # t THEN NoText ELSE mark
    /\ UNCHANGED <<disk, open, store, saved, server, removed>>
FoldsRead(t) ==
    /\ t = job.read /\ job'.at = "folded" /\ job'.read = job.read /\ overtaken' = overtaken
    /\ \/ job.at \in {"fold", "hash"} /\ doc' = doc
       \/ job.at = "merge" /\ FoldIn
FoldsStep(t) ==
    \/ FoldsRead(t)
    \/ /\ t = job.read /\ doc' = doc /\ overtaken' = overtaken
       /\ \/ job.at = "look" /\ job'.at = "fold" /\ job'.read = disk
          \/ job.at = "folded" /\ job' = NoJob
    \/ /\ t = disk /\ doc' = doc /\ \A l \in Line : t[l] > 0 => Held(l)
       /\ \/ overtaken' = overtaken /\ job' = NoJob
          \/ overtaken' = (overtaken \/ open) /\ job' = job
Refolds == \E t \in Text : Refold(t) /\ FoldsStep(t)

\* The handler goes on, and changes nothing yet.
Ponders ==
    /\ \/ job.at = "fold" /\ job'.at = "hash" /\ job'.read = job.read
       \/ job.at = "read" /\ job'.at = "fold" /\ job'.read = disk
       \/ /\ job.at = "hash" /\ job'.read = job.read
          /\ \/ /\ job'.at = "folded" /\ ~LostWrite(job.read)
                /\ job.read = IF rec.folded = NoText THEN rec.content ELSE rec.folded
             \/ /\ job'.at = "merge" /\ job'.text = Marker(job.read)
                /\ Marker(job.read) \notin {NoText, job.read}
             \/ job'.at = "blindMerge"
    /\ UNCHANGED <<disk, doc, open, mark, store, rec, saved, server, removed, overtaken>>
MarksWrite ==
    /\ job.at = "folded" /\ job'.at = "look" /\ job'.read = job.read /\ job'.text = TextOf(doc)
    /\ mark' = [text |-> TextOf(doc), over |-> rec.folded, synced |-> rec.content, state |-> doc,
                here |-> FALSE]
    /\ UNCHANGED <<disk, doc, open, store, rec, saved, server, removed, overtaken>>
Looks ==
    /\ job.at = "look" /\ job'.at = "write" /\ job'.read = job.read /\ job'.text = job.text
    /\ rec'.folded = rec.folded
    /\ UNCHANGED <<disk, doc, open, mark, store, saved, server, removed, overtaken>>
Writes ==
    /\ job.at = "write" /\ job'.at = "wrote" /\ job'.text = job.text /\ disk' = job.text
    /\ UNCHANGED <<doc, open, mark, store, rec, saved, server, removed, overtaken>>
Confirms ==
    /\ job.at = "wrote" /\ job'.at = "none"
    /\ rec'.folded = job.text
    /\ mark' = IF mark # NoText /\ mark.text = job.text THEN [mark EXCEPT !.here = TRUE] ELSE NoText
    /\ UNCHANGED <<disk, doc, open, store, saved, server, removed, overtaken>>

\* Each step is one of these, as long as no fold goes without a base.
LEMMA Moves ==
    ASSUME NInv, Agreeing, NoteNext, ~coarse'
    PROVE  \/ Quiet \/ Saves \/ Serves \/ Stores \/ Persists \/ Crashes \/ Refolds
           \/ Ponders \/ MarksWrite \/ Looks \/ Writes \/ Confirms
<1>   USE DEF noteFiles, noteMem, noteNet, noteHist
<1>1. /\ job \in Job /\ mark \in Marks \cup {NoText} /\ store \in [doc : Doc, mark : Marks \cup {NoText}]
      /\ open \in BOOLEAN /\ overtaken \in BOOLEAN
      /\ rec \in [folded : Text \cup {NoText}, content : Text]
      BY DEF NInv, Shaped, NoteTypeOK
<1>2. NoJob.at = "none" /\ NoJob.kind = "none"
      BY DEF NoJob
<1>   DEFINE Busy == Folding \cup AfterFold
<1>3. "none" \notin Busy /\ "fetch" \notin Busy /\ "read" \notin Busy /\ "wrote" \in Busy
      BY DEF Folding, AfterFold
<1>4. /\ disk \in Text /\ TextOf(doc) \in Text /\ TextOf(catchup.batch) \in Text
      /\ \A l \in Line : TextOf(doc)[l] > 0 => Held(l)
      /\ \A l \in Line : TextOf(catchup.batch)[l] > 0 => Held(l)
      /\ job.at \in Busy => job.read \in Text /\ open
  <2>1. disk \in Text /\ (job.at \in Busy => job.read \in Text /\ open)
        BY <1>3 DEF NInv, Shaped, NoteTypeOK
  <2>2. \A l : Alive(l, doc) => In(l, doc)
        BY DEF Alive, In
  <2>   QED
        BY <2>1, <2>2, DocTexts DEF NInv, Held
<1>5. CASE \E l \in Line : Type(l)
  <2>1. PICK l \in Line : Type(l)
        BY <1>5
  <2>2. /\ l \in Mine /\ ~Held(l) /\ disk' = [disk EXCEPT ![l] = 1]
        /\ job.at \in Busy => job.read[l] = 0
        BY <2>1, TypedFacts
  <2>3. removed' = removed /\ UNCHANGED <<doc, open, mark, store, rec, saved, server, job, overtaken>>
        BY <2>1 DEF Type, Save
  <2>   QED
        BY <2>2, <2>3 DEF Saves
<1>6. CASE \E l \in Line : Erase(l)
  <2>1. PICK l \in Line : Erase(l)
        BY <1>6
  <2>2. disk' = [disk EXCEPT ![l] = 0] /\ removed' = removed \cup {l}
        BY <2>1 DEF Erase, Save
  <2>3. UNCHANGED <<doc, open, mark, store, rec, saved, server, job, overtaken>>
        BY <2>1 DEF Erase, Save
  <2>   QED
        BY <2>2, <2>3 DEF Saves
<1>7. CASE TheirEdit
  <2>1. PICK e \in {[ins |-> {<<l, 1>>}, del |-> {}] :
                       l \in {k \in Theirs : <<k, 1>> \notin server.ins}}
                   \cup {[ins |-> {}, del |-> {o}] : o \in server.ins \ server.del} :
           server' = Merged(server, e) /\ down' = IF link THEN Merged(down, e) ELSE down
        BY <1>7 DEF TheirEdit
  <2>2. \A o \in e.ins : o[1] \in Theirs /\ o = <<o[1], 1>>
    <3>1. \/ \E l \in Theirs : e = [ins |-> {<<l, 1>>}, del |-> {}]
          \/ \E o \in server.ins : e = [ins |-> {}, del |-> {o}]
          BY <2>1
    <3>2. (\E l \in Theirs : e.ins = {<<l, 1>>}) \/ e.ins = {}
          BY <3>1
    <3>3. \A l \in Theirs : <<l, 1>>[1] = l
          OBVIOUS
    <3>   QED
          BY <3>2, <3>3
  <2>3. server'.ins = server.ins \cup e.ins /\ server'.del = server.del \cup e.del
        BY <2>1 DEF Merged
  <2>4. UNCHANGED <<disk, doc, open, mark, store, rec, saved, job, removed, overtaken>>
        BY <1>7 DEF TheirEdit
  <2>   QED
        BY <2>2, <2>3, <2>4 DEF Serves
<1>8. CASE ServerTakes
  <2>1. server'.ins = server.ins \cup up.ins /\ server'.del = server.del \cup up.del
        BY <1>8 DEF ServerTakes, Merged
  <2>2. up.ins \subseteq doc.ins
        BY DEF NInv, Docs
  <2>3. UNCHANGED <<disk, doc, open, mark, store, rec, saved, job, removed, overtaken>>
        BY <1>8 DEF ServerTakes
  <2>   QED
        BY <2>1, <2>2, <2>3 DEF Serves
<1>9. CASE StoreTakes
  <2>1. UNCHANGED <<disk, doc, open, mark, rec, saved, server, job, removed, overtaken>>
        BY <1>9 DEF StoreTakes
  <2>2. CASE store.mark = mark
        BY <1>1, <1>9, <2>1, <2>2 DEF StoreTakes, Stores
  <2>3. CASE store.mark # mark
    <3>1. CASE mark = NoText
          BY <1>1, <1>9, <2>1, <2>3, <3>1 DEF StoreTakes, Stores
    <3>2. CASE mark # NoText /\ Merged(mark.state, store.doc) = store.doc
      <4>1. mark.state.del \subseteq store.doc.del
            BY <3>2 DEF Merged
      <4>   QED
            BY <1>1, <1>9, <2>1, <2>3, <3>2, <4>1 DEF StoreTakes, Stores
    <3>3. CASE mark # NoText /\ Merged(mark.state, store.doc) # store.doc
          BY <1>1, <1>9, <2>1, <2>3, <3>3 DEF StoreTakes, Stores
    <3>   QED
          BY <3>1, <3>2, <3>3
  <2>   QED
        BY <2>2, <2>3
<1>10. CASE RecordSaved
  <2>   QED
        BY <1>10 DEF RecordSaved, Persists
<1>11. CASE NoteCrash
  <2>1. /\ ~open' /\ doc' = store.doc /\ mark' = NoText /\ rec' = saved /\ job' = NoJob
        /\ UNCHANGED <<disk, store, saved, server, removed, overtaken>>
        BY <1>11 DEF NoteCrash
  <2>2. torn' = (torn \/ job.at = "wrote" \/ (saved.folded # rec.folded /\ ~MarkStands))
        BY <1>11 DEF NoteCrash
  <2>   QED
        BY <2>1, <2>2 DEF Crashes
<1>12. CASE PluginStarts
  <2>1. UNCHANGED <<disk, store, saved, rec, server, removed, overtaken>>
        BY <1>12 DEF PluginStarts
  <2>2. doc' = doc
        BY <1>12 DEF PluginStarts
  <2>3. UNCHANGED <<open, mark>>
        BY <1>12, <1>1 DEF PluginStarts
  <2>4. job' = job
        BY <1>12, <1>1, <1>2 DEF PluginStarts, Job
  <2>   QED
        BY <1>3, <2>1, <2>2, <2>3, <2>4 DEF Quiet
<1>13. CASE NoteConnects
  <2>1. UNCHANGED <<disk, store, saved, rec, server, removed, overtaken>>
        BY <1>13 DEF NoteConnects
  <2>2. doc' = doc
        BY <1>13 DEF NoteConnects
  <2>3. UNCHANGED <<open, mark>>
        BY <1>13, <1>1 DEF NoteConnects
  <2>4. job' = job
        BY <1>13, <1>1, <1>2 DEF NoteConnects, Job
  <2>   QED
        BY <1>3, <2>1, <2>2, <2>3, <2>4 DEF Quiet
<1>14. CASE NoteDrops
  <2>1. UNCHANGED <<disk, store, saved, rec, server, removed, overtaken>>
        BY <1>14 DEF NoteDrops
  <2>2. doc' = doc
        BY <1>14 DEF NoteDrops
  <2>3. UNCHANGED <<open, mark>>
        BY <1>14, <1>1 DEF NoteDrops
  <2>4. job' = job
        BY <1>14, <1>1, <1>2 DEF NoteDrops, Job
  <2>   QED
        BY <1>3, <2>1, <2>2, <2>3, <2>4 DEF Quiet
<1>15. CASE Fold
  <2>1. job.at = "fold" /\ UNCHANGED <<disk, store, saved, doc, open, server, removed, overtaken>>
        BY <1>15 DEF Fold
  <2>2. CASE job.read = TextOf(doc)
    <3>1. MarkFolded(job.read) /\ job' = [job EXCEPT !.at = "folded"]
          BY <1>15, <2>2 DEF Fold
    <3>2. Refold(job.read)
          BY <1>4, <2>1, <2>2, <3>1 DEF MarkFolded, SetFolded, Refold
    <3>3. FoldsRead(job.read)
          BY <1>1, <2>1, <3>1 DEF FoldsRead, Job
    <3>   QED
          BY <1>4, <2>2, <3>2, <3>3 DEF Refolds, FoldsStep
  <2>3. CASE job.read # TextOf(doc)
    <3>1. job' = [job EXCEPT !.at = "hash"] /\ UNCHANGED <<rec, mark>>
          BY <1>15, <2>3 DEF Fold
    <3>   QED
          BY <1>1, <2>1, <3>1 DEF Ponders, Job
  <2>   QED
        BY <2>2, <2>3
<1>16. CASE FindBase
  <2>1. job.at = "hash" /\ UNCHANGED <<disk, store, saved, doc, open, server, removed, overtaken>>
        BY <1>16 DEF FindBase
  <2>   DEFINE same == job.read = IF Marker(job.read) = NoText THEN rec.content ELSE Marker(job.read)
  <2>2. CASE same /\ LostWrite(job.read)
    <3>1. MarkFolded(job.read) /\ job' = [job EXCEPT !.at = "folded"]
          BY <1>16, <2>2 DEF FindBase
    <3>2. job.read \in Text
          BY <1>4, <2>1 DEF Folding
    <3>3. Refold(job.read)
          BY <2>1, <3>1, <3>2 DEF MarkFolded, SetFolded, Refold
    <3>4. FoldsRead(job.read)
          BY <1>1, <2>1, <3>1 DEF FoldsRead, Job
    <3>   QED
          BY <3>2, <3>3, <3>4 DEF Refolds, FoldsStep
  <2>3. CASE same /\ ~LostWrite(job.read)
    <3>1. UNCHANGED <<rec, mark>> /\ job' = [job EXCEPT !.at = "folded"]
          BY <1>16, <2>3 DEF FindBase
    <3>2. Marker(job.read) = rec.folded
          BY <2>3 DEF Marker
    <3>3. job'.at = "folded" /\ job'.read = job.read
          BY <1>1, <3>1 DEF Job
    <3>   QED
          BY <2>1, <2>3, <3>1, <3>2, <3>3 DEF Ponders
  <2>4. CASE ~same
    <3>1. /\ UNCHANGED <<rec, mark>>
          /\ \/ job' = [job EXCEPT !.at = "merge", !.text = Marker(job.read)] /\ Marker(job.read) # NoText
             \/ job' = [job EXCEPT !.at = "blindMerge"]
          BY <1>16, <2>4 DEF FindBase
    <3>2. Marker(job.read) # NoText => Marker(job.read) # job.read
          BY <2>4
    <3>   HIDE DEF same
    <3>3. /\ job'.read = job.read
          /\ \/ job'.at = "merge" /\ job'.text = Marker(job.read) /\ Marker(job.read) \notin {NoText, job.read}
             \/ job'.at = "blindMerge"
          BY <1>1, <3>1, <3>2 DEF Job
    <3>   QED
          BY <2>1, <3>1, <3>3 DEF Ponders
  <2>   QED
        BY <2>2, <2>3, <2>4
<1>17. CASE FoldIn
  <2>1. /\ job.at \in {"merge", "blindMerge"} /\ coarse' = (coarse \/ job.at = "blindMerge")
        /\ MarkFolded(job.read) /\ job' = [job EXCEPT !.at = "folded", !.text = NoText]
        /\ UNCHANGED <<disk, store, saved, open, server, removed, overtaken>>
        BY <1>17 DEF FoldIn
  <2>2. job.at = "merge"
        BY <2>1
  <2>3. job.read \in Text
        BY <1>4, <2>2 DEF Folding
  <2>4. Refold(job.read)
        BY <2>1, <2>3 DEF MarkFolded, SetFolded, Refold
  <2>5. FoldsRead(job.read)
        BY <1>1, <1>17, <2>1, <2>2 DEF FoldsRead, Job
  <2>   QED
        BY <2>3, <2>4, <2>5 DEF Refolds, FoldsStep
<1>18. CASE BeginModify
  <2>1. UNCHANGED <<disk, store, saved, rec, server, removed, overtaken>>
        BY <1>18 DEF BeginModify, Open, NoJob
  <2>2. doc' = doc
        BY <1>18 DEF BeginModify, Open, NoJob
  <2>3. UNCHANGED <<open, mark>> \/ (~open /\ open' /\ mark' = store.mark)
        BY <1>18, <1>1 DEF BeginModify, Open, NoJob
  <2>4. job.at = "none" /\ job'.at = "fetch"
        BY <1>18, <1>1, <1>2 DEF BeginModify, Open, NoJob, Job
  <2>   QED
        BY <1>3, <2>1, <2>2, <2>3, <2>4 DEF Quiet
<1>19. CASE EndModify
  <2>1. UNCHANGED <<disk, store, saved, rec, server, removed, overtaken>>
        BY <1>19 DEF EndModify
  <2>2. doc' = doc
        BY <1>19 DEF EndModify
  <2>3. UNCHANGED <<open, mark>>
        BY <1>19, <1>1 DEF EndModify
  <2>4. job.at # "wrote" /\ job'.at = "none"
        BY <1>19, <1>1, <1>2 DEF EndModify, Job
  <2>   QED
        BY <1>3, <2>1, <2>2, <2>3, <2>4 DEF Quiet
<1>20. CASE Hydrate
  <2>1. UNCHANGED <<disk, store, saved, rec, server, removed, overtaken>>
        BY <1>20 DEF Hydrate, TakeIn
  <2>2. doc' = doc \/ TakesIn
        BY <1>20 DEF Hydrate, TakeIn, TakesIn
  <2>3. UNCHANGED <<open, mark>>
        BY <1>20, <1>1 DEF Hydrate, TakeIn
  <2>4. job.at # "wrote" /\ job'.at = "read"
        BY <1>20, <1>1, <1>2 DEF Hydrate, TakeIn, Job
  <2>   QED
        BY <1>3, <2>1, <2>2, <2>3, <2>4 DEF Quiet
<1>21. CASE ReadDisk
  <2>1. job'.at = "fold" /\ job'.read = disk
        BY <1>1, <1>21 DEF ReadDisk, Job
  <2>   QED
        BY <1>21, <2>1 DEF ReadDisk, Ponders
<1>22. CASE BeginSnapshot
  <2>1. UNCHANGED <<disk, store, saved, rec, server, removed, overtaken>>
        BY <1>22 DEF BeginSnapshot, NoJob
  <2>2. doc' = doc
        BY <1>22 DEF BeginSnapshot, NoJob
  <2>3. UNCHANGED <<open, mark>>
        BY <1>22, <1>1 DEF BeginSnapshot, NoJob
  <2>4. job.at = "none" /\ job'.at \in {"none", "fetch"}
        BY <1>22, <1>1, <1>2 DEF BeginSnapshot, NoJob, Job
  <2>   QED
        BY <1>3, <2>1, <2>2, <2>3, <2>4 DEF Quiet
<1>23. CASE MarkWrite
  <2>1. job.at = "folded" /\ UNCHANGED <<disk, store, saved, doc, open, server, removed, overtaken>>
        BY <1>23 DEF MarkWrite
  <2>2. CASE job.read = TextOf(doc)
    <3>1. SetFolded(TextOf(doc), TextOf(doc)) /\ job' = NoJob
          BY <1>23, <2>2 DEF MarkWrite
    <3>2. Refold(job.read)
          BY <1>4, <2>1, <2>2, <3>1 DEF SetFolded, Refold
    <3>   QED
          BY <1>4, <2>1, <2>2, <3>1, <3>2 DEF Refolds, FoldsStep
  <2>3. CASE job.read # TextOf(doc)
    <3>1. /\ mark' = [text |-> TextOf(doc), over |-> rec.folded, synced |-> rec.content, state |-> doc,
                      here |-> FALSE]
          /\ job' = [job EXCEPT !.at = "look", !.text = TextOf(doc)]
          /\ rec' = rec
          BY <1>23, <2>3 DEF MarkWrite
    <3>2. job'.at = "look" /\ job'.read = job.read /\ job'.text = TextOf(doc)
          BY <1>1, <3>1 DEF Job
    <3>   QED
          BY <2>1, <3>1, <3>2 DEF MarksWrite
  <2>   QED
        BY <2>2, <2>3
<1>24. CASE LookAgain
  <2>1. job.at = "look" /\ UNCHANGED <<disk, store, saved, doc, open, server, removed, overtaken>>
        BY <1>24 DEF LookAgain
  <2>2. job.read \in Text
        BY <1>4, <2>1 DEF AfterFold
  <2>3. CASE job' = [job EXCEPT !.at = "write"] /\ rec' = [rec EXCEPT !.content = job.text] /\ mark' = mark
    <3>1. rec'.folded = rec.folded
          BY <1>1, <2>3
    <3>2. job'.at = "write" /\ job'.read = job.read /\ job'.text = job.text
          BY <1>1, <2>3 DEF Job
    <3>   QED
          BY <2>1, <2>3, <3>1, <3>2 DEF Looks
  <2>4. CASE /\ MarkFolded(job.read)
             /\ job' = [job EXCEPT !.at = "fold", !.read = disk, !.text = NoText, !.tries = @ + 1]
    <3>1. Refold(job.read)
          BY <2>1, <2>2, <2>4 DEF MarkFolded, SetFolded, Refold
    <3>2. job'.at = "fold" /\ job'.read = disk
          BY <1>1, <2>4 DEF Job
    <3>   QED
          BY <2>1, <2>2, <3>1, <3>2 DEF Refolds, FoldsStep
  <2>5. CASE job' = NoJob /\ UNCHANGED <<rec, mark>>
        BY <1>2, <1>3, <2>1, <2>5 DEF Quiet
  <2>   QED
        BY <1>24, <2>3, <2>4, <2>5 DEF LookAgain
<1>25. CASE WriteDisk
  <2>1. job'.at = "wrote" /\ job'.text = job.text
        BY <1>1, <1>25 DEF WriteDisk, Job
  <2>   QED
        BY <1>25, <2>1 DEF WriteDisk, Writes
<1>26. CASE EndSnapshot
  <2>1. rec'.folded = job.text
        BY <1>1, <1>26 DEF EndSnapshot
  <2>   QED
        BY <1>2, <1>26, <2>1 DEF EndSnapshot, Confirms
<1>27. CASE CatchupLook
  <2>1. UNCHANGED <<disk, store, saved, rec, server, removed, overtaken>>
        BY <1>27 DEF CatchupLook
  <2>2. doc' = doc
        BY <1>27 DEF CatchupLook
  <2>3. UNCHANGED <<open, mark>>
        BY <1>27, <1>1 DEF CatchupLook
  <2>4. job' = job
        BY <1>27, <1>1, <1>2 DEF CatchupLook, Job
  <2>   QED
        BY <1>3, <2>1, <2>2, <2>3, <2>4 DEF Quiet
<1>28. CASE CatchupSkips
  <2>1. UNCHANGED <<disk, store, saved, doc, open, server, removed, job>>
        BY <1>28 DEF CatchupSkips
  <2>2. CASE disk = TextOf(catchup.batch)
    <3>1. SetFolded(disk, rec.content) /\ overtaken' = (overtaken \/ open)
          BY <1>28, <2>2 DEF CatchupSkips
    <3>2. Refold(disk)
          BY <1>4, <2>1, <3>1 DEF SetFolded, Refold
    <3>3. FoldsStep(disk)
          BY <1>4, <2>1, <2>2, <3>1 DEF FoldsStep
    <3>   QED
          BY <1>4, <3>2, <3>3 DEF Refolds
  <2>3. CASE disk # TextOf(catchup.batch)
    <3>1. UNCHANGED <<rec, mark, overtaken>>
          BY <1>28, <2>3 DEF CatchupSkips
    <3>   QED
          BY <2>1, <3>1 DEF Quiet
  <2>   QED
        BY <2>2, <2>3
<1>29. CASE CatchupOpens
  <2>1. UNCHANGED <<disk, store, saved, rec, server, removed, overtaken>>
        BY <1>29 DEF CatchupOpens, Open, NoJob
  <2>2. doc' = doc
        BY <1>29 DEF CatchupOpens, Open, NoJob
  <2>3. UNCHANGED <<open, mark>> \/ (~open /\ open' /\ mark' = store.mark)
        BY <1>29, <1>1 DEF CatchupOpens, Open, NoJob
  <2>4. job.at = "none" /\ job'.at = "read"
        BY <1>29, <1>1, <1>2 DEF CatchupOpens, Open, NoJob, Job
  <2>   QED
        BY <1>3, <2>1, <2>2, <2>3, <2>4 DEF Quiet
<1>30. CASE NoteAgreement
  <2>1. /\ job' = NoJob /\ UNCHANGED <<disk, store, saved, doc, open, server, removed, overtaken>>
        /\ job.kind = "agree"
        BY <1>30 DEF NoteAgreement
  <2>2. CASE disk = TextOf(doc)
    <3>1. MarkFolded(disk)
          BY <1>30, <2>2 DEF NoteAgreement
    <3>2. Refold(disk)
          BY <1>4, <2>1, <3>1 DEF MarkFolded, SetFolded, Refold
    <3>3. FoldsStep(disk)
          BY <1>4, <2>1, <2>2 DEF FoldsStep
    <3>   QED
          BY <1>4, <3>2, <3>3 DEF Refolds
  <2>3. CASE disk # TextOf(doc)
    <3>1. UNCHANGED <<rec, mark>>
          BY <1>30, <2>3 DEF NoteAgreement
    <3>2. job.at # "wrote"
          BY <2>1 DEF Agreeing
    <3>   QED
          BY <1>2, <1>3, <2>1, <3>1, <3>2 DEF Quiet
  <2>   QED
        BY <2>2, <2>3
<1>31. CASE CatchupApplies
  <2>1. UNCHANGED <<disk, store, saved, rec, server, removed, overtaken>>
        BY <1>31 DEF CatchupApplies, TakeIn
  <2>2. TakesIn
        BY <1>31 DEF CatchupApplies, TakeIn, TakesIn
  <2>3. UNCHANGED <<open, mark>>
        BY <1>31, <1>1 DEF CatchupApplies, TakeIn
  <2>4. job' = job
        BY <1>31, <1>1, <1>2 DEF CatchupApplies, TakeIn, Job
  <2>   QED
        BY <1>3, <2>1, <2>2, <2>3, <2>4 DEF Quiet
<1>32. CASE TheirEditComes
  <2>1. UNCHANGED <<disk, store, saved, rec, server, removed, overtaken>>
        BY <1>32 DEF TheirEditComes, TakeIn, Open
  <2>2. TakesIn
        BY <1>32 DEF TheirEditComes, TakeIn, Open, TakesIn
  <2>3. UNCHANGED <<open, mark>> \/ (~open /\ open' /\ mark' = store.mark)
        BY <1>32, <1>1 DEF TheirEditComes, TakeIn, Open
  <2>4. job' = job
        BY <1>32, <1>1, <1>2 DEF TheirEditComes, TakeIn, Open, Job
  <2>   QED
        BY <1>3, <2>1, <2>2, <2>3, <2>4 DEF Quiet
<1>33. CASE CheckFirst
  <2>1. UNCHANGED <<disk, store, saved, rec, server, removed, overtaken>>
        BY <1>33 DEF CheckFirst, TakeIn, Open
  <2>2. TakesIn
        BY <1>33 DEF CheckFirst, TakeIn, Open, TakesIn
  <2>3. UNCHANGED <<open, mark>> \/ (~open /\ open' /\ mark' = store.mark)
        BY <1>33, <1>1 DEF CheckFirst, TakeIn, Open
  <2>4. job' = job
        BY <1>33, <1>1, <1>2 DEF CheckFirst, TakeIn, Open, Job
  <2>   QED
        BY <1>3, <2>1, <2>2, <2>3, <2>4 DEF Quiet
<1>   QED
      BY <1>5, <1>6, <1>7, <1>8, <1>9, <1>10, <1>11, <1>12, <1>13, <1>14, <1>15, <1>16, <1>17, <1>18, <1>19, <1>20, <1>21, <1>22, <1>23, <1>24, <1>25, <1>26, <1>27, <1>28, <1>29, <1>30, <1>31, <1>32, <1>33 DEF NoteNext, Device

-----------------------------------------------------------------------------
(***************************************************************************)
(* What every part of the proof needs of a step.                           *)
(***************************************************************************)
\* What happened, happened.
LEMMA HistoryGrows ==
    ASSUME Shaped, NoteNext
    PROVE  /\ torn => torn'
           /\ coarse => coarse'
           /\ overtaken => overtaken'
           /\ removed \subseteq removed'
<1>   USE DEF noteFiles, noteMem, noteNet, noteHist
<1>1. CASE NoteCrash
  <2>1. torn => torn'
        BY <1>1 DEF NoteCrash
  <2>2. UNCHANGED <<coarse, overtaken, removed>>
        BY <1>1 DEF NoteCrash
  <2>   QED
        BY <2>1, <2>2
<1>2. CASE FoldIn
  <2>1. coarse => coarse'
        BY <1>2 DEF FoldIn
  <2>2. UNCHANGED <<torn, overtaken, removed>>
        BY <1>2 DEF FoldIn
  <2>   QED
        BY <2>1, <2>2
<1>3. CASE CatchupSkips
  <2>1. overtaken => overtaken'
        BY <1>3 DEF CatchupSkips
  <2>2. UNCHANGED <<torn, coarse, removed>>
        BY <1>3 DEF CatchupSkips
  <2>   QED
        BY <2>1, <2>2
<1>4. CASE \E l \in Line : Type(l)
  <2>1. UNCHANGED <<torn, coarse, overtaken, removed>>
        BY <1>4 DEF Type, Save
  <2>   QED
        BY <2>1
<1>5. CASE \E l \in Line : Erase(l)
  <2>1. UNCHANGED <<torn, coarse, overtaken>> /\ removed \subseteq removed'
        BY <1>5 DEF Erase, Save
  <2>   QED
        BY <2>1
<1>6. CASE TheirEdit
  <2>1. UNCHANGED <<torn, coarse, overtaken, removed>>
        BY <1>6 DEF TheirEdit
  <2>   QED
        BY <2>1
<1>7. CASE PluginStarts
  <2>1. UNCHANGED <<torn, coarse, overtaken, removed>>
        BY <1>7 DEF PluginStarts
  <2>   QED
        BY <2>1
<1>8. CASE NoteConnects
  <2>1. UNCHANGED <<torn, coarse, overtaken, removed>>
        BY <1>8 DEF NoteConnects
  <2>   QED
        BY <2>1
<1>9. CASE NoteDrops
  <2>1. UNCHANGED <<torn, coarse, overtaken, removed>>
        BY <1>9 DEF NoteDrops
  <2>   QED
        BY <2>1
<1>10. CASE ServerTakes
  <2>1. UNCHANGED <<torn, coarse, overtaken, removed>>
        BY <1>10 DEF ServerTakes
  <2>   QED
        BY <2>1
<1>11. CASE StoreTakes
  <2>1. UNCHANGED <<torn, coarse, overtaken, removed>>
        BY <1>11 DEF StoreTakes
  <2>   QED
        BY <2>1
<1>12. CASE RecordSaved
  <2>1. UNCHANGED <<torn, coarse, overtaken, removed>>
        BY <1>12 DEF RecordSaved
  <2>   QED
        BY <2>1
<1>13. CASE Fold
  <2>1. UNCHANGED <<torn, coarse, overtaken, removed>>
        BY <1>13 DEF Fold
  <2>   QED
        BY <2>1
<1>14. CASE FindBase
  <2>1. UNCHANGED <<torn, coarse, overtaken, removed>>
        BY <1>14 DEF FindBase
  <2>   QED
        BY <2>1
<1>15. CASE BeginModify
  <2>1. UNCHANGED <<torn, coarse, overtaken, removed>>
        BY <1>15 DEF BeginModify
  <2>   QED
        BY <2>1
<1>16. CASE EndModify
  <2>1. UNCHANGED <<torn, coarse, overtaken, removed>>
        BY <1>16 DEF EndModify
  <2>   QED
        BY <2>1
<1>17. CASE Hydrate
  <2>1. UNCHANGED <<torn, coarse, overtaken, removed>>
        BY <1>17 DEF Hydrate
  <2>   QED
        BY <2>1
<1>18. CASE ReadDisk
  <2>1. UNCHANGED <<torn, coarse, overtaken, removed>>
        BY <1>18 DEF ReadDisk
  <2>   QED
        BY <2>1
<1>19. CASE BeginSnapshot
  <2>1. UNCHANGED <<torn, coarse, overtaken, removed>>
        BY <1>19 DEF BeginSnapshot
  <2>   QED
        BY <2>1
<1>20. CASE MarkWrite
  <2>1. UNCHANGED <<torn, coarse, overtaken, removed>>
        BY <1>20 DEF MarkWrite
  <2>   QED
        BY <2>1
<1>21. CASE LookAgain
  <2>1. UNCHANGED <<torn, coarse, overtaken, removed>>
        BY <1>21 DEF LookAgain
  <2>   QED
        BY <2>1
<1>22. CASE WriteDisk
  <2>1. UNCHANGED <<torn, coarse, overtaken, removed>>
        BY <1>22 DEF WriteDisk
  <2>   QED
        BY <2>1
<1>23. CASE EndSnapshot
  <2>1. UNCHANGED <<torn, coarse, overtaken, removed>>
        BY <1>23 DEF EndSnapshot
  <2>   QED
        BY <2>1
<1>24. CASE CatchupLook
  <2>1. UNCHANGED <<torn, coarse, overtaken, removed>>
        BY <1>24 DEF CatchupLook
  <2>   QED
        BY <2>1
<1>25. CASE CatchupOpens
  <2>1. UNCHANGED <<torn, coarse, overtaken, removed>>
        BY <1>25 DEF CatchupOpens
  <2>   QED
        BY <2>1
<1>26. CASE NoteAgreement
  <2>1. UNCHANGED <<torn, coarse, overtaken, removed>>
        BY <1>26 DEF NoteAgreement
  <2>   QED
        BY <2>1
<1>27. CASE CatchupApplies
  <2>1. UNCHANGED <<torn, coarse, overtaken, removed>>
        BY <1>27 DEF CatchupApplies
  <2>   QED
        BY <2>1
<1>28. CASE TheirEditComes
  <2>1. UNCHANGED <<torn, coarse, overtaken, removed>>
        BY <1>28 DEF TheirEditComes
  <2>   QED
        BY <2>1
<1>29. CASE CheckFirst
  <2>1. UNCHANGED <<torn, coarse, overtaken, removed>>
        BY <1>29 DEF CheckFirst
  <2>   QED
        BY <2>1
<1>   QED
      BY <1>1, <1>2, <1>3, <1>4, <1>5, <1>6, <1>7, <1>8, <1>9, <1>10, <1>11, <1>12, <1>13, <1>14, <1>15, <1>16, <1>17, <1>18, <1>19, <1>20, <1>21, <1>22, <1>23, <1>24, <1>25, <1>26, <1>27, <1>28, <1>29 DEF NoteNext, Device

\* A line the invariant is about after the step it is about before it.
LEMMA Scene ==
    ASSUME NInv, TInv, NoteNext, Calm', NEW l \in Watched'
    PROVE  /\ l \in Line /\ l \in Watched /\ Clear(l) /\ ~coarse'
           /\ l \in Untouched' \/ overtaken' => l \in Untouched /\ TheirsStay(l) /\ l \notin Mine
<1>1. /\ torn => torn'
      /\ coarse => coarse'
      /\ overtaken => overtaken'
      /\ removed \subseteq removed'
      BY HistoryGrows DEF NInv
<1>2. l \in Line /\ (l \in Untouched' \/ overtaken' => l \in Untouched)
      BY <1>1 DEF Watched, Untouched, Line
<1>3. l \in Watched /\ Calm
      BY <1>1, <1>2 DEF Watched, Calm
<1>4. l \in Untouched => l \notin Mine
      BY NoteAssumption DEF Untouched
<1>   QED
      BY <1>2, <1>3, <1>4 DEF TInv, Calm

LEMMA SceneTheirs ==
    ASSUME NInv, TInv, NoteNext, Calm', NEW l \in Untouched'
    PROVE  l \in Watched' /\ l \in Untouched
<1>1. l \in Untouched
      BY HistoryGrows DEF NInv, Untouched
<1>   QED
      BY <1>1 DEF Watched, Untouched, Line

\* Texts say how often.
LEMMA LineCounts ==
    ASSUME NInv, NEW l \in Line
    PROVE  /\ disk[l] \in Nat /\ TextOf(doc)[l] \in Nat
           /\ rec.folded # NoText => rec.folded[l] \in Nat
           /\ saved.folded # NoText => saved.folded[l] \in Nat
           /\ mark # NoText => mark \in Marks /\ mark.text[l] \in Nat
           /\ store.mark # NoText => store.mark \in Marks /\ store.mark.text[l] \in Nat
           /\ job.at \in Folding \cup AfterFold => job.read \in Text /\ job.read[l] \in Nat /\ open
           /\ job.at \in {"merge", "look", "write", "wrote"} => job.text \in Text /\ job.text[l] \in Nat
<1>1. \A t \in Text : t[l] \in Nat
      BY DEF Text
<1>2. disk \in Text /\ TextOf(doc) \in Text
      BY DocTexts DEF NInv, Shaped, NoteTypeOK
<1>3. /\ rec.folded # NoText => rec.folded \in Text
      /\ saved.folded # NoText => saved.folded \in Text
      BY DEF NInv, Shaped, NoteTypeOK
<1>4. /\ mark # NoText => mark \in Marks /\ mark.text \in Text
      /\ store.mark # NoText => store.mark \in Marks /\ store.mark.text \in Text
      BY DEF NInv, Shaped, NoteTypeOK, Marks
<1>5. /\ job.at \in Folding \cup AfterFold => job.read \in Text /\ open
      /\ job.at \in {"merge", "look", "write", "wrote"} => job.text \in Text
      BY DEF NInv, Shaped, Folding, AfterFold
<1>   QED
      BY <1>1, <1>2, <1>3, <1>4, <1>5

\* The line in the document once the disk is folded in.
LEMMA FoldInLine ==
    ASSUME NInv, FoldIn, job.at = "merge", NEW l \in Line, Clear(l)
    PROVE  /\ \A o \in doc'.ins : o[1] = l => o = <<l, 1>>
           /\ In(l, doc') => In(l, doc) \/ (job.read[l] > 0 /\ ~Held(l))
           /\ job.read[l] > 0 => In(l, doc')
           /\ \A o \in doc'.del : o[1] = l => o \in doc.del \/ (job.read[l] = 0 /\ job.text[l] > 0 /\ o = <<l, 1>>)
<1>   DEFINE now == TextOf(doc)
             t == Merge3(job.text, job.read, now)
<1>1. /\ job.text \in Text /\ job.read \in Text /\ now \in Text
      /\ job.text[l] \in Nat /\ job.read[l] \in Nat /\ now[l] \in Nat
      BY LineCounts, DocTexts DEF NInv, Folding
<1>2. doc' \in SetTexts(t)
      BY FoldInFacts DEF NInv
<1>3. /\ job.text[l] <= 1 /\ job.read[l] <= 1
      /\ \A o \in doc.ins : o[1] = l => o = <<l, 1>>
      /\ job.read[l] > 0 /\ job.text[l] = 0 => ~Held(l)
      /\ job.read[l] > 0 /\ Held(l) => In(l, doc)
      BY DEF Clear, Ones, Single, Read, Scanned, Folding
<1>4. /\ now[l] <= 1
      /\ now[l] > 0 => In(l, doc)
  <2>1. doc \in Doc
        BY DocTexts DEF NInv
  <2>2. now[l] = IF <<l, 1>> \in doc.ins \ doc.del THEN 1 ELSE 0
        BY <1>3, <2>1, TextSingle
  <2>3. <<l, 1>>[1] = l
        OBVIOUS
  <2>   QED
        BY <2>2, <2>3 DEF In
<1>   HIDE DEF now
<1>5. job.read[l] > 0 /\ job.text[l] = 0 => now[l] = 0
      BY <1>1, <1>3, <1>4 DEF Held
<1>6. t \in Text
      BY <1>1, Merge3Facts
<1>7. /\ t[l] \in 0 .. 1
      /\ t[l] > now[l] => job.read[l] > 0 /\ job.text[l] = 0
      /\ t[l] < now[l] => job.read[l] = 0 /\ job.text[l] > 0
      /\ job.read[l] > 0 /\ job.text[l] = 0 => t[l] > 0
      BY <1>1, <1>3, <1>4, <1>5, MergeSingle
<1>   HIDE DEF t
<1>8. /\ \A o \in doc'.ins : o[1] = l => o = <<l, 1>>
      /\ In(l, doc') => In(l, doc) \/ t[l] > now[l]
      /\ t[l] > now[l] => In(l, doc')
      /\ \A o \in doc'.del : o[1] = l => o \in doc.del \/ (t[l] < now[l] /\ o \in doc.ins)
      BY <1>2, <1>3, <1>6, <1>7, SetTextsSingle DEF NInv, Clear, now
<1>9. job.read[l] > 0 => In(l, doc')
  <2>1. CASE job.read[l] > 0 /\ job.text[l] = 0
        BY <1>5, <1>7, <1>8, <2>1
  <2>2. CASE job.read[l] > 0 /\ job.text[l] > 0
    <3>1. Held(l)
          BY <2>2 DEF NInv, Folded
    <3>2. doc.ins \subseteq doc'.ins
          BY <1>2, <1>6, SetTextsFacts DEF NInv
    <3>   QED
          BY <1>3, <2>2, <3>1, <3>2 DEF In
  <2>   QED
        BY <1>1, <2>1, <2>2
<1>   QED
      BY <1>3, <1>7, <1>8, <1>9

\* Insertions: the server's, those of a fold, and otherwise none.
LEMMA Inserts ==
    ASSUME NInv, Agreeing, NoteNext, ~coarse'
    PROVE  \/ Serves
           \/ FoldIn /\ job.at = "merge" /\ server' = server
           \/ server' = server /\ \A o \in doc'.ins : o \in doc.ins \/ o \in server.ins
<1>1. CASE FoldIn
      BY <1>1 DEF FoldIn
<1>2. CASE ~Serves /\ ~FoldIn
  <2>1. \/ Quiet \/ Saves \/ Stores \/ Persists \/ Crashes \/ Refolds
        \/ Ponders \/ MarksWrite \/ Looks \/ Writes \/ Confirms
        BY <1>2, Moves
  <2>2. server' = server
        BY <2>1 DEF Quiet, Saves, Stores, Persists, Crashes, Refolds, Refold, Ponders, MarksWrite,
                    Looks, Writes, Confirms
  <2>3. doc' = doc \/ TakesIn \/ doc' = store.doc
        BY <1>2, <2>1 DEF Quiet, Saves, Stores, Persists, Crashes, Refolds, FoldsStep, FoldsRead,
                    Ponders, MarksWrite, Looks, Writes, Confirms
  <2>4. store.doc.ins \subseteq doc.ins
        BY DEF NInv, Docs
  <2>5. \A o \in doc'.ins : o \in doc.ins \/ o \in server.ins
        BY <2>3, <2>4, Grows DEF NInv
  <2>   QED
        BY <2>2, <2>5
<1>   QED
      BY <1>1, <1>2

\* A line that is in some document now was before, or is folded in, or the teammate's.
LEMMA HeldNew ==
    ASSUME NInv, TInv, NoteNext, Calm', NEW l \in Watched', Held(l)', ~Held(l)
    PROVE  \/ FoldIn /\ job.at = "merge" /\ job.read[l] > 0
           \/ Serves /\ l \in Theirs
<1>1. l \in Line /\ Clear(l) /\ ~coarse'
      BY Scene
<1>2. CASE Serves
      BY <1>2 DEF Serves, Held, In
<1>3. CASE FoldIn /\ job.at = "merge" /\ server' = server
      BY <1>1, <1>3, FoldInLine DEF Held
<1>4. CASE server' = server /\ \A o \in doc'.ins : o \in doc.ins \/ o \in server.ins
      BY <1>4 DEF Held, In
<1>   QED
      BY <1>1, <1>2, <1>3, <1>4, Inserts DEF TInv

-----------------------------------------------------------------------------
(***************************************************************************)
(* Each part of it, kept.                                                  *)
(***************************************************************************)
\* Nobody inserts a line that somebody has.
LEMMA SingleKept ==
    ASSUME NInv, TInv, NoteNext, Calm', NEW l \in Watched'
    PROVE  Single(l)'
<1>1. l \in Line /\ Clear(l) /\ ~coarse'
      BY Scene
<1>2. CASE Serves
      BY <1>1, <1>2 DEF Serves, Clear, Single
<1>3. CASE FoldIn /\ job.at = "merge" /\ server' = server
      BY <1>1, <1>3, FoldInLine DEF Clear, Single
<1>4. CASE server' = server /\ \A o \in doc'.ins : o \in doc.ins \/ o \in server.ins
      BY <1>1, <1>4 DEF Clear, Single
<1>   QED
      BY <1>1, <1>2, <1>3, <1>4, Inserts DEF TInv

\* A text has it once.
LEMMA OnesKept ==
    ASSUME NInv, TInv, NoteNext, Calm', NEW l \in Watched'
    PROVE  Ones(l)'
<1>1. l \in Line /\ Clear(l) /\ ~coarse'
      BY Scene
<1>2. /\ disk[l] <= 1 /\ disk \in Text
      /\ rec.folded # NoText => rec.folded[l] <= 1
      /\ saved.folded # NoText => saved.folded[l] <= 1
      /\ mark # NoText => mark.text[l] <= 1
      /\ store.mark # NoText => store.mark.text[l] <= 1
      /\ job.at \in Scanned => job.read[l] <= 1
      /\ job.at = "merge" \/ Writing => job.text[l] <= 1
      BY <1>1 DEF Clear, Ones, TheMarks, NInv, Shaped, NoteTypeOK
<1>3. TextOf(doc)[l] <= 1
  <2>1. doc \in Doc /\ \A o \in doc.ins : o[1] = l => o = <<l, 1>>
        BY <1>1, DocTexts DEF NInv, Clear, Single
  <2>2. TextOf(doc)[l] = IF <<l, 1>> \in doc.ins \ doc.del THEN 1 ELSE 0
        BY <1>1, <2>1, TextSingle
  <2>   QED
        BY <2>2
<1>4. /\ mark # NoText => mark \in Marks
      /\ NoJob.at = "none"
      BY DEF NInv, Shaped, NoteTypeOK, NoJob
<1>   USE DEF Ones, TheMarks, Scanned, Writing, Folding, AfterFold
<1>5. CASE Quiet
      BY <1>1, <1>2, <1>3, <1>4, <1>5 DEF Quiet
<1>6. CASE Saves
      BY <1>1, <1>2, <1>3, <1>4, <1>6 DEF Saves, Text
<1>7. CASE Serves
      BY <1>1, <1>2, <1>3, <1>4, <1>7 DEF Serves
<1>8. CASE Stores
      BY <1>1, <1>2, <1>3, <1>4, <1>8 DEF Stores
<1>9. CASE Persists
      BY <1>1, <1>2, <1>3, <1>4, <1>9 DEF Persists
<1>10. CASE Crashes
      BY <1>1, <1>2, <1>3, <1>4, <1>10 DEF Crashes
<1>11. CASE Refolds
  <2>1. PICK t \in Text : Refold(t) /\ FoldsStep(t)
        BY <1>11 DEF Refolds
  <2>2. t[l] <= 1
        BY <1>2, <2>1 DEF FoldsStep, FoldsRead
  <2>3. UNCHANGED <<disk, saved, store>> /\ rec'.folded = t /\ mark' \in {mark, NoText}
        BY <2>1 DEF Refold
  <2>4. /\ job'.at \in Scanned => job'.read[l] <= 1
        /\ job'.at = "merge" \/ (Writing)' => job'.text[l] <= 1
        BY <1>2, <1>4, <2>1 DEF FoldsStep, FoldsRead
  <2>   QED
        BY <1>2, <2>2, <2>3, <2>4
<1>12. CASE Ponders
  <2>1. job'.at = "merge" => job'.text[l] <= 1
    <3>1. job'.at = "merge" => job'.text = Marker(job.read) /\ Marker(job.read) # NoText
          BY <1>12 DEF Ponders
    <3>   QED
          BY <1>2, <3>1 DEF Marker, LostWrite
  <2>   QED
        BY <1>2, <1>12, <2>1 DEF Ponders
<1>13. CASE MarksWrite
      BY <1>1, <1>2, <1>3, <1>4, <1>13 DEF MarksWrite
<1>14. CASE Looks
      BY <1>1, <1>2, <1>3, <1>4, <1>14 DEF Looks
<1>15. CASE Writes
      BY <1>1, <1>2, <1>3, <1>4, <1>15 DEF Writes
<1>16. CASE Confirms
  <2>1. mark' # NoText => mark'.text = mark.text /\ mark # NoText
        BY <1>4, <1>16 DEF Confirms, Marks
  <2>   QED
        BY <1>2, <1>16, <2>1 DEF Confirms
<1>   QED
      BY <1>1, <1>5, <1>6, <1>7, <1>8, <1>9, <1>10, <1>11, <1>12, <1>13, <1>14, <1>15, <1>16, Moves DEF TInv

\* What goes to the server is from the document; and a check of the disk reads it at once.
LEMMA PushesKept ==
    ASSUME NInv, Agreeing, NoteNext
    PROVE  /\ up' \in {up, NoOps, Merged(up, doc')}
           /\ NoteCrash => up' = NoOps
           /\ Agreeing'
<1>   USE DEF noteFiles, noteMem, noteNet, noteHist
<1>1. job \in Job /\ NoJob \in Job /\ NoJob.kind = "none"
      BY NoteAssumption DEF NInv, Shaped, NoJob, Job, JobKinds, Steps
<1>2. job.kind = "agree" => job.at = "read"
      BY DEF Agreeing
<1>3. CASE \E l \in Line : Type(l)
      BY <1>2, <1>3 DEF Type, Save, Agreeing, NoteCrash
<1>4. CASE \E l \in Line : Erase(l)
      BY <1>2, <1>4 DEF Erase, Save, Agreeing, NoteCrash
<1>5. CASE TheirEdit
  <2>1. up' \in {up, NoOps, Merged(up, doc')} /\ (NoteCrash => up' = NoOps)
        BY <1>5 DEF TheirEdit, NoteCrash
  <2>2. job' = job
        BY <1>5 DEF TheirEdit
  <2>   QED
        BY <1>2, <2>1, <2>2 DEF Agreeing
<1>6. CASE PluginStarts
  <2>1. up' \in {up, NoOps, Merged(up, doc')} /\ (NoteCrash => up' = NoOps)
        BY <1>6 DEF PluginStarts, NoteCrash
  <2>2. job' = job
        BY <1>6 DEF PluginStarts
  <2>   QED
        BY <1>2, <2>1, <2>2 DEF Agreeing
<1>7. CASE NoteCrash
  <2>1. up' \in {up, NoOps, Merged(up, doc')} /\ (NoteCrash => up' = NoOps)
        BY <1>7 DEF NoteCrash, NoteCrash
  <2>2. job'.kind = "agree" => job'.at = "read"
        BY <1>1, <1>2, <1>7 DEF NoteCrash, Job
  <2>   QED
        BY <2>1, <2>2 DEF Agreeing
<1>8. CASE NoteConnects
  <2>1. up' \in {up, NoOps, Merged(up, doc')} /\ (NoteCrash => up' = NoOps)
        BY <1>8 DEF NoteConnects, NoteCrash
  <2>2. job' = job
        BY <1>8 DEF NoteConnects
  <2>   QED
        BY <1>2, <2>1, <2>2 DEF Agreeing
<1>9. CASE NoteDrops
  <2>1. up' \in {up, NoOps, Merged(up, doc')} /\ (NoteCrash => up' = NoOps)
        BY <1>9 DEF NoteDrops, NoteCrash
  <2>2. job' = job
        BY <1>9 DEF NoteDrops
  <2>   QED
        BY <1>2, <2>1, <2>2 DEF Agreeing
<1>10. CASE ServerTakes
  <2>1. up' \in {up, NoOps, Merged(up, doc')} /\ (NoteCrash => up' = NoOps)
        BY <1>10 DEF ServerTakes, NoteCrash
  <2>2. job' = job
        BY <1>10 DEF ServerTakes
  <2>   QED
        BY <1>2, <2>1, <2>2 DEF Agreeing
<1>11. CASE StoreTakes
  <2>1. up' \in {up, NoOps, Merged(up, doc')} /\ (NoteCrash => up' = NoOps)
        BY <1>11 DEF StoreTakes, NoteCrash
  <2>2. job' = job
        BY <1>11 DEF StoreTakes
  <2>   QED
        BY <1>2, <2>1, <2>2 DEF Agreeing
<1>12. CASE RecordSaved
  <2>1. up' \in {up, NoOps, Merged(up, doc')} /\ (NoteCrash => up' = NoOps)
        BY <1>12 DEF RecordSaved, NoteCrash
  <2>2. job' = job
        BY <1>12 DEF RecordSaved
  <2>   QED
        BY <1>2, <2>1, <2>2 DEF Agreeing
<1>13. CASE Fold
  <2>1. up' \in {up, NoOps, Merged(up, doc')} /\ (NoteCrash => up' = NoOps)
        BY <1>13 DEF Fold, NoteCrash
  <2>2. job'.kind = "agree" => job'.at = "read"
        BY <1>1, <1>2, <1>13 DEF Fold, Job
  <2>   QED
        BY <2>1, <2>2 DEF Agreeing
<1>14. CASE FindBase
  <2>1. up' \in {up, NoOps, Merged(up, doc')} /\ (NoteCrash => up' = NoOps)
        BY <1>14 DEF FindBase, NoteCrash
  <2>2. job'.kind = "agree" => job'.at = "read"
        BY <1>1, <1>2, <1>14 DEF FindBase, Job
  <2>   QED
        BY <2>1, <2>2 DEF Agreeing
<1>15. CASE FoldIn
  <2>1. up' \in {up, NoOps, Merged(up, doc')} /\ (NoteCrash => up' = NoOps)
        BY <1>15 DEF FoldIn, NoteCrash
  <2>2. job'.kind = "agree" => job'.at = "read"
        BY <1>1, <1>2, <1>15 DEF FoldIn, Job
  <2>   QED
        BY <2>1, <2>2 DEF Agreeing
<1>16. CASE BeginModify
  <2>1. up' \in {up, NoOps, Merged(up, doc')} /\ (NoteCrash => up' = NoOps)
        BY <1>16 DEF BeginModify, Open, NoteCrash
  <2>2. job'.kind = "agree" => job'.at = "read"
        BY <1>1, <1>2, <1>16 DEF BeginModify, Job
  <2>   QED
        BY <2>1, <2>2 DEF Agreeing
<1>17. CASE EndModify
  <2>1. up' \in {up, NoOps, Merged(up, doc')} /\ (NoteCrash => up' = NoOps)
        BY <1>17 DEF EndModify, NoteCrash
  <2>2. job'.kind = "agree" => job'.at = "read"
        BY <1>1, <1>2, <1>17 DEF EndModify, Job
  <2>   QED
        BY <2>1, <2>2 DEF Agreeing
<1>18. CASE Hydrate
  <2>1. up' \in {up, NoOps, Merged(up, doc')} /\ (NoteCrash => up' = NoOps)
        BY <1>18 DEF Hydrate, TakeIn, Push, NoteCrash
  <2>2. job'.kind = "agree" => job'.at = "read"
        BY <1>1, <1>2, <1>18 DEF Hydrate, Job
  <2>   QED
        BY <2>1, <2>2 DEF Agreeing
<1>19. CASE ReadDisk
  <2>1. up' \in {up, NoOps, Merged(up, doc')} /\ (NoteCrash => up' = NoOps)
        BY <1>19 DEF ReadDisk, NoteCrash
  <2>2. job'.kind = "agree" => job'.at = "read"
        BY <1>1, <1>2, <1>19 DEF ReadDisk, Job
  <2>   QED
        BY <2>1, <2>2 DEF Agreeing
<1>20. CASE BeginSnapshot
  <2>1. up' \in {up, NoOps, Merged(up, doc')} /\ (NoteCrash => up' = NoOps)
        BY <1>20 DEF BeginSnapshot, NoteCrash
  <2>2. job'.kind = "agree" => job'.at = "read"
        BY <1>1, <1>2, <1>20 DEF BeginSnapshot, Job
  <2>   QED
        BY <2>1, <2>2 DEF Agreeing
<1>21. CASE MarkWrite
  <2>1. up' \in {up, NoOps, Merged(up, doc')} /\ (NoteCrash => up' = NoOps)
        BY <1>21 DEF MarkWrite, NoteCrash
  <2>2. job'.kind = "agree" => job'.at = "read"
        BY <1>1, <1>2, <1>21 DEF MarkWrite, Job
  <2>   QED
        BY <2>1, <2>2 DEF Agreeing
<1>22. CASE LookAgain
  <2>1. up' \in {up, NoOps, Merged(up, doc')} /\ (NoteCrash => up' = NoOps)
        BY <1>22 DEF LookAgain, NoteCrash
  <2>2. job'.kind = "agree" => job'.at = "read"
        BY <1>1, <1>2, <1>22 DEF LookAgain, Job
  <2>   QED
        BY <2>1, <2>2 DEF Agreeing
<1>23. CASE WriteDisk
  <2>1. up' \in {up, NoOps, Merged(up, doc')} /\ (NoteCrash => up' = NoOps)
        BY <1>23 DEF WriteDisk, NoteCrash
  <2>2. job'.kind = "agree" => job'.at = "read"
        BY <1>1, <1>2, <1>23 DEF WriteDisk, Job
  <2>   QED
        BY <2>1, <2>2 DEF Agreeing
<1>24. CASE EndSnapshot
  <2>1. up' \in {up, NoOps, Merged(up, doc')} /\ (NoteCrash => up' = NoOps)
        BY <1>24 DEF EndSnapshot, NoteCrash
  <2>2. job'.kind = "agree" => job'.at = "read"
        BY <1>1, <1>2, <1>24 DEF EndSnapshot, Job
  <2>   QED
        BY <2>1, <2>2 DEF Agreeing
<1>25. CASE CatchupLook
  <2>1. up' \in {up, NoOps, Merged(up, doc')} /\ (NoteCrash => up' = NoOps)
        BY <1>25 DEF CatchupLook, NoteCrash
  <2>2. job' = job
        BY <1>25 DEF CatchupLook
  <2>   QED
        BY <1>2, <2>1, <2>2 DEF Agreeing
<1>26. CASE CatchupSkips
  <2>1. up' \in {up, NoOps, Merged(up, doc')} /\ (NoteCrash => up' = NoOps)
        BY <1>26 DEF CatchupSkips, NoteCrash
  <2>2. job' = job
        BY <1>26 DEF CatchupSkips
  <2>   QED
        BY <1>2, <2>1, <2>2 DEF Agreeing
<1>27. CASE CatchupOpens
  <2>1. up' \in {up, NoOps, Merged(up, doc')} /\ (NoteCrash => up' = NoOps)
        BY <1>27 DEF CatchupOpens, Open, NoteCrash
  <2>2. job'.kind = "agree" => job'.at = "read"
        BY <1>1, <1>2, <1>27 DEF CatchupOpens, Job
  <2>   QED
        BY <2>1, <2>2 DEF Agreeing
<1>28. CASE NoteAgreement
  <2>1. up' \in {up, NoOps, Merged(up, doc')} /\ (NoteCrash => up' = NoOps)
        BY <1>28 DEF NoteAgreement, NoteCrash
  <2>2. job'.kind = "agree" => job'.at = "read"
        BY <1>1, <1>2, <1>28 DEF NoteAgreement, Job
  <2>   QED
        BY <2>1, <2>2 DEF Agreeing
<1>29. CASE CatchupApplies
  <2>1. up' \in {up, NoOps, Merged(up, doc')} /\ (NoteCrash => up' = NoOps)
        BY <1>29 DEF CatchupApplies, TakeIn, Push, NoteCrash
  <2>2. job' = job
        BY <1>29 DEF CatchupApplies
  <2>   QED
        BY <1>2, <2>1, <2>2 DEF Agreeing
<1>30. CASE TheirEditComes
  <2>1. up' \in {up, NoOps, Merged(up, doc')} /\ (NoteCrash => up' = NoOps)
        BY <1>30 DEF TheirEditComes, TakeIn, NoteCrash
  <2>2. job' = job
        BY <1>30 DEF TheirEditComes
  <2>   QED
        BY <1>2, <2>1, <2>2 DEF Agreeing
<1>31. CASE CheckFirst
  <2>1. up' \in {up, NoOps, Merged(up, doc')} /\ (NoteCrash => up' = NoOps)
        BY <1>31 DEF CheckFirst, TakeIn, Push, NoteCrash
  <2>2. job' = job
        BY <1>31 DEF CheckFirst
  <2>   QED
        BY <1>2, <2>1, <2>2 DEF Agreeing
<1>   QED
      BY <1>3, <1>4, <1>5, <1>6, <1>7, <1>8, <1>9, <1>10, <1>11, <1>12, <1>13, <1>14, <1>15, <1>16, <1>17, <1>18, <1>19, <1>20, <1>21, <1>22, <1>23, <1>24, <1>25, <1>26, <1>27, <1>28, <1>29, <1>30, <1>31 DEF NoteNext, Device

\* The deletions in a part of the document are in it, and those in a stored mark are stored.
LEMMA DelsKept ==
    ASSUME NInv, TInv, NoteNext
    PROVE  Dels'
<1>1. /\ store.doc.del \subseteq doc.del /\ up.del \subseteq doc.del
      /\ mark # NoText => mark.state.del \subseteq doc.del
      /\ store.mark # NoText => store.mark.state.del \subseteq store.doc.del
      BY DEF TInv, Dels
<1>2. /\ mark # NoText => mark \in Marks
      /\ store \in [doc : Doc, mark : Marks \cup {NoText}]
      BY DEF NInv, Shaped, NoteTypeOK
<1>3. CASE NoteCrash
  <2>1. up' = NoOps /\ mark' = NoText /\ doc' = store.doc /\ store' = store
        BY <1>3, PushesKept DEF TInv, NoteCrash, noteFiles
  <2>   QED
        BY <1>1, <2>1 DEF Dels, NoOps
<1>4. CASE ~NoteCrash
  <2>1. doc.del \subseteq doc'.del
    <3>1. CASE FoldIn
      <4>1. PICK t \in Text : doc' \in SetTexts(t)
            BY <3>1, FoldInFacts DEF NInv
      <4>2. \A d \in SetTexts(t) : doc.del \subseteq d.del
            BY DEF SetTexts
      <4>   QED
            BY <4>1, <4>2
    <3>2. CASE TakesIn
          BY <3>2 DEF TakesIn, Merged
    <3>   QED
          BY <1>4, <3>1, <3>2, Touches DEF NInv
  <2>2. up'.del \subseteq doc'.del
    <3>1. Merged(up, doc').del = up.del \cup doc'.del /\ NoOps.del = {}
          BY DEF Merged, NoOps
    <3>   QED
          BY <1>1, <2>1, <3>1, PushesKept DEF TInv
  <2>3. store'.doc.del \subseteq doc'.del
    <3>1. CASE StoreTakes
      <4>1. \/ store'.doc = doc \/ store'.doc = store.doc
            \/ mark # NoText /\ store'.doc = Merged(store.doc, mark.state)
            BY <1>2, <3>1 DEF StoreTakes
      <4>   QED
            BY <1>1, <2>1, <4>1 DEF Merged
    <3>   QED
          BY <1>1, <2>1, <3>1, Touches DEF NInv
  <2>4. store'.mark # NoText => store'.mark.state.del \subseteq store'.doc.del
    <3>1. CASE StoreTakes /\ store.mark = mark
          BY <1>1, <1>2, <3>1 DEF StoreTakes
    <3>2. CASE StoreTakes /\ store.mark # mark
      <4>1. CASE mark = NoText \/ Merged(mark.state, store.doc) = store.doc
        <5>1. store'.mark = mark /\ store'.doc = store.doc
              BY <1>2, <3>2, <4>1 DEF StoreTakes
        <5>2. mark # NoText => mark.state.del \subseteq store.doc.del
              BY <4>1 DEF Merged
        <5>   QED
              BY <5>1, <5>2
      <4>2. CASE ~(mark = NoText \/ Merged(mark.state, store.doc) = store.doc)
        <5>1. store'.mark = store.mark /\ store'.doc = Merged(store.doc, mark.state)
              BY <1>2, <3>2, <4>2 DEF StoreTakes
        <5>   QED
              BY <1>1, <5>1 DEF Merged
      <4>   QED
            BY <4>1, <4>2
    <3>   QED
          BY <1>1, <3>1, <3>2, Touches DEF NInv
  <2>5. mark' # NoText => mark'.state.del \subseteq doc'.del
    <3>1. CASE mark' \in {mark, NoText}
          BY <1>1, <2>1, <3>1
    <3>2. CASE mark' = store.mark
          BY <1>1, <2>1, <3>2
    <3>3. CASE MarkWrite /\ mark' \notin {mark, NoText}
      <4>1. mark'.state = doc
            BY <3>3 DEF MarkWrite, SetFolded
      <4>   QED
            BY <2>1, <4>1
    <3>4. CASE EndSnapshot
      <4>1. mark' # NoText => mark # NoText /\ mark' = [mark EXCEPT !.here = TRUE]
            BY <3>4 DEF EndSnapshot
      <4>2. mark' # NoText => mark # NoText /\ mark'.state = mark.state
            BY <1>2, <4>1 DEF Marks
      <4>   QED
            BY <1>1, <2>1, <4>2
    <3>   QED
          BY <3>1, <3>2, <3>3, <3>4, Touches DEF NInv
  <2>   QED
        BY <2>2, <2>3, <2>4, <2>5 DEF Dels
<1>   QED
      BY <1>3, <1>4

\* A mark that says more than the record is the stored one.
LEMMA ConfirmedKept ==
    ASSUME NInv, TInv, NoteNext, Calm'
    PROVE  Confirmed'
<1>1. Confirmed /\ ~coarse'
      BY HistoryGrows DEF NInv, TInv, Calm
<1>2. /\ open /\ mark # NoText /\ mark.here /\ mark.text # rec.folded => store.mark = mark
      /\ Writing => mark = NoText \/ ~mark.here
      /\ job.at = "folded" => ~LostMark
      BY <1>1 DEF Confirmed
<1>3. /\ job.at \in Folding \cup AfterFold => open
      /\ mark # NoText => mark \in Marks
      /\ open \in BOOLEAN
      BY DEF NInv, Shaped, NoteTypeOK, Folding, AfterFold
<1>4. NoJob.at = "none"
      BY DEF NoJob
<1>   USE DEF Writing, LostMark, Before, Folding, AfterFold
<1>5. CASE Quiet
      BY <1>2, <1>3, <1>4, <1>5 DEF Quiet, Confirmed
<1>6. CASE Saves
      BY <1>2, <1>3, <1>4, <1>6 DEF Saves, Confirmed
<1>7. CASE Serves
      BY <1>2, <1>3, <1>4, <1>7 DEF Serves, Confirmed
<1>8. CASE Stores
      BY <1>2, <1>3, <1>4, <1>8 DEF Stores, Confirmed
<1>9. CASE Persists
      BY <1>2, <1>3, <1>4, <1>9 DEF Persists, Confirmed
<1>10. CASE Crashes
      BY <1>2, <1>3, <1>4, <1>10 DEF Crashes, Confirmed
<1>11. CASE Refolds
  <2>1. PICK t \in Text : Refold(t) /\ FoldsStep(t)
        BY <1>11 DEF Refolds
  <2>2. /\ open' = open /\ rec'.folded = t
        /\ open => mark' = NoText \/ (mark' = mark /\ mark.text = t)
        BY <2>1 DEF Refold
  <2>3. (Writing)' => job' = job
        BY <1>4, <2>1 DEF FoldsStep, FoldsRead
  <2>4. job'.at = "folded" => open
        BY <1>3, <1>4, <2>1 DEF FoldsStep, FoldsRead
  <2>   QED
        BY <1>2, <1>3, <2>2, <2>3, <2>4 DEF Confirmed
<1>12. CASE Ponders
      BY <1>2, <1>3, <1>12 DEF Ponders, Confirmed, LostWrite
<1>13. CASE MarksWrite
      BY <1>2, <1>3, <1>4, <1>13 DEF MarksWrite, Confirmed
<1>14. CASE Looks
      BY <1>2, <1>3, <1>4, <1>14 DEF Looks, Confirmed
<1>15. CASE Writes
      BY <1>2, <1>3, <1>4, <1>15 DEF Writes, Confirmed
<1>16. CASE Confirms
  <2>1. mark' # NoText => mark'.text = job.text
        BY <1>3, <1>16 DEF Confirms, Marks
  <2>   QED
        BY <1>16, <2>1 DEF Confirms, Confirmed
<1>   QED
      BY <1>1, <1>5, <1>6, <1>7, <1>8, <1>9, <1>10, <1>11, <1>12, <1>13, <1>14, <1>15, <1>16, Moves DEF TInv

\* Unless it crashes, the document keeps its insertions.
LEMMA DocGrows ==
    ASSUME NInv, NoteNext, Quiet \/ Refolds
    PROVE  doc.ins \subseteq doc'.ins
<1>1. doc' = doc \/ TakesIn \/ FoldIn
      BY DEF Quiet, Refolds, FoldsStep, FoldsRead
<1>2. TakesIn => doc.ins \subseteq doc'.ins
      BY DEF TakesIn, Merged
<1>3. FoldIn => doc.ins \subseteq doc'.ins
      BY FoldInFacts, SetTextsFacts DEF NInv
<1>   QED
      BY <1>1, <1>2, <1>3

\* A text that counts as folded has what the disk has, and the document has what it has.
LEMMA RefoldFacts ==
    ASSUME NInv, NInv', TInv, NoteNext, Calm', NEW l \in Watched',
           NEW t \in Text, Refold(t), FoldsStep(t)
    PROVE  /\ t[l] \in Nat
           /\ disk[l] > 0 /\ Held(l)' => t[l] > 0
           /\ t[l] > 0 => In(l, doc')
           /\ In(l, doc) => In(l, doc')
           /\ LostMark' => ~open /\ (disk[l] > 0 /\ t[l] > 0 => Before'.text[l] > 0)
<1>1. l \in Line /\ Clear(l) /\ ~coarse'
      BY Scene
<1>2. /\ UNCHANGED <<disk, open, store, saved, server>> /\ rec'.folded = t
      /\ mark' = IF open /\ mark # NoText /\ mark.text # t THEN NoText ELSE mark
      BY DEF Refold
<1>3. t[l] \in Nat /\ t # NoText
      BY <1>1, NoteAssumption DEF Text
<1>4. t[l] > 0 => Held(l)'
      BY <1>1, <1>2, <1>3 DEF NInv, Records
<1>5. doc.ins \subseteq doc'.ins
      BY DocGrows DEF Refolds
<1>6. In(l, doc) => In(l, doc')
      BY <1>5 DEF In
<1>7. /\ disk[l] > 0 /\ Held(l) => In(l, doc)
      /\ job.at \in Scanned => (job.read[l] = 0 /\ disk[l] > 0 => ~Held(l))
      /\ job.at \in Folding /\ job.read[l] > 0 /\ Held(l) => In(l, doc)
      /\ job.at \in {"folded", "look", "write"} /\ job.read[l] > 0 => In(l, doc)
      BY <1>1 DEF Clear, Told, Read
<1>8. (disk[l] > 0 /\ Held(l)' => t[l] > 0) /\ (t[l] > 0 => In(l, doc'))
  <2>1. CASE doc' = doc
    <3>1. Held(l)' <=> Held(l)
          BY <1>2, <2>1 DEF Held
    <3>2. CASE t = disk
          BY <1>3, <1>4, <1>7, <2>1, <3>1, <3>2
    <3>3. CASE t = job.read /\ job.at \in {"fold", "hash", "look", "folded"}
      <4>1. job.at \in Folding \/ job.at \in {"folded", "look", "write"}
            BY <3>3 DEF Folding
      <4>2. job.at \in Scanned
            BY <3>3 DEF Scanned, Folding
      <4>   QED
            BY <1>3, <1>4, <1>7, <2>1, <3>1, <3>3, <4>1, <4>2
    <3>4. CASE FoldIn /\ job.at = "merge" /\ t = job.read
      <4>1. job.at \in Folding /\ job.at \in Scanned
            BY <3>4 DEF Folding, Scanned
      <4>   QED
            BY <1>3, <1>4, <1>7, <2>1, <3>1, <3>4, <4>1
    <3>   QED
          BY <3>2, <3>3, <3>4 DEF FoldsStep, FoldsRead
  <2>2. CASE doc' # doc
    <3>1. FoldIn /\ job.at = "merge" /\ t = job.read
          BY <2>2 DEF FoldsStep, FoldsRead
    <3>2. /\ In(l, doc') => In(l, doc) \/ (job.read[l] > 0 /\ ~Held(l))
          /\ job.read[l] > 0 => In(l, doc')
          BY <1>1, <3>1, FoldInLine
    <3>3. job.at \in Scanned
          BY <3>1 DEF Scanned, Folding
    <3>4. Held(l)' => In(l, doc') \/ In(l, server)
          BY <1>2 DEF Held
    <3>5. Held(l)' => Held(l) \/ job.read[l] > 0
          BY <3>2, <3>4 DEF Held
    <3>   QED
          BY <1>3, <1>7, <3>1, <3>2, <3>3, <3>5
  <2>   QED
        BY <2>1, <2>2
<1>9. LostMark' => ~open /\ (disk[l] > 0 /\ t[l] > 0 => Before'.text[l] > 0)
  <2>1. SUFFICES ASSUME LostMark'
                 PROVE  ~open /\ (disk[l] > 0 /\ t[l] > 0 => Before'.text[l] > 0)
        OBVIOUS
  <2>2. ~open
        BY <1>2, <2>1 DEF LostMark, Before
  <2>3. /\ Before' = store.mark /\ store.mark # NoText /\ store.mark.here
        /\ store.mark.over = t
        BY <1>2, <2>1, <2>2 DEF LostMark, Before
  <2>4. /\ Has(store.mark.over, l) => In(l, store.mark.state)
        /\ store.mark.here /\ store.mark.text[l] = 0 /\ In(l, store.mark.state) => disk[l] = 0
        BY <1>1, <2>3 DEF Clear, Marked, TheMarks
  <2>5. store.mark.text[l] \in Nat
        BY <1>1, <2>3, LineCounts
  <2>   QED
        BY <1>3, <2>2, <2>3, <2>4, <2>5 DEF Has
<1>   QED
      BY <1>3, <1>6, <1>8, <1>9

\* What the record tells of the disk, after a crash: what it told before, or the mark does.
LEMMA ToldAfterCrash ==
    ASSUME NInv, TInv, NoteNext, Calm', NEW l \in Watched', Crashes
    PROVE  Told(l)'
<1>1. l \in Line /\ Clear(l) /\ Confirmed
      BY Scene, HistoryGrows DEF NInv, TInv, Calm
<1>2. /\ ~open' /\ doc' = store.doc /\ mark' = NoText /\ rec' = saved
      /\ UNCHANGED <<disk, store, saved, server>>
      /\ job.at # "wrote" /\ (saved.folded = rec.folded \/ (saved.folded # rec.folded /\ MarkStands))
      BY DEF Crashes, Calm
<1>3. /\ disk[l] > 0 /\ l \notin Mine => Held(l)
      /\ disk[l] > 0 /\ Held(l) => In(l, doc)
      /\ Has(saved.folded, l) => In(l, store.doc)
      /\ disk[l] > 0 /\ Held(l) =>
          /\ rec.folded # NoText /\ rec.folded[l] = 0 => LostMark /\ saved = rec
          /\ rec.folded = NoText => In(l, store.doc)
          /\ LostMark => Before.text[l] > 0
      BY <1>1, <1>2 DEF Clear, Told
<1>4. /\ disk[l] \in Nat
      /\ rec.folded # NoText => rec.folded[l] \in Nat
      /\ saved.folded # NoText => saved.folded[l] \in Nat
      /\ store.mark # NoText => store.mark.text[l] \in Nat
      BY <1>1, LineCounts
<1>5. Held(l)' => Held(l)
      BY <1>2 DEF Held, In, NInv, Docs
\* A mark that is lost is the stored one.
<1>6. LostMark => Before = store.mark
      BY <1>1 DEF Confirmed, LostMark, Before
<1>7. store.mark # NoText /\ store.mark.text[l] > 0 => In(l, store.doc)
      BY <1>1 DEF NInv, MarksHeld, MarkOf, In
<1>8. disk[l] > 0 /\ Held(l) => In(l, store.doc)
  <2>1. SUFFICES ASSUME disk[l] > 0, Held(l)
                 PROVE  In(l, store.doc)
        OBVIOUS
  <2>2. CASE rec.folded = NoText
        BY <1>3, <2>1, <2>2
  <2>3. CASE rec.folded # NoText /\ rec.folded[l] = 0
    <3>1. LostMark /\ Before.text[l] > 0
          BY <1>3, <2>1, <2>3
    <3>   QED
          BY <1>6, <1>7, <3>1 DEF LostMark
  <2>4. CASE rec.folded # NoText /\ rec.folded[l] > 0
    <3>1. CASE saved.folded = rec.folded
          BY <1>3, <2>4, <3>1 DEF Has
    <3>2. CASE MarkStands
          BY <1>7, <2>4, <3>2 DEF MarkStands
    <3>   QED
          BY <1>2, <3>1, <3>2
  <2>   QED
        BY <1>4, <2>2, <2>3, <2>4
<1>9. ASSUME disk[l] > 0, Held(l), saved.folded # NoText, saved.folded[l] = 0
      PROVE  LostMark'
  <2>1. CASE saved.folded = rec.folded
    <3>1. LostMark /\ saved = rec
          BY <1>3, <1>9, <2>1
    <3>   QED
          BY <1>2, <1>6, <3>1 DEF LostMark, Before
  <2>2. CASE saved.folded # rec.folded /\ MarkStands
        BY <1>2, <2>2 DEF LostMark, Before, MarkStands
  <2>   QED
        BY <1>2, <2>1, <2>2
<1>10. ASSUME disk[l] > 0, Held(l), LostMark'
       PROVE  Before'.text[l] > 0
  <2>1. /\ Before' = store.mark /\ store.mark # NoText /\ store.mark.here
        /\ store.mark.text # saved.folded /\ store.mark.over = saved.folded
        BY <1>2, <1>10 DEF LostMark, Before
  <2>2. SUFFICES ASSUME store.mark.text[l] = 0
                 PROVE  FALSE
        BY <1>4, <2>1
  <2>3. /\ Has(store.mark.over, l) => In(l, store.mark.state)
        /\ ~In(l, store.mark.state)
        /\ ~(store.mark.over = NoText /\ rec.folded = NoText)
        BY <1>1, <1>2, <1>4, <1>10, <2>1, <2>2 DEF Clear, Marked, TheMarks
  <2>4. saved.folded = NoText \/ saved.folded[l] = 0
        BY <1>4, <2>1, <2>3 DEF Has
  <2>5. CASE saved.folded = rec.folded
    <3>1. rec.folded # NoText /\ rec.folded[l] = 0
          BY <2>1, <2>3, <2>4, <2>5
    <3>   QED
          BY <1>3, <1>6, <1>10, <2>2, <3>1
  <2>6. CASE saved.folded # rec.folded /\ MarkStands
    <3>1. store.mark.text = rec.folded /\ rec.folded # NoText
      <4>1. store.mark.text = rec.folded
            BY <2>6 DEF MarkStands
      <4>2. store.mark.text \in Text
            BY <2>1 DEF NInv, Shaped, NoteTypeOK, Marks
      <4>   QED
            BY <4>1, <4>2, NoteAssumption
    <3>2. saved = rec
          BY <1>3, <1>10, <2>2, <3>1
    <3>   QED
          BY <2>6, <3>2
  <2>   QED
        BY <1>2, <2>5, <2>6
<1>11. disk'[l] > 0 /\ l \notin Mine => Held(l)'
  <2>1. disk[l] > 0 /\ l \notin Mine => In(l, store.doc)
        BY <1>3, <1>8
  <2>   QED
        BY <1>2, <2>1 DEF Held
<1>   QED
      BY <1>2, <1>3, <1>5, <1>8, <1>9, <1>10, <1>11 DEF Told

\* What the disk has of the notes' documents is in the record of the last fold, or in the mark.
LEMMA ToldKept ==
    ASSUME NInv, NInv', TInv, NoteNext, Calm', NEW l \in Watched'
    PROVE  Told(l)'
<1>1. l \in Line /\ Clear(l) /\ Confirmed /\ ~coarse'
      BY Scene, HistoryGrows DEF NInv, TInv, Calm
<1>2. /\ disk[l] > 0 /\ l \notin Mine => Held(l)
      /\ disk[l] > 0 /\ Held(l) => In(l, doc)
      /\ Has(rec.folded, l) => In(l, doc)
      /\ Has(saved.folded, l) => In(l, store.doc)
      /\ job.at # "wrote" /\ disk[l] > 0 /\ Held(l) =>
          /\ rec.folded # NoText /\ rec.folded[l] = 0 => LostMark /\ saved = rec
          /\ rec.folded = NoText => In(l, store.doc)
          /\ LostMark => Before.text[l] > 0
      BY <1>1 DEF Clear, Told
<1>3. /\ disk[l] \in Nat /\ disk \in Text
      /\ mark # NoText => mark \in Marks
      /\ open \in BOOLEAN
      /\ job.at \in Folding \cup AfterFold => open
      /\ NoJob.at = "none"
      BY <1>1, LineCounts DEF NInv, Shaped, NoteTypeOK, NoJob
<1>4. In(l, store.doc) => In(l, store'.doc)
      BY Grows DEF NInv, In
<1>5. "none" \notin Folding \cup AfterFold /\ "wrote" \in AfterFold /\ "folded" \in AfterFold
      BY DEF Folding, AfterFold
<1>6. CASE Quiet
  <2>1. (Held(l)' => Held(l)) /\ (In(l, doc) => In(l, doc'))
    <3>1. \A o \in doc'.ins : o \in doc.ins \/ o \in server.ins
          BY <1>6, Grows DEF NInv, Quiet
    <3>2. doc.ins \subseteq doc'.ins
          BY <1>6, DocGrows
    <3>   QED
          BY <1>6, <3>1, <3>2 DEF Quiet, Held, In
  <2>2. /\ UNCHANGED <<disk, store, saved, rec, server>> /\ Before' = Before
        /\ LostMark' <=> LostMark
        BY <1>3, <1>6 DEF Quiet, LostMark, Before
  <2>3. In(l, doc) => Held(l)'
        BY <2>1 DEF Held
  <2>4. Held(l) => Held(l)'
        BY <2>2, <2>3 DEF Held
  <2>5. job'.at # "wrote" => job.at # "wrote"
        BY <1>6 DEF Quiet
  <2>   QED
        BY <1>2, <2>1, <2>2, <2>4, <2>5 DEF Told
<1>7. CASE Saves
  <2>1. PICK k \in Line :
          \/ k \in Mine /\ ~Held(k) /\ disk' = [disk EXCEPT ![k] = 1]
          \/ disk' = [disk EXCEPT ![k] = 0]
        BY <1>7 DEF Saves
  <2>2. UNCHANGED <<doc, open, mark, store, rec, saved, server, job>>
        BY <1>7 DEF Saves
  <2>3. /\ Held(l)' <=> Held(l)
        /\ LostMark' <=> LostMark
        /\ Before' = Before
        BY <2>2 DEF Held, LostMark, Before
  <2>4. disk'[l] = disk[l] \/ disk'[l] = 0 \/ (l \in Mine /\ ~Held(l))
        BY <1>1, <1>3, <2>1 DEF Text
  <2>   QED
        BY <1>2, <2>2, <2>3, <2>4 DEF Told
<1>8. CASE Serves
  <2>1. UNCHANGED <<disk, doc, open, mark, store, rec, saved, job>>
        BY <1>8 DEF Serves
  <2>2. /\ LostMark' <=> LostMark
        /\ Before' = Before
        BY <2>1 DEF LostMark, Before
  <2>3. Held(l)' => Held(l) \/ l \in Theirs
        BY <1>8, <2>1 DEF Serves, Held, In
  <2>4. l \in Theirs => l \notin Mine
        BY NoteAssumption
  <2>5. Held(l) => Held(l)'
        BY <2>1, Grows DEF NInv, Held, In
  <2>   QED
        BY <1>2, <2>1, <2>2, <2>3, <2>4, <2>5 DEF Told
<1>9. CASE Stores
  <2>1. UNCHANGED <<disk, doc, open, mark, rec, saved, server, job>> /\ open
        BY <1>9 DEF Stores
  <2>2. /\ Held(l)' <=> Held(l)
        /\ LostMark' <=> LostMark
        /\ Before' = Before
        BY <2>1 DEF Held, LostMark, Before
  <2>   QED
        BY <1>2, <1>4, <2>1, <2>2 DEF Told
<1>10. CASE Persists
  <2>1. UNCHANGED <<disk, doc, open, mark, store, rec, server, job>> /\ saved' = rec
        BY <1>10 DEF Persists
  <2>2. /\ Held(l)' <=> Held(l)
        /\ LostMark' <=> LostMark
        /\ Before' = Before
        BY <2>1 DEF Held, LostMark, Before
  <2>3. store.doc = doc
        BY <1>10 DEF Persists, NInv, Shaped
  <2>   QED
        BY <1>2, <2>1, <2>2, <2>3 DEF Told
<1>11. CASE Crashes
      BY <1>11, ToldAfterCrash
<1>12. CASE Refolds
  <2>1. PICK t \in Text : Refold(t) /\ FoldsStep(t)
        BY <1>12 DEF Refolds
  <2>2. /\ t[l] \in Nat
        /\ disk[l] > 0 /\ Held(l)' => t[l] > 0
        /\ t[l] > 0 => In(l, doc')
        /\ In(l, doc) => In(l, doc')
        /\ LostMark' => ~open /\ (disk[l] > 0 /\ t[l] > 0 => Before'.text[l] > 0)
        BY <2>1, RefoldFacts
  <2>3. UNCHANGED <<disk, open, store, saved, server>> /\ rec'.folded = t /\ t # NoText
        BY <2>1, NoteAssumption DEF Refold
  <2>4. disk[l] > 0 /\ l \notin Mine => Held(l)'
        BY <1>2, <2>2 DEF Held
  <2>5. Has(rec'.folded, l) => In(l, doc')
        BY <2>2, <2>3 DEF Has
  <2>   QED
        BY <1>2, <2>2, <2>3, <2>4, <2>5 DEF Told
<1>13. CASE Ponders
  <2>1. UNCHANGED <<disk, doc, open, mark, store, rec, saved, server>> /\ job.at # "wrote"
        BY <1>13 DEF Ponders
  <2>2. /\ Held(l)' <=> Held(l)
        /\ LostMark' <=> LostMark
        /\ Before' = Before
        BY <2>1 DEF Held, LostMark, Before
  <2>   QED
        BY <1>2, <2>1, <2>2 DEF Told
<1>14. CASE MarksWrite
  <2>1. UNCHANGED <<disk, doc, open, store, rec, saved, server>> /\ job.at = "folded"
        BY <1>14 DEF MarksWrite
  <2>2. ~LostMark
        BY <1>1, <2>1 DEF Confirmed
  <2>3. ~mark'.here /\ open
        BY <1>3, <1>5, <1>14 DEF MarksWrite
  <2>4. ~LostMark' /\ (Held(l)' <=> Held(l))
        BY <2>1, <2>3 DEF LostMark, Before, Held
  <2>   QED
        BY <1>2, <2>1, <2>2, <2>4 DEF Told
<1>15. CASE Looks
  <2>1. /\ UNCHANGED <<disk, doc, open, mark, store, saved, server>>
        /\ job.at = "look" /\ rec'.folded = rec.folded
        BY <1>15 DEF Looks
  <2>2. open /\ (mark = NoText \/ ~mark.here)
        BY <1>1, <1>3, <2>1 DEF Confirmed, Writing, AfterFold
  <2>3. ~LostMark /\ ~LostMark' /\ (Held(l)' <=> Held(l))
        BY <2>1, <2>2 DEF LostMark, Before, Held
  <2>   QED
        BY <1>2, <2>1, <2>3 DEF Told
<1>16. CASE Writes
  <2>1. /\ UNCHANGED <<doc, open, mark, store, rec, saved, server>>
        /\ job.at = "write" /\ job'.at = "wrote" /\ disk' = job.text
        BY <1>16 DEF Writes
  <2>2. job.text[l] > 0 => In(l, doc)
        BY <1>1, <2>1 DEF Clear, Read, Writing
  <2>3. In(l, doc) => Held(l)'
        BY <2>1 DEF Held
  <2>   QED
        BY <1>2, <2>1, <2>2, <2>3 DEF Told
<1>17. CASE Confirms
  <2>1. /\ UNCHANGED <<disk, doc, open, store, saved, server>>
        /\ job.at = "wrote" /\ rec'.folded = job.text
        BY <1>17 DEF Confirms
  <2>2. /\ job.text[l] > 0 => In(l, doc)
        /\ disk[l] > 0 /\ Held(l) => job.text[l] > 0
        BY <1>1, <2>1 DEF Clear, Read, Writing
  <2>3. open /\ job.text # NoText
        BY <1>1, <1>3, <1>5, <2>1, LineCounts, NoteAssumption
  <2>4. mark' # NoText => mark'.text = job.text
        BY <1>3, <1>17 DEF Confirms, Marks
  <2>5. ~LostMark' /\ (Held(l)' <=> Held(l))
        BY <2>1, <2>3, <2>4 DEF LostMark, Before, Held
  <2>   QED
        BY <1>2, <2>1, <2>2, <2>3, <2>5 DEF Told, Has
<1>   QED
      BY <1>1, <1>6, <1>7, <1>8, <1>9, <1>10, <1>11, <1>12, <1>13, <1>14, <1>15, <1>16, <1>17,
         Moves DEF TInv

\* What a mark tells is of what its document has; and of a line it misses, deleted there.
LEMMA MarkFacts ==
    ASSUME NInv, TInv, NEW l \in Line, Clear(l), NEW m \in TheMarks
    PROVE  /\ m \in Marks /\ m.text[l] \in Nat
           /\ In(l, m.state) => In(l, doc) /\ Held(l)
           /\ m.text[l] = 0 /\ In(l, m.state) => TextOf(doc)[l] = 0
<1>1. m \in {mark, store.mark} /\ m # NoText
      BY DEF TheMarks
<1>2. m \in Marks /\ m.text[l] \in Nat
      BY <1>1, LineCounts
<1>3. m.state.ins \subseteq doc.ins /\ m.state.del \subseteq doc.del
      BY <1>1 DEF NInv, MarksHeld, MarkOf, Docs, TInv, Dels
<1>4. In(l, m.state) => In(l, doc) /\ Held(l)
      BY <1>3 DEF In, Held
<1>5. m.text[l] = 0 /\ In(l, m.state) => TextOf(doc)[l] = 0
  <2>1. m.text[l] = 0 /\ In(l, m.state) => <<l, 1>> \in doc.del
        BY <1>3 DEF Clear, Marked
  <2>2. doc \in Doc /\ \A o \in doc.ins : o[1] = l => o = <<l, 1>>
        BY DocTexts DEF NInv, Clear, Single
  <2>3. TextOf(doc)[l] = IF <<l, 1>> \in doc.ins \ doc.del THEN 1 ELSE 0
        BY <2>2, TextSingle
  <2>   QED
        BY <2>1, <2>3
<1>   QED
      BY <1>2, <1>4, <1>5

\* What the marks tell stays true.
LEMMA MarkedKept ==
    ASSUME NInv, NInv', TInv, NoteNext, Calm', NEW l \in Watched'
    PROVE  Marked(l)'
<1>1. l \in Line /\ Clear(l) /\ Confirmed /\ ~coarse'
      BY Scene, HistoryGrows DEF NInv, TInv, Calm
<1>2. /\ disk[l] > 0 /\ l \notin Mine => Held(l)
      /\ Has(rec.folded, l) => In(l, doc)
      /\ job.at # "wrote" /\ disk[l] > 0 /\ Held(l) =>
            (rec.folded # NoText /\ rec.folded[l] = 0 => saved = rec)
      BY <1>1 DEF Clear, Told
<1>3. /\ disk[l] \in Nat /\ disk \in Text
      /\ mark # NoText => mark \in Marks
      /\ open \in BOOLEAN
      /\ job.at \in Folding \cup AfterFold => open
      /\ NoJob.at = "none"
      BY <1>1, LineCounts DEF NInv, Shaped, NoteTypeOK, NoJob
<1>   DEFINE Old(m) ==
                /\ Has(m.over, l) => In(l, m.state)
                /\ m.text[l] = 0 /\ In(l, m.state) => <<l, 1>> \in m.state.del
             Gone(m) == m.here /\ m.text[l] = 0 /\ In(l, m.state)
             Bare(m) == m.here /\ m.text[l] = 0 /\ m.over = NoText
<1>4. ASSUME NEW m \in TheMarks
      PROVE  /\ Old(m)
             /\ Gone(m) => disk[l] = 0 /\ (Writing => job.text[l] = 0)
             /\ Bare(m) /\ rec.folded = NoText /\ job.at # "wrote" => disk[l] = 0 \/ ~Held(l)
             /\ Gone(m) => Held(l) /\ TextOf(doc)[l] = 0
      BY <1>1, MarkFacts DEF Clear, Marked
<1>   HIDE DEF Old, Gone, Bare
<1>5. ASSUME \A m \in (TheMarks)' :
                /\ Old(m)
                /\ Gone(m) => disk'[l] = 0 /\ ((Writing)' => job'.text[l] = 0)
                /\ Bare(m) /\ rec'.folded = NoText /\ job'.at # "wrote" => disk'[l] = 0 \/ ~Held(l)'
      PROVE  Marked(l)'
      BY <1>5 DEF Marked, Old, Gone, Bare
<1>   USE DEF Writing
<1>6. CASE Quiet
  <2>1. Held(l)' => Held(l)
    <3>1. \A o \in doc'.ins : o \in doc.ins \/ o \in server.ins
          BY <1>6, Grows DEF NInv, Quiet
    <3>   QED
          BY <1>6, <3>1 DEF Quiet, Held, In
  <2>2. (TheMarks)' \subseteq TheMarks
        BY <1>6 DEF Quiet, TheMarks
  <2>3. /\ UNCHANGED <<disk, rec>> /\ ((Writing)' => job' = job)
        /\ job'.at # "wrote" => job.at # "wrote"
        BY <1>6 DEF Quiet, AfterFold
  <2>   QED
        BY <1>4, <1>5, <2>1, <2>2, <2>3
<1>7. CASE Saves
  <2>1. PICK k \in Line :
          \/ k \in Mine /\ ~Held(k) /\ disk' = [disk EXCEPT ![k] = 1]
          \/ disk' = [disk EXCEPT ![k] = 0]
        BY <1>7 DEF Saves
  <2>2. UNCHANGED <<doc, mark, store, rec, server, job>>
        BY <1>7 DEF Saves
  <2>3. (Held(l)' <=> Held(l)) /\ (TheMarks)' = TheMarks
        BY <2>2 DEF Held, TheMarks
  <2>4. disk'[l] = disk[l] \/ disk'[l] = 0 \/ ~Held(l)
        BY <1>1, <1>3, <2>1 DEF Text
  <2>   QED
        BY <1>4, <1>5, <2>2, <2>3, <2>4
<1>8. CASE Serves
  <2>1. UNCHANGED <<disk, doc, mark, store, rec, job>>
        BY <1>8 DEF Serves
  <2>2. Held(l)' => Held(l) \/ l \in Theirs
        BY <1>8, <2>1 DEF Serves, Held, In
  <2>3. l \in Theirs => l \notin Mine
        BY NoteAssumption
  <2>4. disk'[l] = 0 \/ (Held(l)' => Held(l))
        BY <1>2, <1>3, <2>1, <2>2, <2>3
  <2>5. (TheMarks)' = TheMarks
        BY <2>1 DEF TheMarks
  <2>   QED
        BY <1>4, <1>5, <2>1, <2>4, <2>5
<1>9. CASE Stores \/ Persists \/ Ponders
  <2>1. UNCHANGED <<disk, doc, mark, rec, server>>
        BY <1>9 DEF Stores, Persists, Ponders
  <2>2. (Held(l)' <=> Held(l)) /\ (TheMarks)' \subseteq TheMarks
        BY <1>9, <2>1 DEF Held, TheMarks, Stores, Persists, Ponders
  <2>3. job' = job \/ (job.at # "wrote" /\ ~(Writing)')
        BY <1>9 DEF Stores, Persists, Ponders
  <2>   QED
        BY <1>4, <1>5, <2>1, <2>2, <2>3
<1>10. CASE Crashes
  <2>1. /\ doc' = store.doc /\ mark' = NoText /\ rec' = saved /\ job' = NoJob
        /\ UNCHANGED <<disk, store, saved, server>>
        /\ job.at # "wrote" /\ (saved.folded = rec.folded \/ (saved.folded # rec.folded /\ MarkStands))
        BY <1>10 DEF Crashes, Calm
  <2>2. Held(l)' => Held(l)
        BY <2>1 DEF Held, In, NInv, Docs
  <2>3. ASSUME NEW m \in (TheMarks)', Bare(m), rec'.folded = NoText
        PROVE  disk[l] = 0 \/ ~Held(l)
    <3>1. m = store.mark /\ m \in TheMarks /\ m # NoText
          BY <2>1, <2>3 DEF TheMarks
    <3>2. CASE rec.folded = NoText
          BY <1>4, <2>1, <2>3, <3>1, <3>2
    <3>3. CASE rec.folded # NoText
      <4>1. m.text = rec.folded /\ m.text[l] = 0
            BY <2>1, <2>3, <3>1, <3>3 DEF MarkStands, Bare
      <4>   QED
            BY <1>2, <1>3, <2>1, <2>3, <3>3, <4>1
    <3>   QED
          BY <3>2, <3>3
  <2>4. (TheMarks)' \subseteq TheMarks /\ ~(Writing)'
        BY <1>3, <2>1 DEF TheMarks
  <2>   QED
        BY <1>4, <1>5, <2>1, <2>2, <2>3, <2>4
<1>11. CASE Refolds
  <2>1. PICK t \in Text : Refold(t) /\ FoldsStep(t)
        BY <1>11 DEF Refolds
  <2>2. disk' = disk /\ rec'.folded # NoText /\ (TheMarks)' \subseteq TheMarks
        BY <2>1, NoteAssumption DEF Refold, TheMarks
  <2>3. (Writing)' => job' = job
        BY <1>3, <2>1 DEF FoldsStep, FoldsRead
  <2>   QED
        BY <1>4, <1>5, <2>2, <2>3
<1>12. CASE MarksWrite
  <2>1. /\ UNCHANGED <<disk, doc, store, rec, server>> /\ job.at = "folded"
        /\ job'.text = TextOf(doc)
        BY <1>12 DEF MarksWrite
  <2>2. /\ mark'.over = rec.folded /\ mark'.text = TextOf(doc) /\ mark'.state = doc /\ ~mark'.here
        BY <1>12 DEF MarksWrite
  <2>3. TextOf(doc)[l] = 0 /\ In(l, doc) => <<l, 1>> \in doc.del
    <3>1. doc \in Doc /\ \A o \in doc.ins : o[1] = l => o = <<l, 1>>
          BY <1>1, DocTexts DEF NInv, Clear, Single
    <3>2. /\ TextOf(doc)[l] = IF <<l, 1>> \in doc.ins \ doc.del THEN 1 ELSE 0
          /\ In(l, doc) <=> <<l, 1>> \in doc.ins
          BY <1>1, <3>1, TextSingle
    <3>   QED
          BY <3>2
  <2>4. Old(mark') /\ ~Gone(mark') /\ ~Bare(mark')
        BY <1>2, <2>2, <2>3 DEF Old, Gone, Bare
  <2>5. (TheMarks)' \subseteq TheMarks \cup {mark'}
        BY <2>1 DEF TheMarks
  <2>6. Held(l)' <=> Held(l)
        BY <2>1 DEF Held
  <2>   QED
        BY <1>4, <1>5, <2>1, <2>4, <2>5, <2>6
<1>13. CASE Looks
  <2>1. /\ UNCHANGED <<disk, doc, mark, store, server>> /\ rec'.folded = rec.folded
        /\ job.at = "look" /\ job'.text = job.text
        BY <1>13 DEF Looks
  <2>2. (Held(l)' <=> Held(l)) /\ (TheMarks)' = TheMarks
        BY <2>1 DEF Held, TheMarks
  <2>   QED
        BY <1>4, <1>5, <2>1, <2>2
<1>14. CASE Writes
  <2>1. /\ UNCHANGED <<mark, store>> /\ job.at = "write" /\ job'.at = "wrote"
        /\ job'.text = job.text /\ disk' = job.text
        BY <1>14 DEF Writes
  <2>2. (TheMarks)' = TheMarks
        BY <2>1 DEF TheMarks
  <2>   QED
        BY <1>4, <1>5, <2>1, <2>2
<1>15. CASE Confirms
  <2>1. /\ UNCHANGED <<disk, doc, store, server>> /\ job.at = "wrote" /\ job'.at = "none"
        /\ rec'.folded = job.text
        BY <1>15 DEF Confirms
  <2>2. rec'.folded # NoText
        BY <1>1, <2>1, LineCounts, NoteAssumption
  <2>3. disk[l] > 0 /\ Held(l) => job.text[l] > 0
        BY <1>1, <2>1 DEF Clear, Read
  <2>4. ASSUME mark' # NoText
        PROVE  Old(mark') /\ (Gone(mark') => disk[l] = 0)
    <3>1. mark # NoText /\ mark.text = job.text /\ mark' = [mark EXCEPT !.here = TRUE]
          BY <1>15, <2>4 DEF Confirms
    <3>2. mark'.text = job.text /\ mark'.over = mark.over /\ mark'.state = mark.state
          BY <1>3, <3>1 DEF Marks
    <3>3. mark \in TheMarks
          BY <3>1 DEF TheMarks
    <3>4. Old(mark')
          BY <1>4, <3>1, <3>2, <3>3 DEF Old
    <3>5. In(l, mark.state) => Held(l)
          BY <1>1, <3>3, MarkFacts
    <3>6. Gone(mark') => disk[l] = 0
          BY <1>3, <2>3, <3>2, <3>5 DEF Gone
    <3>   QED
          BY <3>4, <3>6
  <2>5. (TheMarks)' \subseteq TheMarks \cup {mark'} /\ NoText \notin (TheMarks)'
        BY <2>1 DEF TheMarks
  <2>6. ASSUME NEW m \in (TheMarks)'
        PROVE  Old(m) /\ (Gone(m) => disk[l] = 0)
        BY <1>4, <2>4, <2>5, <2>6
  <2>7. ~(Writing)'
        BY <2>1
  <2>   QED
        BY <1>5, <2>1, <2>2, <2>6, <2>7
<1>   QED
      BY <1>1, <1>6, <1>7, <1>8, <1>9, <1>10, <1>11, <1>12, <1>13, <1>14, <1>15, Moves DEF TInv

\* A disk read right after what the record tells of it.
LEMMA FreshRead ==
    ASSUME NEW l \in Line, NInv', Told(l)', job'.at = "fold", job'.read = disk'
    PROVE  Read(l)'
<1>1. disk'[l] \in Nat
      BY DEF NInv, Shaped, NoteTypeOK, Text
<1>2. /\ disk'[l] > 0 /\ l \notin Mine => Held(l)'
      /\ disk'[l] > 0 /\ Held(l)' => In(l, doc')
      /\ disk'[l] > 0 /\ Held(l)' =>
          /\ rec'.folded # NoText /\ rec'.folded[l] = 0 => LostMark'
          /\ LostMark' => Before'.text[l] > 0
      BY DEF Told
<1>3. ~(Writing)' /\ job'.at \notin {"folded", "look", "write", "wrote", "merge"}
      BY DEF Writing
<1>   QED
      BY <1>1, <1>2, <1>3 DEF Read

\* What the handler read and merges, and what it is about to write, it has in the document.
LEMMA ReadKept ==
    ASSUME NInv, NInv', TInv, NoteNext, Calm', NEW l \in Watched'
    PROVE  Read(l)'
<1>1. l \in Line /\ Clear(l) /\ Confirmed /\ ~coarse'
      BY Scene, HistoryGrows DEF NInv, TInv, Calm
<1>2. /\ disk[l] > 0 /\ l \notin Mine => Held(l)
      /\ disk[l] \in Nat /\ disk \in Text
      /\ open \in BOOLEAN
      /\ job.at \in Folding \cup AfterFold => open /\ job.read[l] \in Nat
      BY <1>1, LineCounts DEF NInv, Shaped, NoteTypeOK, Clear, Told
<1>3. /\ job.at \in Scanned => /\ job.read[l] = 0 /\ disk[l] > 0 => ~Held(l)
                               /\ job.read[l] > 0 /\ l \notin Mine => Held(l)
      /\ job.at \in Folding /\ job.read[l] > 0 /\ Held(l) => In(l, doc)
      /\ job.at \in {"folded", "look", "write"} /\ job.read[l] > 0 => In(l, doc)
      /\ job.at \in {"fold", "hash"} /\ job.read[l] > 0 /\ Held(l) =>
            /\ rec.folded # NoText /\ rec.folded[l] = 0 => LostMark
            /\ LostMark => Before.text[l] > 0
      /\ job.at = "merge" /\ job.read[l] > 0 /\ job.text[l] = 0 => ~Held(l)
      /\ Writing /\ job.text[l] > 0 => In(l, doc)
      /\ job.at = "wrote" /\ disk[l] > 0 /\ Held(l) => job.text[l] > 0
      BY <1>1 DEF Clear, Read
<1>   DEFINE Busy == Folding \cup AfterFold
<1>4. /\ Folding = {"fold", "hash", "merge", "blindMerge"}
      /\ Scanned = {"fold", "hash", "merge", "blindMerge", "folded", "look", "write"}
      /\ Busy = {"fold", "hash", "merge", "blindMerge", "folded", "look", "write", "wrote"}
      /\ (Writing)' <=> job'.at \in {"look", "write", "wrote"}
      /\ Writing <=> job.at \in {"look", "write", "wrote"}
      BY DEF Folding, AfterFold, Scanned, Writing
<1>5. ASSUME job'.at \notin Busy
      PROVE  Read(l)'
      BY <1>4, <1>5 DEF Read
<1>6. ASSUME job' = job, rec'.folded = rec.folded, Before' = Before, LostMark' <=> LostMark,
             In(l, doc) => In(l, doc'), Held(l)' => Held(l), Held(l) => Held(l)',
             disk'[l] = disk[l] \/ disk'[l] = 0 \/ ~Held(l)
      PROVE  Read(l)'
      BY <1>3, <1>4, <1>6 DEF Read
<1>7. CASE Quiet
  <2>1. (Held(l)' => Held(l)) /\ (In(l, doc) => In(l, doc'))
    <3>1. \A o \in doc'.ins : o \in doc.ins \/ o \in server.ins
          BY <1>7, Grows DEF NInv, Quiet
    <3>2. doc.ins \subseteq doc'.ins
          BY <1>7, DocGrows
    <3>   QED
          BY <1>7, <3>1, <3>2 DEF Quiet, Held, In
  <2>2. /\ UNCHANGED <<disk, rec, server>> /\ Before' = Before
        /\ LostMark' <=> LostMark
        BY <1>2, <1>7 DEF Quiet, LostMark, Before
  <2>3. Held(l) => Held(l)'
        BY <2>1, <2>2 DEF Held
  <2>4. job' = job \/ job'.at \notin Busy
        BY <1>7 DEF Quiet
  <2>   QED
        BY <1>5, <1>6, <2>1, <2>2, <2>3, <2>4
<1>8. CASE Saves
  <2>1. PICK k \in Line :
          \/ k \in Mine /\ ~Held(k) /\ disk' = [disk EXCEPT ![k] = 1]
          \/ disk' = [disk EXCEPT ![k] = 0]
        BY <1>8 DEF Saves
  <2>2. UNCHANGED <<doc, open, mark, store, rec, server, job>>
        BY <1>8 DEF Saves
  <2>3. (Held(l)' <=> Held(l)) /\ (LostMark' <=> LostMark) /\ Before' = Before
        BY <2>2 DEF Held, LostMark, Before
  <2>4. disk'[l] = disk[l] \/ disk'[l] = 0 \/ ~Held(l)
        BY <1>1, <1>2, <2>1 DEF Text
  <2>   QED
        BY <1>6, <2>2, <2>3, <2>4
<1>9. CASE Serves
  <2>1. UNCHANGED <<disk, doc, open, mark, store, rec, job>>
        BY <1>9 DEF Serves
  <2>2. (LostMark' <=> LostMark) /\ Before' = Before
        BY <2>1 DEF LostMark, Before
  <2>3. Held(l)' => Held(l) \/ l \in Theirs
        BY <1>9, <2>1 DEF Serves, Held, In
  <2>4. Held(l) => Held(l)'
        BY <2>1, Grows DEF NInv, Held, In
  <2>5. CASE Held(l)' => Held(l)
        BY <1>6, <2>1, <2>2, <2>4, <2>5
  <2>6. CASE ~Held(l) /\ l \in Theirs
    <3>1. l \notin Mine
          BY <2>6, NoteAssumption
    <3>2. disk[l] = 0 /\ (job.at \in Scanned => ~(job.read[l] > 0))
          BY <1>2, <1>3, <2>6, <3>1
    <3>   QED
          BY <1>3, <1>4, <2>1, <3>2 DEF Read
  <2>   QED
        BY <2>3, <2>5, <2>6
<1>10. CASE Stores \/ Persists
  <2>1. UNCHANGED <<disk, doc, open, mark, rec, server, job>> /\ (open \/ store' = store)
        BY <1>10 DEF Stores, Persists
  <2>2. (Held(l)' <=> Held(l)) /\ (LostMark' <=> LostMark) /\ Before' = Before
        BY <2>1 DEF Held, LostMark, Before
  <2>   QED
        BY <1>6, <2>1, <2>2
<1>11. CASE Crashes
  <2>1. job'.at = "none"
        BY <1>11 DEF Crashes, NoJob
  <2>   QED
        BY <1>4, <1>5, <2>1
<1>12. CASE Refolds
  <2>1. PICK t \in Text : Refold(t) /\ FoldsStep(t)
        BY <1>12 DEF Refolds
  <2>2. /\ t[l] \in Nat
        /\ disk[l] > 0 /\ Held(l)' => t[l] > 0
        /\ t[l] > 0 => In(l, doc')
        /\ LostMark' => ~open
        BY <2>1, RefoldFacts
  <2>3. UNCHANGED <<disk, open, store, server>> /\ rec'.folded = t
        BY <2>1 DEF Refold
  <2>4. CASE FoldsRead(t)
    <3>1. job'.at = "folded" /\ t = job'.read
          BY <2>4 DEF FoldsRead
    <3>   QED
          BY <1>4, <2>2, <2>3, <3>1 DEF Read, Held
  <2>5. CASE job'.at = "fold" /\ job'.read = disk
        BY <1>1, <2>3, <2>5, FreshRead, ToldKept
  <2>6. CASE job' = NoJob
        BY <1>4, <1>5, <2>6 DEF NoJob
  <2>7. CASE t = disk /\ doc' = doc /\ overtaken' = (overtaken \/ open) /\ job' = job
    <3>1. Held(l)' <=> Held(l)
          BY <2>3, <2>7 DEF Held
    <3>2. CASE job.at \in {"fold", "hash"}
      <4>1. open
            BY <1>2, <1>4, <3>2
      <4>2. TheirsStay(l)
            BY <2>7, <4>1, Scene
      <4>3. job.read[l] > 0 => t[l] > 0
            BY <1>4, <2>7, <3>2, <4>2 DEF TheirsStay
      <4>   QED
            BY <1>3, <1>4, <2>2, <2>3, <2>7, <3>1, <3>2, <4>1, <4>3 DEF Read
    <3>3. CASE job.at \notin {"fold", "hash"}
          BY <1>3, <1>4, <2>3, <2>7, <3>1, <3>3 DEF Read
    <3>   QED
          BY <3>2, <3>3
  <2>   QED
        BY <2>1, <2>4, <2>5, <2>6, <2>7 DEF FoldsStep
<1>13. CASE Ponders
  <2>1. UNCHANGED <<disk, doc, open, mark, store, rec, server>>
        BY <1>13 DEF Ponders
  <2>2. (Held(l)' <=> Held(l)) /\ (LostMark' <=> LostMark) /\ Before' = Before
        BY <2>1 DEF Held, LostMark, Before
  <2>3. CASE job.at = "fold" /\ job'.at = "hash" /\ job'.read = job.read
        BY <1>3, <1>4, <2>1, <2>2, <2>3 DEF Read
  <2>4. CASE job'.at = "fold" /\ job'.read = disk
        BY <1>1, <2>1, <2>4, FreshRead, ToldKept
  <2>5. CASE job.at = "hash" /\ job'.at = "folded" /\ job'.read = job.read
    <3>1. job'.read[l] > 0 => Held(l)'
          BY <1>1, <2>5 DEF NInv, Folded, AfterFold
    <3>2. job'.read[l] > 0 => In(l, doc')
          BY <1>3, <1>4, <2>1, <2>2, <2>5, <3>1
    <3>   QED
          BY <1>3, <1>4, <2>1, <2>2, <2>5, <3>1, <3>2 DEF Read
  <2>6. CASE job.at = "hash" /\ job'.at = "blindMerge" /\ job'.read = job.read
        BY <1>3, <1>4, <2>1, <2>2, <2>6 DEF Read
  <2>7. CASE /\ job.at = "hash" /\ job'.at = "merge" /\ job'.read = job.read
             /\ job'.text = Marker(job.read) /\ Marker(job.read) \notin {NoText, job.read}
    <3>1. ASSUME job.read[l] > 0, job'.text[l] = 0, Held(l)
          PROVE  FALSE
      <4>1. /\ rec.folded # NoText /\ rec.folded[l] = 0 => LostMark
            /\ LostMark => Before.text[l] > 0
            BY <1>3, <2>7, <3>1
      <4>2. open
            BY <1>2, <1>4, <2>7
      <4>3. CASE LostWrite(job.read)
        <5>1. job'.text = mark.text /\ job.read # mark.text
              BY <2>7, <4>3 DEF Marker
        <5>2. LostMark /\ Before = mark
              BY <4>2, <4>3, <5>1 DEF LostWrite, LostMark, Before
        <5>   QED
              BY <3>1, <4>1, <5>1, <5>2
      <4>4. CASE ~LostWrite(job.read)
        <5>1. job'.text = rec.folded /\ rec.folded # NoText
              BY <2>7, <4>4 DEF Marker
        <5>2. LostMark
              BY <3>1, <4>1, <5>1
        <5>   QED
              BY <4>2, <4>4, <5>2 DEF LostWrite, LostMark, Before
      <4>   QED
            BY <4>3, <4>4
    <3>   QED
          BY <1>3, <1>4, <2>1, <2>2, <2>7, <3>1 DEF Read
  <2>   QED
        BY <1>13, <2>3, <2>4, <2>5, <2>6, <2>7 DEF Ponders
<1>14. CASE MarksWrite
  <2>1. /\ UNCHANGED <<disk, doc, server>> /\ job.at = "folded" /\ job'.at = "look"
        /\ job'.read = job.read /\ job'.text = TextOf(doc)
        BY <1>14 DEF MarksWrite
  <2>2. Held(l)' <=> Held(l)
        BY <2>1 DEF Held
  <2>3. TextOf(doc)[l] > 0 => In(l, doc)
        BY <1>1, DocTexts DEF NInv, Alive, In
  <2>   QED
        BY <1>3, <1>4, <2>1, <2>2, <2>3 DEF Read
<1>15. CASE Looks
  <2>1. /\ UNCHANGED <<disk, doc, server>> /\ job.at = "look" /\ job'.at = "write"
        /\ job'.read = job.read /\ job'.text = job.text
        BY <1>15 DEF Looks
  <2>2. Held(l)' <=> Held(l)
        BY <2>1 DEF Held
  <2>   QED
        BY <1>3, <1>4, <2>1, <2>2 DEF Read
<1>16. CASE Writes
  <2>1. /\ UNCHANGED <<doc, server>> /\ job.at = "write" /\ job'.at = "wrote"
        /\ job'.text = job.text /\ disk' = job.text
        BY <1>16 DEF Writes
  <2>   QED
        BY <1>3, <1>4, <2>1 DEF Read
<1>17. CASE Confirms
  <2>1. job'.at = "none"
        BY <1>17 DEF Confirms
  <2>   QED
        BY <1>4, <1>5, <2>1
<1>   QED
      BY <1>1, <1>7, <1>8, <1>9, <1>10, <1>11, <1>12, <1>13, <1>14, <1>15, <1>16, <1>17,
         Moves DEF TInv

\* A line of the teammate's goes from the disk only once the server knows that it is deleted.
LEMMA TheirsKept ==
    ASSUME NInv, NInv', TInv, NoteNext, Calm', NEW l \in Untouched'
    PROVE  TheirsStay(l)'
<1>1. /\ l \in Line /\ Clear(l) /\ TheirsStay(l) /\ Dels /\ ~coarse'
      /\ l \notin Mine /\ l \notin removed'
      BY Scene, SceneTheirs DEF TInv, Untouched
<1>2. /\ disk[l] \in Nat /\ disk \in Text
      /\ mark # NoText => mark \in Marks
      /\ job.at \in Folding \cup AfterFold => job.read[l] \in Nat
      /\ job.at \in {"merge", "look", "write", "wrote"} => job.text[l] \in Nat
      BY <1>1, LineCounts DEF NInv, Shaped, NoteTypeOK
<1>3. /\ Has(rec.folded, l) \/ Has(saved.folded, l) => disk[l] > 0 \/ Dead(l)
      /\ \A m \in TheMarks : m.here /\ m.text[l] > 0 => disk[l] > 0 \/ Dead(l)
      /\ job.at \in Scanned /\ job.read[l] > 0 => disk[l] > 0
      /\ job.at \in {"look", "write"} /\ job.text[l] = 0 /\ disk[l] > 0 => Dead(l)
      /\ job.at = "merge" /\ job.read[l] = 0 /\ job.text[l] > 0 => Dead(l)
      /\ job.at = "wrote" /\ job.text[l] > 0 => disk[l] > 0
      /\ \A o \in doc.del : o[1] = l => o \in server.del
      BY <1>1 DEF TheirsStay
<1>4. disk[l] > 0 => Held(l) /\ In(l, doc)
      BY <1>1 DEF Clear, Told
<1>5. /\ Scanned = {"fold", "hash", "merge", "blindMerge", "folded", "look", "write"}
      /\ Folding \cup AfterFold = Scanned \cup {"wrote"}
      BY DEF Scanned, Folding, AfterFold
<1>6. ASSUME job' = job \/ job'.at \notin Folding \cup AfterFold, disk'[l] = disk[l],
             Dead(l) => Dead(l)', (TheMarks)' \subseteq TheMarks,
             rec'.folded \in {rec.folded, saved.folded}, saved'.folded \in {rec.folded, saved.folded},
             \A o \in doc'.del : o \in doc.del \/ o \in server'.del,
             \A o \in server.del : o \in server'.del
      PROVE  TheirsStay(l)'
      BY <1>3, <1>5, <1>6 DEF TheirsStay
<1>7. CASE Quiet
  <2>1. /\ UNCHANGED <<disk, store, saved, rec, server>> /\ (TheMarks)' \subseteq TheMarks
        /\ job' = job \/ job'.at \notin Folding \cup AfterFold
        BY <1>7 DEF Quiet, TheMarks
  <2>2. Dead(l)' <=> Dead(l)
        BY <2>1 DEF Dead
  <2>3. \A o \in doc'.del : o \in doc.del \/ o \in server.del
    <3>1. CASE TakesIn
          BY <3>1 DEF TakesIn, Merged, NInv, Docs, Within
    <3>   QED
          BY <1>7, <3>1 DEF Quiet
  <2>   QED
        BY <1>6, <2>1, <2>2, <2>3
<1>8. CASE Saves
  <2>1. PICK k \in Line :
          \/ k \in Mine /\ disk' = [disk EXCEPT ![k] = 1]
          \/ disk' = [disk EXCEPT ![k] = 0] /\ removed' = removed \cup {k}
        BY <1>8 DEF Saves
  <2>2. UNCHANGED <<doc, mark, store, rec, saved, server, job>>
        BY <1>8 DEF Saves
  <2>3. disk'[l] = disk[l]
        BY <1>1, <1>2, <2>1 DEF Text
  <2>4. (Dead(l)' <=> Dead(l)) /\ (TheMarks)' = TheMarks
        BY <2>2 DEF Dead, TheMarks
  <2>   QED
        BY <1>6, <2>2, <2>3, <2>4
<1>9. CASE Serves
  <2>1. UNCHANGED <<disk, doc, mark, store, rec, saved, job>> /\ server.del \subseteq server'.del
        BY <1>9 DEF Serves
  <2>2. (Dead(l) => Dead(l)') /\ (TheMarks)' = TheMarks
        BY <2>1 DEF Dead, TheMarks
  <2>   QED
        BY <1>6, <2>1, <2>2
<1>10. CASE Stores \/ Persists
  <2>1. /\ UNCHANGED <<disk, doc, rec, server, job>> /\ saved' \in {rec, saved}
        /\ (TheMarks)' \subseteq TheMarks
        BY <1>10 DEF Stores, Persists, TheMarks
  <2>2. Dead(l)' <=> Dead(l)
        BY <2>1 DEF Dead
  <2>   QED
        BY <1>6, <2>1, <2>2
<1>11. CASE Crashes
  <2>1. /\ doc' = store.doc /\ rec' = saved /\ UNCHANGED <<disk, saved, server>>
        /\ (TheMarks)' \subseteq TheMarks
        BY <1>11 DEF Crashes, TheMarks
  <2>2. job'.at \notin Folding \cup AfterFold
        BY <1>5, <1>11 DEF Crashes, NoJob
  <2>3. (Dead(l)' <=> Dead(l)) /\ store.doc.del \subseteq doc.del
        BY <1>1, <2>1 DEF Dead, Dels
  <2>   QED
        BY <1>6, <2>1, <2>2, <2>3
<1>12. CASE Refolds
  <2>1. PICK t \in Text : Refold(t) /\ FoldsStep(t)
        BY <1>12 DEF Refolds
  <2>2. /\ UNCHANGED <<disk, store, saved, server>> /\ rec'.folded = t
        /\ (TheMarks)' \subseteq TheMarks
        BY <2>1 DEF Refold, TheMarks
  <2>3. Dead(l)' <=> Dead(l)
        BY <2>2 DEF Dead
  <2>4. t[l] > 0 => disk[l] > 0
    <3>1. t = disk \/ (t = job.read /\ job.at \in Scanned)
          BY <1>5, <2>1 DEF FoldsStep, FoldsRead
    <3>   QED
          BY <1>3, <3>1
  <2>5. \A o \in doc'.del : o[1] = l => o \in server.del
    <3>1. CASE doc' = doc
          BY <1>3, <3>1
    <3>2. CASE FoldIn /\ job.at = "merge"
      <4>1. \A o \in doc'.del :
               o[1] = l => o \in doc.del \/ (job.read[l] = 0 /\ job.text[l] > 0 /\ o = <<l, 1>>)
            BY <1>1, <3>2, FoldInLine
      <4>2. job.read[l] = 0 /\ job.text[l] > 0 => <<l, 1>> \in server.del
            BY <1>3, <3>2 DEF Dead
      <4>   QED
            BY <1>3, <4>1, <4>2
    <3>   QED
          BY <2>1, <3>1, <3>2 DEF FoldsStep, FoldsRead
  <2>6. /\ job'.at \in Scanned /\ job'.read[l] > 0 => disk[l] > 0
        /\ job' = job \/ job'.at \notin {"look", "write", "merge", "wrote"}
    <3>1. \/ job' = job \/ job'.at = "none"
          \/ job'.at = "fold" /\ job'.read = disk
          \/ job'.at = "folded" /\ job'.read = job.read /\ job.at \in Scanned
          BY <1>5, <2>1 DEF FoldsStep, FoldsRead, NoJob
    <3>   QED
          BY <1>3, <1>5, <3>1
  <2>   QED
        BY <1>3, <2>2, <2>3, <2>4, <2>5, <2>6 DEF TheirsStay, Has
<1>13. CASE Ponders
  <2>1. UNCHANGED <<disk, doc, open, mark, store, rec, saved, server>>
        BY <1>13 DEF Ponders
  <2>2. (Dead(l)' <=> Dead(l)) /\ (TheMarks)' = TheMarks
        BY <2>1 DEF Dead, TheMarks
  <2>3. job'.read[l] > 0 => disk[l] > 0
        BY <1>3, <1>5, <1>13 DEF Ponders
  <2>4. job'.at \notin {"look", "write", "wrote"}
        BY <1>13 DEF Ponders
  <2>5. ASSUME job'.at = "merge", job'.read[l] = 0, job'.text[l] > 0
        PROVE  Dead(l)
    <3>1. /\ job.at = "hash" /\ job.read[l] = 0 /\ job'.text = Marker(job.read)
          /\ Marker(job.read) # NoText /\ Marker(job.read) # job.read
          BY <1>13, <2>5 DEF Ponders
    <3>2. disk[l] = 0
      <4>1. disk[l] > 0 => ~Held(l)
            BY <1>1, <1>5, <3>1 DEF Clear, Read
      <4>   QED
            BY <1>2, <1>4, <4>1
    <3>3. CASE LostWrite(job.read)
      <4>1. mark \in TheMarks /\ mark.here /\ job'.text = mark.text
            BY <3>1, <3>3 DEF LostWrite, Marker, TheMarks
      <4>   QED
            BY <1>3, <2>5, <3>2, <4>1
    <3>4. CASE ~LostWrite(job.read)
      <4>1. Has(rec.folded, l)
            BY <2>5, <3>1, <3>4 DEF Marker, Has
      <4>   QED
            BY <1>3, <3>2, <4>1
    <3>   QED
          BY <3>3, <3>4
  <2>   QED
        BY <1>3, <2>1, <2>2, <2>3, <2>4, <2>5 DEF TheirsStay
<1>14. CASE MarksWrite
  <2>1. /\ UNCHANGED <<disk, doc, store, rec, saved, server>> /\ job.at = "folded"
        /\ job'.at = "look" /\ job'.read = job.read /\ job'.text = TextOf(doc) /\ ~mark'.here
        BY <1>14 DEF MarksWrite
  <2>2. Dead(l)' <=> Dead(l)
        BY <2>1 DEF Dead
  <2>3. TextOf(doc)[l] = 0 /\ disk[l] > 0 => Dead(l)
    <3>1. doc \in Doc /\ \A o \in doc.ins : o[1] = l => o = <<l, 1>>
          BY <1>1, DocTexts DEF NInv, Clear, Single
    <3>2. /\ TextOf(doc)[l] = IF <<l, 1>> \in doc.ins \ doc.del THEN 1 ELSE 0
          /\ In(l, doc) <=> <<l, 1>> \in doc.ins
          BY <1>1, <3>1, TextSingle
    <3>3. <<l, 1>>[1] = l
          OBVIOUS
    <3>   QED
          BY <1>3, <1>4, <3>2, <3>3 DEF Dead
  <2>4. \A m \in (TheMarks)' : m.here => m \in TheMarks
        BY <2>1 DEF TheMarks
  <2>   QED
        BY <1>3, <1>5, <2>1, <2>2, <2>3, <2>4 DEF TheirsStay
<1>15. CASE Looks
  <2>1. /\ UNCHANGED <<disk, doc, mark, store, saved, server>> /\ rec'.folded = rec.folded
        /\ job.at = "look" /\ job'.at = "write" /\ job'.read = job.read /\ job'.text = job.text
        BY <1>15 DEF Looks
  <2>2. (Dead(l)' <=> Dead(l)) /\ (TheMarks)' = TheMarks
        BY <2>1 DEF Dead, TheMarks
  <2>   QED
        BY <1>3, <1>5, <2>1, <2>2 DEF TheirsStay
<1>16. CASE Writes
  <2>1. /\ UNCHANGED <<doc, mark, store, rec, saved, server>>
        /\ job.at = "write" /\ job'.at = "wrote" /\ job'.text = job.text /\ disk' = job.text
        BY <1>16 DEF Writes
  <2>2. (Dead(l)' <=> Dead(l)) /\ (TheMarks)' = TheMarks
        BY <2>1 DEF Dead, TheMarks
  <2>3. disk[l] > 0 \/ Dead(l) => disk'[l] > 0 \/ Dead(l)
        BY <1>2, <1>3, <2>1
  <2>   QED
        BY <1>3, <1>5, <2>1, <2>2, <2>3 DEF TheirsStay
<1>17. CASE Confirms
  <2>1. /\ UNCHANGED <<disk, doc, store, saved, server>> /\ rec'.folded = job.text
        /\ job.at = "wrote" /\ job'.at = "none"
        BY <1>17 DEF Confirms
  <2>2. Dead(l)' <=> Dead(l)
        BY <2>1 DEF Dead
  <2>3. job.text[l] > 0 => disk[l] > 0
        BY <1>3, <2>1
  <2>4. mark' # NoText => mark'.text = job.text
        BY <1>2, <1>17 DEF Confirms, Marks
  <2>5. ASSUME NEW m \in (TheMarks)', m.here, m.text[l] > 0
        PROVE  disk[l] > 0 \/ Dead(l)
    <3>1. (m = mark' /\ m # NoText) \/ m \in TheMarks
          BY <2>1 DEF TheMarks
    <3>   QED
          BY <1>3, <2>3, <2>4, <2>5, <3>1
  <2>   QED
        BY <1>3, <1>5, <2>1, <2>2, <2>3, <2>5 DEF TheirsStay, Has
<1>   QED
      BY <1>1, <1>7, <1>8, <1>9, <1>10, <1>11, <1>12, <1>13, <1>14, <1>15, <1>16, <1>17,
         Moves DEF TInv

\* At the start everything is folded, and the note is the same everywhere.
LEMMA TheirsInit ==
    ASSUME NoteInit
    PROVE  TInv
<1>   DEFINE d == [ins |-> {<<First, 1>>}, del |-> {}]
             t == TextOf(d)
<1>1. NInv
      BY InvInit
<1>2. /\ disk = t /\ doc = d /\ server = d /\ store = [doc |-> d, mark |-> NoText]
      /\ rec.folded \in {t, NoText} /\ saved = rec
      /\ open = FALSE /\ mark = NoText /\ job = NoJob /\ up = NoOps
      BY DEF NoteInit
<1>3. d.ins = {<<First, 1>>} /\ d.del = {} /\ NoOps.del = {}
      BY DEF NoOps
<1>4. NoJob.at = "none" /\ NoJob.kind = "none"
      BY DEF NoJob
<1>   HIDE DEF d
<1>5. Agreeing /\ Dels /\ Confirmed
      BY <1>2, <1>3, <1>4 DEF Agreeing, Dels, Confirmed, Writing
<1>6. ~Before.here \/ Before = NoText
      BY <1>2 DEF Before
<1>7. ASSUME NEW l \in Line
      PROVE  Clear(l) /\ TheirsStay(l)
  <2>1. \A o \in d.ins : o[1] = l => o = <<l, 1>>
    <3>1. <<First, 1>>[1] = First
          OBVIOUS
    <3>   QED
          BY <1>3, <3>1
  <2>2. t[l] \in {0, 1} /\ (t[l] > 0 => In(l, d))
    <3>1. d \in Doc
          BY <1>1, <1>2 DEF NInv, Shaped, NoteTypeOK
    <3>2. /\ t[l] = IF <<l, 1>> \in d.ins \ d.del THEN 1 ELSE 0
          /\ In(l, d) <=> <<l, 1>> \in d.ins
          BY <2>1, <3>1, TextSingle
    <3>   QED
          BY <3>2
  <2>   HIDE DEF t
  <2>3. TheMarks = {} /\ ~LostMark
        BY <1>2, <1>6 DEF TheMarks, LostMark
  <2>4. /\ job.at \notin Scanned /\ job.at \notin Folding /\ ~Writing
        /\ job.at \notin {"folded", "look", "write", "wrote", "fold", "hash", "merge"}
        BY <1>2, <1>4 DEF Scanned, Folding, Writing
  <2>5. Single(l) /\ Ones(l)
        BY <1>2, <2>1, <2>2, <2>3, <2>4 DEF Single, Ones
  <2>6. Told(l)
    <3>1. In(l, d) => Held(l)
          BY <1>2 DEF Held
    <3>   QED
          BY <1>2, <2>2, <2>3, <3>1 DEF Told, Has
  <2>7. Read(l) /\ Marked(l)
        BY <2>3, <2>4 DEF Read, Marked
  <2>8. TheirsStay(l)
        BY <1>2, <1>3, <2>3, <2>4 DEF TheirsStay, Has
  <2>   QED
        BY <2>5, <2>6, <2>7, <2>8 DEF Clear
<1>8. Watched \subseteq Line /\ Untouched \subseteq Line
      BY DEF Watched, Untouched, Line
<1>   QED
      BY <1>5, <1>7, <1>8 DEF TInv

\* A step that changes nothing keeps it.
LEMMA TheirsStutter ==
    ASSUME TInv, UNCHANGED noteVars
    PROVE  TInv'
<1>1. /\ UNCHANGED <<disk, doc, open, mark, store, rec, saved, server, job, up>>
      /\ UNCHANGED <<typed, removed, torn, coarse, overtaken>>
      BY Zenon DEF noteVars, noteFiles, noteMem, noteNet, noteHist
<1>2. Agreeing' /\ Dels'
      BY <1>1 DEF TInv, Agreeing, Dels
<1>3. /\ (Calm' => Calm) /\ (Watched)' = Watched /\ (Untouched)' = Untouched
      /\ (TheMarks)' = TheMarks /\ (LostMark' <=> LostMark) /\ Before' = Before
      /\ (Writing)' <=> Writing
      BY <1>1 DEF Calm, Watched, Untouched, TheMarks, LostMark, Before, Writing
<1>4. Confirmed => Confirmed'
      BY <1>1, <1>3 DEF Confirmed
<1>5. ASSUME NEW l, Clear(l)
      PROVE  Clear(l)'
  <2>1. Held(l)' <=> Held(l)
        BY <1>1 DEF Held
  <2>2. Single(l)' /\ Ones(l)'
        BY <1>1, <1>3, <1>5 DEF Clear, Single, Ones
  <2>3. Told(l)'
        BY <1>1, <1>3, <1>5, <2>1 DEF Clear, Told
  <2>4. Read(l)'
        BY <1>1, <1>3, <1>5, <2>1 DEF Clear, Read
  <2>5. Marked(l)'
        BY <1>1, <1>3, <1>5, <2>1 DEF Clear, Marked
  <2>   QED
        BY <2>2, <2>3, <2>4, <2>5 DEF Clear
<1>6. ASSUME NEW l, TheirsStay(l)
      PROVE  TheirsStay(l)'
  <2>1. Dead(l)' <=> Dead(l)
        BY <1>1 DEF Dead
  <2>   QED
        BY <1>1, <1>3, <1>6, <2>1 DEF TheirsStay
<1>   QED
      BY <1>2, <1>3, <1>4, <1>5, <1>6 DEF TInv

-----------------------------------------------------------------------------
(***************************************************************************)
(* What always holds of the folds.                                         *)
(***************************************************************************)
\* As long as no fold goes without a base and no crash loses the record of one, the record, or
\* the mark of the write it misses, has every line that the disk has and some document has.
THEOREM FoldsInvariant == NoteSpec => []TInv
<1>1. NoteInit => TInv
      BY TheirsInit
<1>2. TInv /\ NInv /\ NInv' /\ [NoteNext]_noteVars => TInv'
  <2>1. ASSUME TInv, NInv, NInv', NoteNext
        PROVE  TInv'
    <3>1. Agreeing' /\ Dels'
          BY <2>1, PushesKept, DelsKept DEF TInv
    <3>2. ASSUME Calm', NEW l \in Watched'
          PROVE  Clear(l)'
          BY <2>1, <3>2, SingleKept, OnesKept, ToldKept, ReadKept, MarkedKept DEF Clear
    <3>3. ASSUME Calm', NEW l \in Untouched'
          PROVE  TheirsStay(l)'
          BY <2>1, <3>3, TheirsKept
    <3>4. Calm' => Confirmed'
          BY <2>1, ConfirmedKept
    <3>   QED
          BY <3>1, <3>2, <3>3, <3>4 DEF TInv
  <2>   QED
        BY <2>1, TheirsStutter
<1>   QED
      BY <1>1, <1>2, NoteInvariant, PTL DEF NoteSpec

\* A fold does not take a teammate's edit the disk has not got yet for the user's deletion of it
\* (resolveFoldBase, mergeText3), nor after a crash that the store's mark makes good for.
THEOREM KeepsTheirsAlways == NoteSpec => []KeepsTheirs
<1>1. TInv => KeepsTheirs
      BY DEF TInv, Calm, KeepsTheirs, Untouched, TheirsStay
<1>   QED
      BY <1>1, FoldsInvariant, PTL

\* A fold does not insert anew what the document, or the server's, has.
THEOREM NotDoubledAlways == NoteSpec => []NotDoubled
<1>1. TInv /\ NInv => NotDoubled
  <2>1. SUFFICES ASSUME TInv, NInv, ~torn, ~overtaken, ~coarse, NEW l \in Line
                 PROVE  TextOf(server)[l] <= 1
        BY DEF NotDoubled
  <2>2. Single(l)
        BY <2>1 DEF TInv, Calm, Watched, Clear
  <2>3. server \in Doc /\ \A o \in server.ins : o[1] = l => o = <<l, 1>>
        BY <2>1, <2>2 DEF NInv, Shaped, NoteTypeOK, Single
  <2>4. TextOf(server)[l] = IF <<l, 1>> \in server.ins \ server.del THEN 1 ELSE 0
        BY <2>3, TextSingle
  <2>   QED
        BY <2>4
<1>   QED
      BY <1>1, NoteInvariant, FoldsInvariant, PTL
=============================================================================
