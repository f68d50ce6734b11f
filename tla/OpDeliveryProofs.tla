-------------------------- MODULE OpDeliveryProofs --------------------------
(***************************************************************************)
(* Proofs about OpDelivery, for any number of changes, connections,        *)
(* crashes and queue tries: the inductive invariant IInv, the safety       *)
(* properties that follow from it, and that OpDelivery implements          *)
(* DurableQueue.                                                           *)
(*                                                                         *)
(* IInv is proved part by part.  Each part has one lemma and each lemma    *)
(* one step per action; where an action needs more than its definition,    *)
(* the step first says what the action changes and then what follows.      *)
(***************************************************************************)
EXTENDS OpDelivery, TLAPS

\* The type of the gate.
Gate == [first : BOOLEAN, stuck : BOOLEAN, failures : Nat, due : BOOLEAN]
\* What the gate becomes is a gate (closeGate, openGate, afterDrain).
LEMMA GateTypes ==
    ASSUME gate \in Gate
    PROVE  /\ OpenedGate \in Gate
           /\ GateOpened(gate) \in Gate
           /\ GateClosed(gate) \in Gate
           /\ \A k \in {"busy", "retry"} : GateHalted(k) \in Gate
<1>1. OpenedGate \in Gate
  BY DEF OpenedGate, Gate
<1>2. GateOpened(gate) \in Gate /\ GateClosed(gate) \in Gate
  BY DEF GateOpened, GateClosed, Gate
<1>3. GateHalted("busy") \in Gate
  BY <1>2 DEF GateHalted, Gate
<1>4. GateHalted("retry") \in Gate
  <2>1. CASE ~gate.first
    BY <2>1 DEF GateHalted, Gate
  <2>2. CASE gate.first /\ gate.failures + 1 < QueueFailuresMax
    <3>1. gate.failures + 1 \in Nat
      BY DEF Gate
    <3>2. GateHalted("retry") = [gate EXCEPT !.failures = gate.failures + 1, !.due = TRUE]
      BY <2>2 DEF GateHalted
    <3>3. QED
      BY <3>1, <3>2 DEF Gate
  <2>3. CASE gate.first /\ ~(gate.failures + 1 < QueueFailuresMax)
    BY <1>2, <2>3 DEF GateHalted, Gate
  <2>4. QED
    BY <2>1, <2>2, <2>3
<1>5. QED
  BY <1>1, <1>2, <1>3, <1>4

\* A packet of the open connection carries the id of an entry that waits for
\* its answer, and the answer is not there yet.
LEMMA CurrentPacket ==
    ASSUME IInv, NEW p \in wire, p.k = connects, link # "down"
    PROVE  /\ p \in Packet /\ p.c \in Change
           /\ stage[p.c] \in {"sent", "replayed"} /\ p.n = opId[p.c]
           /\ <<p.c, p.n>> \notin voided
           /\ \A a \in answers : a.c # p.c
  BY DEF IInv, TypeOK, Packet, OneExchange

\* An answer is for an entry that waits for it.
LEMMA PendingAnswer ==
    ASSUME IInv, NEW a \in answers
    PROVE  /\ a \in Answer /\ a.c \in Change
           /\ stage[a.c] \in {"sent", "replayed"}
           /\ a.kind = "ok" => IdOf(a.c) \in applied
  BY DEF IInv, TypeOK, Answer, OneExchange

-----------------------------------------------------------------------------
(***************************************************************************)
(* Every step preserves every part of the invariant.                       *)
(***************************************************************************)

\* Every step keeps the types.
LEMMA TypeStep ==
    ASSUME ConstantsAssumption, TypeOK, [Next]_vars
    PROVE  TypeOK'
<1> USE DEF TypeOK, Stage, InLog, InFlight, Pending, Link, OpIds, Packet,
    Answer, logVars, fileVars, linkVars, netVars, histVars, In, IdOf
<1>1. ASSUME StartWrite PROVE TypeOK'
  BY <1>1 DEF StartWrite, Serialized
<1>2. ASSUME FinishWrite PROVE TypeOK'
  BY <1>2 DEF FinishWrite
<1>3. ASSUME FailWrite PROVE TypeOK'
  BY <1>3 DEF FailWrite
<1>4. ASSUME CrashAndRestart PROVE TypeOK'
  <2>1. stage' \in [Change -> Stage] /\ opId' \in [Change -> Nat]
    BY <1>4 DEF CrashAndRestart
  <2>2. gate' \in Gate
    BY <1>4, GateTypes DEF CrashAndRestart, Gate
  <2>3. written' \subseteq Change /\ snap' \in [Change -> Nat]
    BY <1>4 DEF CrashAndRestart
  <2>4. drain' \in [link : Nat, pass : SUBSET Change, no : Nat]
    BY <1>4 DEF CrashAndRestart, NoDrain
  <2>5. /\ dirty' \in BOOLEAN /\ writing' \in BOOLEAN /\ failed' \subseteq Change
        /\ link' \in Link /\ asked' \subseteq OpIds /\ answers' \subseteq Answer
        /\ crashes' \in Nat
    <3>1. crashes' \in Nat
      BY <1>4 DEF CrashAndRestart
    <3>2. link' \in Link
      BY <1>4 DEF CrashAndRestart
    <3>3. QED
      BY <1>4, <3>1, <3>2 DEF CrashAndRestart
  <2>6. UNCHANGED <<drawn, place, nextPlace, disk, connects, wire, applied, voided,
                    barred, durable, refused>>
    BY <1>4 DEF CrashAndRestart
  <2>7. QED
    BY <2>1, <2>2, <2>3, <2>4, <2>5, <2>6 DEF Gate
<1>5. ASSUME NEW c \in Change, Take(c) PROVE TypeOK'
  BY <1>5 DEF Take, Draw, NewEntry, Touch
<1>6. ASSUME NEW c \in Change, SendRecorded(c) PROVE TypeOK'
  <2>1. stage' \in [Change -> Stage]
    BY <1>6 DEF SendRecorded, KeepEntries, Touch, Emit
  <2>2. wire' \subseteq Packet
    BY <1>6 DEF SendRecorded, KeepEntries, Touch, Emit
  <2>3. written' \subseteq Change /\ failed' \subseteq Change /\ dirty' \in BOOLEAN
    BY <1>6 DEF SendRecorded, KeepEntries, Touch, Emit
  <2>5. QED
    BY <1>6, <2>1, <2>2, <2>3 DEF SendRecorded, KeepEntries, Touch, Emit
<1>7. ASSUME NEW c \in Change, SendUnwritten(c) PROVE TypeOK'
  BY <1>7 DEF SendUnwritten, KeepEntries, Touch
<1>8. ASSUME NEW c \in Change, LiveOk(c) PROVE TypeOK'
  BY <1>8 DEF LiveOk, KeepEntries, Answered
<1>9. ASSUME NEW c \in Change, LiveGone(c) PROVE TypeOK'
  BY <1>9 DEF LiveGone, KeepEntries, Touch, Answered
<1>10. ASSUME NEW c \in Change, LiveAgain(c) PROVE TypeOK'
  <2>1. gate' \in Gate
    BY <1>10, GateTypes DEF LiveAgain, KeepEntries, Touch, Answered, Gate
  <2>2. QED
    BY <1>10, <2>1 DEF LiveAgain, KeepEntries, Touch, Answered, Gate, NoDrain
<1>11. ASSUME NEW c \in Change, RecordLive(c) PROVE TypeOK'
  BY <1>11 DEF RecordLive, KeepEntries, Touch
<1>12. ASSUME NEW c \in Change, RecordLiveFails(c) PROVE TypeOK'
  BY <1>12 DEF RecordLiveFails, KeepEntries, Touch
<1>13. ASSUME Connect PROVE TypeOK'
  <2>1. gate' \in Gate
    BY <1>13, GateTypes DEF Connect, BeginFlow, Gate
  <2>2. asked' \subseteq OpIds
    BY <1>13 DEF Connect, BeginFlow
  <2>3. link' \in Link /\ connects' \in Nat
    BY <1>13 DEF Connect, BeginFlow
  <2>4. QED
    BY <1>13, <2>1, <2>2, <2>3 DEF Connect, Gate
<1>14. ASSUME Drop PROVE TypeOK'
  BY <1>14 DEF Drop, KeepEntries, Touch
<1>15. ASSUME AnswerStatus PROVE TypeOK'
  BY <1>15 DEF AnswerStatus
<1>16. ASSUME NEW c \in Change, SettleRow(c) PROVE TypeOK'
  <2>1. stage' \in [Change -> Stage]
    BY <1>16 DEF SettleRow, KeepEntries, Touch, Draw
  <2>2. opId' \in [Change -> Nat] /\ drawn' \in [Change -> Nat]
    BY <1>16 DEF SettleRow, KeepEntries, Touch, Draw
  <2>3. place' \in [Change -> Nat]
    BY <1>16 DEF SettleRow, KeepEntries, Touch, Draw
  <2>4. written' \subseteq Change /\ failed' \subseteq Change /\ dirty' \in BOOLEAN
    BY <1>16 DEF SettleRow, KeepEntries, Touch, Draw
  <2>5. QED
    BY <1>16, <2>1, <2>2, <2>3, <2>4 DEF SettleRow, KeepEntries, Touch, Draw
<1>17. ASSUME SettleVoided PROVE TypeOK'
  BY <1>17 DEF SettleVoided, Draw, Touch
<1>18. ASSUME Settled PROVE TypeOK'
  BY <1>18 DEF Settled
<1>19. ASSUME FlowFails PROVE TypeOK'
  BY <1>19 DEF FlowFails
<1>20. ASSUME JoinRefused PROVE TypeOK'
  BY <1>20 DEF JoinRefused
<1>21. ASSUME JoinAgain PROVE TypeOK'
  <2>1. gate' \in Gate
    BY <1>21, GateTypes DEF JoinAgain, BeginFlow, Gate
  <2>2. QED
    BY <1>21, <2>1 DEF JoinAgain, BeginFlow, Gate
<1>22. ASSUME HandOver PROVE TypeOK'
  BY <1>22 DEF HandOver
<1>23. ASSUME StartDrain PROVE TypeOK'
  <2>1. /\ gate \in Gate /\ GateOpened(gate) \in Gate
        /\ Replayable \subseteq Change
    BY GateTypes DEF Gate, Replayable, In
  <2>2. gate' \in Gate
    BY <1>23, <2>1 DEF StartDrain, BeginPass, Gate
  <2>3. drain' \in [link : Nat, pass : SUBSET Change, no : Nat]
    BY <1>23, <2>1 DEF StartDrain, BeginPass, NoDrain
  <2>4. QED
    BY <1>23, <2>2, <2>3 DEF StartDrain, Gate
<1>24. ASSUME NextPass PROVE TypeOK'
  <2>1. /\ gate \in Gate /\ GateOpened(gate) \in Gate
        /\ Replayable \subseteq Change
    BY GateTypes DEF Gate, Replayable, In
  <2>2. gate' \in Gate
    BY <1>24, <2>1 DEF NextPass, BeginPass, Gate
  <2>3. drain' \in [link : Nat, pass : SUBSET Change, no : Nat]
    BY <1>24, <2>1 DEF NextPass, BeginPass, NoDrain
  <2>4. QED
    BY <1>24, <2>2, <2>3 DEF NextPass, Gate
<1>25. ASSUME DrainCut PROVE TypeOK'
  BY <1>25 DEF DrainCut, NoDrain
<1>26. ASSUME NEW c \in Change, Replay(c) PROVE TypeOK'
  BY <1>26 DEF Replay, KeepEntries, Emit
<1>27. ASSUME NEW c \in Change, ReplayFails(c) PROVE TypeOK'
  <2>1. gate' \in Gate
    BY <1>27, GateTypes DEF ReplayFails, Halt, Gate
  <2>2. QED
    BY <1>27, <2>1 DEF ReplayFails, Halt, Gate, NoDrain
<1>28. ASSUME NEW c \in Change, ReplayMoot(c) PROVE TypeOK'
  BY <1>28 DEF ReplayMoot, KeepEntries, Touch
<1>29. ASSUME NEW c \in Change, ReplayOk(c) PROVE TypeOK'
  BY <1>29 DEF ReplayOk, KeepEntries, Answered
<1>30. ASSUME NEW c \in Change, ReplayGone(c) PROVE TypeOK'
  BY <1>30 DEF ReplayGone, KeepEntries, Touch, Answered
<1>31. ASSUME NEW c \in Change, ReplayAgain(c) PROVE TypeOK'
  <2>1. gate' \in Gate
    BY <1>31, GateTypes DEF ReplayAgain, KeepEntries, Answered, Halt, Gate
  <2>2. QED
    BY <1>31, <2>1 DEF ReplayAgain, KeepEntries, Answered, Halt, Gate, NoDrain
<1>32. ASSUME NEW c \in Change, RecordReplayed(c) PROVE TypeOK'
  BY <1>32 DEF RecordReplayed, KeepEntries, Touch
<1>33. ASSUME NEW c \in Change, RecordReplayedFails(c) PROVE TypeOK'
  <2>1. gate' \in Gate
    BY <1>33, GateTypes DEF RecordReplayedFails, KeepEntries, Gate
  <2>2. QED
    BY <1>33, <2>1 DEF RecordReplayedFails, KeepEntries, Gate, NoDrain
<1>34. ASSUME ServerQueuePasses PROVE TypeOK'
  BY <1>34 DEF ServerQueuePasses
<1>35. ASSUME NEW p \in wire, Lose(p) PROVE TypeOK'
  BY <1>35 DEF Lose
<1>36. ASSUME NEW p \in wire, ServerApplies(p) PROVE TypeOK'
  BY <1>36 DEF ServerApplies, Handle
<1>37. ASSUME NEW p \in wire, ServerKnows(p) PROVE TypeOK'
  BY <1>37 DEF ServerKnows, Handle
<1>38. ASSUME NEW p \in wire, ServerRefuses(p) PROVE TypeOK'
  BY <1>38 DEF ServerRefuses, Handle
<1>39. ASSUME NEW p \in wire, ServerBusy(p) PROVE TypeOK'
  BY <1>39 DEF ServerBusy, Handle
<1>40. CASE UNCHANGED vars
  BY <1>40 DEF vars
<1>41. QED
  BY <1>1, <1>2, <1>3, <1>4, <1>5, <1>6, <1>7, <1>8, <1>9, <1>10, <1>11, <1>12,
     <1>13, <1>14, <1>15, <1>16, <1>17, <1>18, <1>19, <1>20, <1>21, <1>22, <1>23,
     <1>24, <1>25, <1>26, <1>27, <1>28, <1>29, <1>30, <1>31, <1>32, <1>33, <1>34,
     <1>35, <1>36, <1>37, <1>38, <1>39, <1>40
  DEF Next, LogNext, LiveNext, ConnectNext, DrainNext, ServerNext

\* Every id in use was drawn for its change: newOpId draws above all of them.
LEMMA IdsStep ==
    ASSUME TypeOK, IdsDrawn, [Next]_vars
    PROVE  IdsDrawn'
<1> USE DEF TypeOK, IdsDrawn, Stage, InLog, InFlight, Pending, OpIds, Packet, In, IdOf,
    logVars, fileVars, linkVars, netVars, histVars
<1>1. ASSUME StartWrite PROVE IdsDrawn'
  BY <1>1 DEF StartWrite, Serialized
<1>2. ASSUME FinishWrite PROVE IdsDrawn'
  BY <1>2 DEF FinishWrite
<1>3. ASSUME FailWrite PROVE IdsDrawn'
  BY <1>3 DEF FailWrite
<1>4. ASSUME CrashAndRestart PROVE IdsDrawn'
  BY <1>4 DEF CrashAndRestart
<1>5. ASSUME NEW c \in Change, Take(c) PROVE IdsDrawn'
  BY <1>5 DEF Take, Draw, NewEntry, Touch
<1>6. ASSUME NEW c \in Change, SendRecorded(c) PROVE IdsDrawn'
  BY <1>6 DEF SendRecorded, KeepEntries, Touch, Emit
<1>7. ASSUME NEW c \in Change, SendUnwritten(c) PROVE IdsDrawn'
  BY <1>7 DEF SendUnwritten, KeepEntries, Touch
<1>8. ASSUME NEW c \in Change, LiveOk(c) PROVE IdsDrawn'
  BY <1>8 DEF LiveOk, KeepEntries, Answered
<1>9. ASSUME NEW c \in Change, LiveGone(c) PROVE IdsDrawn'
  BY <1>9 DEF LiveGone, KeepEntries, Touch, Answered
<1>10. ASSUME NEW c \in Change, LiveAgain(c) PROVE IdsDrawn'
  BY <1>10 DEF LiveAgain, KeepEntries, Touch, Answered
<1>11. ASSUME NEW c \in Change, RecordLive(c) PROVE IdsDrawn'
  BY <1>11 DEF RecordLive, KeepEntries, Touch
<1>12. ASSUME NEW c \in Change, RecordLiveFails(c) PROVE IdsDrawn'
  BY <1>12 DEF RecordLiveFails, KeepEntries, Touch
<1>13. ASSUME Connect PROVE IdsDrawn'
  BY <1>13 DEF Connect, BeginFlow
<1>14. ASSUME Drop PROVE IdsDrawn'
  BY <1>14 DEF Drop, KeepEntries, Touch
<1>15. ASSUME AnswerStatus PROVE IdsDrawn'
  BY <1>15 DEF AnswerStatus
<1>16. ASSUME NEW c \in Change, SettleRow(c) PROVE IdsDrawn'
  BY <1>16 DEF SettleRow, KeepEntries, Touch, Draw
<1>17. ASSUME SettleVoided PROVE IdsDrawn'
  BY <1>17 DEF SettleVoided, Draw, Touch
<1>18. ASSUME Settled PROVE IdsDrawn'
  BY <1>18 DEF Settled
<1>19. ASSUME FlowFails PROVE IdsDrawn'
  BY <1>19 DEF FlowFails
<1>20. ASSUME JoinRefused PROVE IdsDrawn'
  BY <1>20 DEF JoinRefused
<1>21. ASSUME JoinAgain PROVE IdsDrawn'
  BY <1>21 DEF JoinAgain, BeginFlow
<1>22. ASSUME HandOver PROVE IdsDrawn'
  BY <1>22 DEF HandOver
<1>23. ASSUME StartDrain PROVE IdsDrawn'
  BY <1>23 DEF StartDrain, BeginPass
<1>24. ASSUME NextPass PROVE IdsDrawn'
  BY <1>24 DEF NextPass, BeginPass
<1>25. ASSUME DrainCut PROVE IdsDrawn'
  BY <1>25 DEF DrainCut
<1>26. ASSUME NEW c \in Change, Replay(c) PROVE IdsDrawn'
  BY <1>26 DEF Replay, KeepEntries, Emit
<1>27. ASSUME NEW c \in Change, ReplayFails(c) PROVE IdsDrawn'
  BY <1>27 DEF ReplayFails, Halt
<1>28. ASSUME NEW c \in Change, ReplayMoot(c) PROVE IdsDrawn'
  BY <1>28 DEF ReplayMoot, KeepEntries, Touch
<1>29. ASSUME NEW c \in Change, ReplayOk(c) PROVE IdsDrawn'
  BY <1>29 DEF ReplayOk, KeepEntries, Answered
<1>30. ASSUME NEW c \in Change, ReplayGone(c) PROVE IdsDrawn'
  BY <1>30 DEF ReplayGone, KeepEntries, Touch, Answered
<1>31. ASSUME NEW c \in Change, ReplayAgain(c) PROVE IdsDrawn'
  BY <1>31 DEF ReplayAgain, KeepEntries, Answered, Halt
<1>32. ASSUME NEW c \in Change, RecordReplayed(c) PROVE IdsDrawn'
  BY <1>32 DEF RecordReplayed, KeepEntries, Touch
<1>33. ASSUME NEW c \in Change, RecordReplayedFails(c) PROVE IdsDrawn'
  BY <1>33 DEF RecordReplayedFails, KeepEntries
<1>34. ASSUME ServerQueuePasses PROVE IdsDrawn'
  BY <1>34 DEF ServerQueuePasses
<1>35. ASSUME NEW p \in wire, Lose(p) PROVE IdsDrawn'
  BY <1>35 DEF Lose
<1>36. ASSUME NEW p \in wire, ServerApplies(p) PROVE IdsDrawn'
  BY <1>36 DEF ServerApplies, Handle
<1>37. ASSUME NEW p \in wire, ServerKnows(p) PROVE IdsDrawn'
  BY <1>37 DEF ServerKnows, Handle
<1>38. ASSUME NEW p \in wire, ServerRefuses(p) PROVE IdsDrawn'
  BY <1>38 DEF ServerRefuses, Handle
<1>39. ASSUME NEW p \in wire, ServerBusy(p) PROVE IdsDrawn'
  BY <1>39 DEF ServerBusy, Handle
<1>40. CASE UNCHANGED vars
  BY <1>40 DEF vars
<1>41. QED
  BY <1>1, <1>2, <1>3, <1>4, <1>5, <1>6, <1>7, <1>8, <1>9, <1>10, <1>11, <1>12,
     <1>13, <1>14, <1>15, <1>16, <1>17, <1>18, <1>19, <1>20, <1>21, <1>22, <1>23,
     <1>24, <1>25, <1>26, <1>27, <1>28, <1>29, <1>30, <1>31, <1>32, <1>33, <1>34,
     <1>35, <1>36, <1>37, <1>38, <1>39, <1>40
  DEF Next, LogNext, LiveNext, ConnectNext, DrainNext, ServerNext

\* What the log takes to be on disk under its id is, and what waits for an
\* answer is among it (touch, writeDocument, opIdGeneration).
LEMMA FileStep ==
    ASSUME TypeOK, IdsDrawn, FileFollowsLog, [Next]_vars
    PROVE  FileFollowsLog'
<1> USE DEF TypeOK, IdsDrawn, FileFollowsLog, Stage, InLog, InFlight, Pending, Emitting, In, IdOf,
    logVars, fileVars, linkVars, netVars, histVars
<1>1. ASSUME StartWrite PROVE FileFollowsLog'
  BY <1>1 DEF StartWrite, Serialized
<1>2. ASSUME FinishWrite PROVE FileFollowsLog'
  BY <1>2 DEF FinishWrite
<1>3. ASSUME FailWrite PROVE FileFollowsLog'
  BY <1>3 DEF FailWrite
<1>4. ASSUME CrashAndRestart PROVE FileFollowsLog'
  BY <1>4 DEF CrashAndRestart
<1>5. ASSUME NEW c \in Change, Take(c) PROVE FileFollowsLog'
  BY <1>5 DEF Take, Draw, NewEntry, Touch
<1>6. ASSUME NEW c \in Change, SendRecorded(c) PROVE FileFollowsLog'
  BY <1>6 DEF SendRecorded, KeepEntries, Touch, Emit
<1>7. ASSUME NEW c \in Change, SendUnwritten(c) PROVE FileFollowsLog'
  BY <1>7 DEF SendUnwritten, KeepEntries, Touch
<1>8. ASSUME NEW c \in Change, LiveOk(c) PROVE FileFollowsLog'
  BY <1>8 DEF LiveOk, KeepEntries, Answered
<1>9. ASSUME NEW c \in Change, LiveGone(c) PROVE FileFollowsLog'
  BY <1>9 DEF LiveGone, KeepEntries, Touch, Answered
<1>10. ASSUME NEW c \in Change, LiveAgain(c) PROVE FileFollowsLog'
  BY <1>10 DEF LiveAgain, KeepEntries, Touch, Answered
<1>11. ASSUME NEW c \in Change, RecordLive(c) PROVE FileFollowsLog'
  BY <1>11 DEF RecordLive, KeepEntries, Touch
<1>12. ASSUME NEW c \in Change, RecordLiveFails(c) PROVE FileFollowsLog'
  BY <1>12 DEF RecordLiveFails, KeepEntries, Touch
<1>13. ASSUME Connect PROVE FileFollowsLog'
  BY <1>13 DEF Connect, BeginFlow
<1>14. ASSUME Drop PROVE FileFollowsLog'
  BY <1>14 DEF Drop, KeepEntries, Touch
<1>15. ASSUME AnswerStatus PROVE FileFollowsLog'
  BY <1>15 DEF AnswerStatus
<1>16. ASSUME NEW c \in Change, SettleRow(c) PROVE FileFollowsLog'
  BY <1>16 DEF SettleRow, KeepEntries, Touch, Draw
<1>17. ASSUME SettleVoided PROVE FileFollowsLog'
  BY <1>17 DEF SettleVoided, Draw, Touch
<1>18. ASSUME Settled PROVE FileFollowsLog'
  BY <1>18 DEF Settled
<1>19. ASSUME FlowFails PROVE FileFollowsLog'
  BY <1>19 DEF FlowFails
<1>20. ASSUME JoinRefused PROVE FileFollowsLog'
  BY <1>20 DEF JoinRefused
<1>21. ASSUME JoinAgain PROVE FileFollowsLog'
  BY <1>21 DEF JoinAgain, BeginFlow
<1>22. ASSUME HandOver PROVE FileFollowsLog'
  BY <1>22 DEF HandOver
<1>23. ASSUME StartDrain PROVE FileFollowsLog'
  BY <1>23 DEF StartDrain, BeginPass
<1>24. ASSUME NextPass PROVE FileFollowsLog'
  BY <1>24 DEF NextPass, BeginPass
<1>25. ASSUME DrainCut PROVE FileFollowsLog'
  BY <1>25 DEF DrainCut
<1>26. ASSUME NEW c \in Change, Replay(c) PROVE FileFollowsLog'
  BY <1>26 DEF Replay, KeepEntries, Emit
<1>27. ASSUME NEW c \in Change, ReplayFails(c) PROVE FileFollowsLog'
  BY <1>27 DEF ReplayFails, Halt
<1>28. ASSUME NEW c \in Change, ReplayMoot(c) PROVE FileFollowsLog'
  BY <1>28 DEF ReplayMoot, KeepEntries, Touch
<1>29. ASSUME NEW c \in Change, ReplayOk(c) PROVE FileFollowsLog'
  BY <1>29 DEF ReplayOk, KeepEntries, Answered
<1>30. ASSUME NEW c \in Change, ReplayGone(c) PROVE FileFollowsLog'
  BY <1>30 DEF ReplayGone, KeepEntries, Touch, Answered
<1>31. ASSUME NEW c \in Change, ReplayAgain(c) PROVE FileFollowsLog'
  BY <1>31 DEF ReplayAgain, KeepEntries, Answered, Halt
<1>32. ASSUME NEW c \in Change, RecordReplayed(c) PROVE FileFollowsLog'
  BY <1>32 DEF RecordReplayed, KeepEntries, Touch
<1>33. ASSUME NEW c \in Change, RecordReplayedFails(c) PROVE FileFollowsLog'
  BY <1>33 DEF RecordReplayedFails, KeepEntries
<1>34. ASSUME ServerQueuePasses PROVE FileFollowsLog'
  BY <1>34 DEF ServerQueuePasses
<1>35. ASSUME NEW p \in wire, Lose(p) PROVE FileFollowsLog'
  BY <1>35 DEF Lose
<1>36. ASSUME NEW p \in wire, ServerApplies(p) PROVE FileFollowsLog'
  BY <1>36 DEF ServerApplies, Handle
<1>37. ASSUME NEW p \in wire, ServerKnows(p) PROVE FileFollowsLog'
  BY <1>37 DEF ServerKnows, Handle
<1>38. ASSUME NEW p \in wire, ServerRefuses(p) PROVE FileFollowsLog'
  BY <1>38 DEF ServerRefuses, Handle
<1>39. ASSUME NEW p \in wire, ServerBusy(p) PROVE FileFollowsLog'
  BY <1>39 DEF ServerBusy, Handle
<1>40. CASE UNCHANGED vars
  BY <1>40 DEF vars
<1>41. QED
  BY <1>1, <1>2, <1>3, <1>4, <1>5, <1>6, <1>7, <1>8, <1>9, <1>10, <1>11, <1>12,
     <1>13, <1>14, <1>15, <1>16, <1>17, <1>18, <1>19, <1>20, <1>21, <1>22, <1>23,
     <1>24, <1>25, <1>26, <1>27, <1>28, <1>29, <1>30, <1>31, <1>32, <1>33, <1>34,
     <1>35, <1>36, <1>37, <1>38, <1>39, <1>40
  DEF Next, LogNext, LiveNext, ConnectNext, DrainNext, ServerNext

\* A change keeps one id out at most: a new one is drawn only for a change
\* with none out (sendOp of a new change, settleUnanswered after op_voided).
LEMMA OneIdStep ==
    ASSUME IInv, [Next]_vars
    PROVE  OneIdOut'
<1> USE DEF IInv, TypeOK, IdsDrawn, FileFollowsLog, OneIdOut, Out, InLog, InFlight, Pending,
    Emitting, OpIds, Packet, In, IdOf, logVars, fileVars, linkVars, netVars, histVars
<1>1. ASSUME StartWrite PROVE OneIdOut'
  BY <1>1 DEF StartWrite, Serialized
<1>2. ASSUME FinishWrite PROVE OneIdOut'
  BY <1>2 DEF FinishWrite
<1>3. ASSUME FailWrite PROVE OneIdOut'
  BY <1>3 DEF FailWrite
<1>4. ASSUME CrashAndRestart PROVE OneIdOut'
  BY <1>4 DEF CrashAndRestart
<1>5. ASSUME NEW c \in Change, Take(c) PROVE OneIdOut'
  BY <1>5 DEF Take, Draw, NewEntry, Touch
<1>6. ASSUME NEW c \in Change, SendRecorded(c) PROVE OneIdOut'
  BY <1>6 DEF SendRecorded, KeepEntries, Touch, Emit
<1>7. ASSUME NEW c \in Change, SendUnwritten(c) PROVE OneIdOut'
  BY <1>7 DEF SendUnwritten, KeepEntries, Touch
<1>8. ASSUME NEW c \in Change, LiveOk(c) PROVE OneIdOut'
  BY <1>8 DEF LiveOk, KeepEntries, Answered
<1>9. ASSUME NEW c \in Change, LiveGone(c) PROVE OneIdOut'
  BY <1>9 DEF LiveGone, KeepEntries, Touch, Answered
<1>10. ASSUME NEW c \in Change, LiveAgain(c) PROVE OneIdOut'
  BY <1>10 DEF LiveAgain, KeepEntries, Touch, Answered
<1>11. ASSUME NEW c \in Change, RecordLive(c) PROVE OneIdOut'
  BY <1>11 DEF RecordLive, KeepEntries, Touch
<1>12. ASSUME NEW c \in Change, RecordLiveFails(c) PROVE OneIdOut'
  BY <1>12 DEF RecordLiveFails, KeepEntries, Touch
<1>13. ASSUME Connect PROVE OneIdOut'
  BY <1>13 DEF Connect, BeginFlow
<1>14. ASSUME Drop PROVE OneIdOut'
  BY <1>14 DEF Drop, KeepEntries, Touch
<1>15. ASSUME AnswerStatus PROVE OneIdOut'
  BY <1>15 DEF AnswerStatus
<1>16. ASSUME NEW c \in Change, SettleRow(c) PROVE OneIdOut'
  BY <1>16 DEF SettleRow, KeepEntries, Touch, Draw
<1>17. ASSUME SettleVoided PROVE OneIdOut'
  BY <1>17 DEF SettleVoided, Draw, Touch
<1>18. ASSUME Settled PROVE OneIdOut'
  BY <1>18 DEF Settled
<1>19. ASSUME FlowFails PROVE OneIdOut'
  BY <1>19 DEF FlowFails
<1>20. ASSUME JoinRefused PROVE OneIdOut'
  BY <1>20 DEF JoinRefused
<1>21. ASSUME JoinAgain PROVE OneIdOut'
  BY <1>21 DEF JoinAgain, BeginFlow
<1>22. ASSUME HandOver PROVE OneIdOut'
  BY <1>22 DEF HandOver
<1>23. ASSUME StartDrain PROVE OneIdOut'
  BY <1>23 DEF StartDrain, BeginPass
<1>24. ASSUME NextPass PROVE OneIdOut'
  BY <1>24 DEF NextPass, BeginPass
<1>25. ASSUME DrainCut PROVE OneIdOut'
  BY <1>25 DEF DrainCut
<1>26. ASSUME NEW c \in Change, Replay(c) PROVE OneIdOut'
  BY <1>26 DEF Replay, KeepEntries, Emit
<1>27. ASSUME NEW c \in Change, ReplayFails(c) PROVE OneIdOut'
  BY <1>27 DEF ReplayFails, Halt
<1>28. ASSUME NEW c \in Change, ReplayMoot(c) PROVE OneIdOut'
  BY <1>28 DEF ReplayMoot, KeepEntries, Touch
<1>29. ASSUME NEW c \in Change, ReplayOk(c) PROVE OneIdOut'
  BY <1>29 DEF ReplayOk, KeepEntries, Answered
<1>30. ASSUME NEW c \in Change, ReplayGone(c) PROVE OneIdOut'
  BY <1>30 DEF ReplayGone, KeepEntries, Touch, Answered
<1>31. ASSUME NEW c \in Change, ReplayAgain(c) PROVE OneIdOut'
  BY <1>31 DEF ReplayAgain, KeepEntries, Answered, Halt
<1>32. ASSUME NEW c \in Change, RecordReplayed(c) PROVE OneIdOut'
  BY <1>32 DEF RecordReplayed, KeepEntries, Touch
<1>33. ASSUME NEW c \in Change, RecordReplayedFails(c) PROVE OneIdOut'
  BY <1>33 DEF RecordReplayedFails, KeepEntries
<1>34. ASSUME ServerQueuePasses PROVE OneIdOut'
  BY <1>34 DEF ServerQueuePasses
<1>35. ASSUME NEW p \in wire, Lose(p) PROVE OneIdOut'
  BY <1>35 DEF Lose
<1>36. ASSUME NEW p \in wire, ServerApplies(p) PROVE OneIdOut'
  <2>1. /\ applied' = applied \cup {<<p.c, p.n>>} /\ wire' = wire \ {p}
        /\ <<p.c, p.n>> \notin applied \cup voided
        /\ UNCHANGED <<stage, opId, disk, snap, writing, voided, link, asked>>
    BY <1>36 DEF ServerApplies, Handle, Known
  <2>2. \A x \in Out' : x \in Out
    BY <2>1
  <2>3. /\ applied' \cap voided' = {}
        /\ link' = "rows" => asked' \subseteq applied' \cup voided'
    BY <2>1
  <2>4. QED
    BY <2>1, <2>2, <2>3
<1>37. ASSUME NEW p \in wire, ServerKnows(p) PROVE OneIdOut'
  BY <1>37 DEF ServerKnows, Handle
<1>38. ASSUME NEW p \in wire, ServerRefuses(p) PROVE OneIdOut'
  BY <1>38 DEF ServerRefuses, Handle
<1>39. ASSUME NEW p \in wire, ServerBusy(p) PROVE OneIdOut'
  BY <1>39 DEF ServerBusy, Handle
<1>40. CASE UNCHANGED vars
  BY <1>40 DEF vars
<1>41. QED
  BY <1>1, <1>2, <1>3, <1>4, <1>5, <1>6, <1>7, <1>8, <1>9, <1>10, <1>11, <1>12,
     <1>13, <1>14, <1>15, <1>16, <1>17, <1>18, <1>19, <1>20, <1>21, <1>22, <1>23,
     <1>24, <1>25, <1>26, <1>27, <1>28, <1>29, <1>30, <1>31, <1>32, <1>33, <1>34,
     <1>35, <1>36, <1>37, <1>38, <1>39, <1>40
  DEF Next, LogNext, LiveNext, ConnectNext, DrainNext, ServerNext

\* No answer on the connection says op_voided.
LEMMA NoVoidedStep ==
    ASSUME IInv, [Next]_vars
    PROVE  NoVoidedAnswer'
<1> USE DEF IInv, TypeOK, Packet, NoVoidedAnswer, OneExchange, Known,
    logVars, fileVars, linkVars, netVars, histVars
<1>1. ASSUME StartWrite PROVE NoVoidedAnswer'
  BY <1>1 DEF StartWrite
<1>2. ASSUME FinishWrite PROVE NoVoidedAnswer'
  BY <1>2 DEF FinishWrite
<1>3. ASSUME FailWrite PROVE NoVoidedAnswer'
  BY <1>3 DEF FailWrite
<1>4. ASSUME CrashAndRestart PROVE NoVoidedAnswer'
  BY <1>4 DEF CrashAndRestart
<1>5. ASSUME NEW c \in Change, Take(c) PROVE NoVoidedAnswer'
  BY <1>5 DEF Take, Draw, NewEntry, Touch
<1>6. ASSUME NEW c \in Change, SendRecorded(c) PROVE NoVoidedAnswer'
  BY <1>6 DEF SendRecorded, KeepEntries, Touch, Emit
<1>7. ASSUME NEW c \in Change, SendUnwritten(c) PROVE NoVoidedAnswer'
  BY <1>7 DEF SendUnwritten, KeepEntries, Touch
<1>8. ASSUME NEW c \in Change, LiveOk(c) PROVE NoVoidedAnswer'
  BY <1>8 DEF LiveOk, KeepEntries, Answered
<1>9. ASSUME NEW c \in Change, LiveGone(c) PROVE NoVoidedAnswer'
  BY <1>9 DEF LiveGone, KeepEntries, Touch, Answered
<1>10. ASSUME NEW c \in Change, LiveAgain(c) PROVE NoVoidedAnswer'
  BY <1>10 DEF LiveAgain, KeepEntries, Touch, Answered
<1>11. ASSUME NEW c \in Change, RecordLive(c) PROVE NoVoidedAnswer'
  BY <1>11 DEF RecordLive, KeepEntries, Touch
<1>12. ASSUME NEW c \in Change, RecordLiveFails(c) PROVE NoVoidedAnswer'
  BY <1>12 DEF RecordLiveFails, KeepEntries, Touch
<1>13. ASSUME Connect PROVE NoVoidedAnswer'
  BY <1>13 DEF Connect, BeginFlow
<1>14. ASSUME Drop PROVE NoVoidedAnswer'
  BY <1>14 DEF Drop, KeepEntries, Touch
<1>15. ASSUME AnswerStatus PROVE NoVoidedAnswer'
  BY <1>15 DEF AnswerStatus
<1>16. ASSUME NEW c \in Change, SettleRow(c) PROVE NoVoidedAnswer'
  BY <1>16 DEF SettleRow, KeepEntries, Touch, Draw
<1>17. ASSUME SettleVoided PROVE NoVoidedAnswer'
  BY <1>17 DEF SettleVoided, Draw, Touch
<1>18. ASSUME Settled PROVE NoVoidedAnswer'
  BY <1>18 DEF Settled
<1>19. ASSUME FlowFails PROVE NoVoidedAnswer'
  BY <1>19 DEF FlowFails
<1>20. ASSUME JoinRefused PROVE NoVoidedAnswer'
  BY <1>20 DEF JoinRefused
<1>21. ASSUME JoinAgain PROVE NoVoidedAnswer'
  BY <1>21 DEF JoinAgain, BeginFlow
<1>22. ASSUME HandOver PROVE NoVoidedAnswer'
  BY <1>22 DEF HandOver
<1>23. ASSUME StartDrain PROVE NoVoidedAnswer'
  BY <1>23 DEF StartDrain, BeginPass
<1>24. ASSUME NextPass PROVE NoVoidedAnswer'
  BY <1>24 DEF NextPass, BeginPass
<1>25. ASSUME DrainCut PROVE NoVoidedAnswer'
  BY <1>25 DEF DrainCut
<1>26. ASSUME NEW c \in Change, Replay(c) PROVE NoVoidedAnswer'
  BY <1>26 DEF Replay, KeepEntries, Emit
<1>27. ASSUME NEW c \in Change, ReplayFails(c) PROVE NoVoidedAnswer'
  BY <1>27 DEF ReplayFails, Halt
<1>28. ASSUME NEW c \in Change, ReplayMoot(c) PROVE NoVoidedAnswer'
  BY <1>28 DEF ReplayMoot, KeepEntries, Touch
<1>29. ASSUME NEW c \in Change, ReplayOk(c) PROVE NoVoidedAnswer'
  BY <1>29 DEF ReplayOk, KeepEntries, Answered
<1>30. ASSUME NEW c \in Change, ReplayGone(c) PROVE NoVoidedAnswer'
  BY <1>30 DEF ReplayGone, KeepEntries, Touch, Answered
<1>31. ASSUME NEW c \in Change, ReplayAgain(c) PROVE NoVoidedAnswer'
  BY <1>31 DEF ReplayAgain, KeepEntries, Answered, Halt
<1>32. ASSUME NEW c \in Change, RecordReplayed(c) PROVE NoVoidedAnswer'
  BY <1>32 DEF RecordReplayed, KeepEntries, Touch
<1>33. ASSUME NEW c \in Change, RecordReplayedFails(c) PROVE NoVoidedAnswer'
  BY <1>33 DEF RecordReplayedFails, KeepEntries
<1>34. ASSUME ServerQueuePasses PROVE NoVoidedAnswer'
  BY <1>34 DEF ServerQueuePasses
<1>35. ASSUME NEW p \in wire, Lose(p) PROVE NoVoidedAnswer'
  BY <1>35 DEF Lose
<1>36. ASSUME NEW p \in wire, ServerApplies(p) PROVE NoVoidedAnswer'
  BY <1>36 DEF ServerApplies, Handle
<1>37. ASSUME NEW p \in wire, ServerKnows(p) PROVE NoVoidedAnswer'
  BY <1>37 DEF ServerKnows, Handle
<1>38. ASSUME NEW p \in wire, ServerRefuses(p) PROVE NoVoidedAnswer'
  BY <1>38 DEF ServerRefuses, Handle
<1>39. ASSUME NEW p \in wire, ServerBusy(p) PROVE NoVoidedAnswer'
  BY <1>39 DEF ServerBusy, Handle
<1>40. CASE UNCHANGED vars
  BY <1>40 DEF vars
<1>41. QED
  BY <1>1, <1>2, <1>3, <1>4, <1>5, <1>6, <1>7, <1>8, <1>9, <1>10, <1>11, <1>12,
     <1>13, <1>14, <1>15, <1>16, <1>17, <1>18, <1>19, <1>20, <1>21, <1>22, <1>23,
     <1>24, <1>25, <1>26, <1>27, <1>28, <1>29, <1>30, <1>31, <1>32, <1>33, <1>34,
     <1>35, <1>36, <1>37, <1>38, <1>39, <1>40
  DEF Next, LogNext, LiveNext, ConnectNext, DrainNext, ServerNext

\* Requests and answers of the open connection pair up with the entries.
LEMMA ExchangeStep ==
    ASSUME IInv, [Next]_vars
    PROVE  OneExchange'
<1> USE DEF IInv, TypeOK, IdsDrawn, FileFollowsLog, OneIdOut, Out, NoVoidedAnswer, OneExchange,
    AskedFirst, InLog, InFlight, Pending, Emitting, OpIds, Packet, Answer, In, IdOf, Known,
    logVars, fileVars, linkVars, netVars, histVars
<1>1. ASSUME StartWrite PROVE OneExchange'
  BY <1>1 DEF StartWrite
<1>2. ASSUME FinishWrite PROVE OneExchange'
  BY <1>2 DEF FinishWrite
<1>3. ASSUME FailWrite PROVE OneExchange'
  BY <1>3 DEF FailWrite
<1>4. ASSUME CrashAndRestart PROVE OneExchange'
  BY <1>4 DEF CrashAndRestart
<1>5. ASSUME NEW c \in Change, Take(c) PROVE OneExchange'
  <2>1. \A d \in Change \ {c} : stage'[d] = stage[d] /\ opId'[d] = opId[d]
    BY <1>5 DEF Take, Draw, NewEntry, Touch
  <2>2. stage[c] = "none" /\ stage'[c] \in {"recorded", "queued"}
    BY <1>5 DEF Take, Draw, NewEntry, Touch
  <2>3. UNCHANGED <<link, connects, wire, answers, applied, voided>>
    BY <1>5 DEF Take, Draw, NewEntry, Touch
  <2>4. /\ \A p \in wire : p.k = connects /\ link # "down" => p.c \in Change \ {c}
        /\ \A a \in answers : a.c \in Change \ {c}
    BY <2>2
  <2>5. \A d \in Change \ {c} : IdOf(d)' = IdOf(d)
    BY <2>1
  <2>6. \A d \in Change : stage'[d] \in Emitting => d # c
    BY <2>2
  <2>7. /\ (link = "down" => answers = {})'
        /\ \A d \in Change : (stage[d] = "sent" => link # "down")'
        /\ \A d \in Change : (stage[d] = "replayed" => link = "up")'
        /\ \A p \in wire' : (p.k <= connects)'
        /\ \A d \in Change : (stage[d] \in {"answered", "replayedOk"} => IdOf(d) \in applied)'
    BY <2>1, <2>3, <2>5, <2>6
  <2>8. QED
    BY <2>1, <2>3, <2>4, <2>5, <2>7
<1>6. ASSUME NEW c \in Change, SendRecorded(c) PROVE OneExchange'
  <2>1. CASE stage'[c] = "sent"
    <3>1. /\ stage' = [stage EXCEPT ![c] = "sent"]
          /\ wire' = wire \cup {[c |-> c, n |-> opId[c], k |-> connects]}
          /\ link \in {"join", "up"} /\ stage[c] = "recorded"
          /\ UNCHANGED <<opId, link, connects, answers, applied, voided>>
      BY <1>6, <2>1 DEF SendRecorded, KeepEntries, Touch, Emit, MayEmit, CanSendLive
    <3>2. <<c, opId[c]>> \notin voided
      BY <3>1
    <3>3. \A p \in wire : p.k = connects => p.c # c
      BY <3>1
    <3>4. QED
      BY <3>1, <3>2, <3>3
  <2>2. CASE stage'[c] # "sent"
    <3>1. /\ stage' = [stage EXCEPT ![c] = "queued"] /\ stage[c] = "recorded"
          /\ UNCHANGED <<opId, link, connects, wire, answers, applied, voided>>
      BY <1>6, <2>2 DEF SendRecorded, KeepEntries, Touch, Emit
    <3>2. QED
      BY <3>1
  <2>3. QED
    BY <2>1, <2>2
<1>7. ASSUME NEW c \in Change, SendUnwritten(c) PROVE OneExchange'
  BY <1>7 DEF SendUnwritten, KeepEntries, Touch
<1>8. ASSUME NEW c \in Change, LiveOk(c) PROVE OneExchange'
  BY <1>8 DEF LiveOk, KeepEntries, Answered
<1>9. ASSUME NEW c \in Change, LiveGone(c) PROVE OneExchange'
  BY <1>9 DEF LiveGone, KeepEntries, Touch, Answered
<1>10. ASSUME NEW c \in Change, LiveAgain(c) PROVE OneExchange'
  BY <1>10 DEF LiveAgain, KeepEntries, Touch, Answered
<1>11. ASSUME NEW c \in Change, RecordLive(c) PROVE OneExchange'
  BY <1>11 DEF RecordLive, KeepEntries, Touch
<1>12. ASSUME NEW c \in Change, RecordLiveFails(c) PROVE OneExchange'
  BY <1>12 DEF RecordLiveFails, KeepEntries, Touch
<1>13. ASSUME Connect PROVE OneExchange'
  BY <1>13 DEF Connect, BeginFlow
<1>14. ASSUME Drop PROVE OneExchange'
  BY <1>14 DEF Drop, KeepEntries, Touch
<1>15. ASSUME AnswerStatus PROVE OneExchange'
  BY <1>15 DEF AnswerStatus
<1>16. ASSUME NEW c \in Change, SettleRow(c) PROVE OneExchange'
  <2>1. /\ link = "rows" /\ UNCHANGED <<link, connects, wire, answers, applied, voided>>
    BY <1>16 DEF SettleRow, KeepEntries, Touch, Draw
  <2>2. /\ \A d \in Change : stage[d] = "sent" => stage'[d] = "sent"
        /\ \A d \in Change : stage'[d] \in Emitting => stage'[d] = stage[d]
        /\ \A d \in Change : stage[d] # "none" => opId'[d] = opId[d]
    BY <1>16 DEF SettleRow, KeepEntries, Touch, Draw
  <2>3. /\ \A p \in wire : p.k = connects => stage[p.c] = "sent" /\ p.c \in Change
        /\ \A a \in answers : stage[a.c] = "sent" /\ a.c \in Change
    <3>1. \A d \in Change : stage[d] # "replayed"
      BY <2>1
    <3>2. ASSUME NEW p \in wire, p.k = connects PROVE stage[p.c] = "sent" /\ p.c \in Change
      BY <2>1, <3>1, <3>2, CurrentPacket
    <3>3. ASSUME NEW a \in answers PROVE stage[a.c] = "sent" /\ a.c \in Change
      <4>1. stage[a.c] \in {"sent", "replayed"} /\ a.c \in Change
        BY PendingAnswer
      <4>2. QED
        BY <3>1, <4>1
    <3>4. QED
      BY <3>2, <3>3
  <2>4. /\ \A p \in wire : p.k = connects => stage'[p.c] = "sent" /\ opId'[p.c] = opId[p.c]
        /\ \A a \in answers : stage'[a.c] = "sent" /\ IdOf(a.c)' = IdOf(a.c)
    BY <2>2, <2>3
  <2>5. /\ \A d \in Change : (stage[d] = "sent" => link # "down")'
        /\ \A d \in Change : (stage[d] = "replayed" => link = "up")'
        /\ \A d \in Change : (stage[d] \in {"answered", "replayedOk"} => IdOf(d) \in applied)'
    BY <2>1, <2>2
  <2>6. QED
    BY <2>1, <2>4, <2>5
<1>17. ASSUME SettleVoided PROVE OneExchange'
  BY <1>17 DEF SettleVoided, Draw, Touch
<1>18. ASSUME Settled PROVE OneExchange'
  BY <1>18 DEF Settled
<1>19. ASSUME FlowFails PROVE OneExchange'
  BY <1>19 DEF FlowFails
<1>20. ASSUME JoinRefused PROVE OneExchange'
  BY <1>20 DEF JoinRefused
<1>21. ASSUME JoinAgain PROVE OneExchange'
  BY <1>21 DEF JoinAgain, BeginFlow
<1>22. ASSUME HandOver PROVE OneExchange'
  BY <1>22 DEF HandOver
<1>23. ASSUME StartDrain PROVE OneExchange'
  BY <1>23 DEF StartDrain, BeginPass
<1>24. ASSUME NextPass PROVE OneExchange'
  BY <1>24 DEF NextPass, BeginPass
<1>25. ASSUME DrainCut PROVE OneExchange'
  BY <1>25 DEF DrainCut
<1>26. ASSUME NEW c \in Change, Replay(c) PROVE OneExchange'
  <2>1. /\ stage' = [stage EXCEPT ![c] = "replayed"] /\ stage[c] = "queued"
        /\ wire' = wire \cup {[c |-> c, n |-> opId[c], k |-> connects]}
        /\ link = "up"
        /\ UNCHANGED <<opId, link, connects, answers, applied, voided>>
    BY <1>26 DEF Replay, KeepEntries, Emit, DrainLive
  <2>2. <<c, opId[c]>> \notin voided
    BY <2>1
  <2>3. \A p \in wire : p.k = connects => p.c # c
    BY <2>1
  <2>4. QED
    BY <2>1, <2>2, <2>3
<1>27. ASSUME NEW c \in Change, ReplayFails(c) PROVE OneExchange'
  BY <1>27 DEF ReplayFails, Halt
<1>28. ASSUME NEW c \in Change, ReplayMoot(c) PROVE OneExchange'
  BY <1>28 DEF ReplayMoot, KeepEntries, Touch
<1>29. ASSUME NEW c \in Change, ReplayOk(c) PROVE OneExchange'
  BY <1>29 DEF ReplayOk, KeepEntries, Answered
<1>30. ASSUME NEW c \in Change, ReplayGone(c) PROVE OneExchange'
  BY <1>30 DEF ReplayGone, KeepEntries, Touch, Answered
<1>31. ASSUME NEW c \in Change, ReplayAgain(c) PROVE OneExchange'
  BY <1>31 DEF ReplayAgain, KeepEntries, Answered, Halt
<1>32. ASSUME NEW c \in Change, RecordReplayed(c) PROVE OneExchange'
  BY <1>32 DEF RecordReplayed, KeepEntries, Touch
<1>33. ASSUME NEW c \in Change, RecordReplayedFails(c) PROVE OneExchange'
  BY <1>33 DEF RecordReplayedFails, KeepEntries
<1>34. ASSUME ServerQueuePasses PROVE OneExchange'
  BY <1>34 DEF ServerQueuePasses
<1>35. ASSUME NEW p \in wire, Lose(p) PROVE OneExchange'
  BY <1>35 DEF Lose
<1>36. ASSUME NEW p \in wire, ServerApplies(p) PROVE OneExchange'
  BY <1>36 DEF ServerApplies, Handle
<1>37. ASSUME NEW p \in wire, ServerKnows(p) PROVE OneExchange'
  BY <1>37 DEF ServerKnows, Handle
<1>38. ASSUME NEW p \in wire, ServerRefuses(p) PROVE OneExchange'
  BY <1>38 DEF ServerRefuses, Handle
<1>39. ASSUME NEW p \in wire, ServerBusy(p) PROVE OneExchange'
  <2>1. /\ wire' = wire \ {p}
        /\ answers' \in {answers, answers \cup {[c |-> p.c, kind |-> "busy"]}}
        /\ answers' # answers => p.k = connects /\ link # "down"
        /\ UNCHANGED <<stage, opId, link, connects, applied, voided>>
    BY <1>39 DEF ServerBusy, Handle
  <2>2. \A q \in wire' : q.k = connects /\ link # "down" /\ p.k = connects => q.c # p.c
    <3>1. SUFFICES ASSUME NEW q \in wire', q.k = connects, p.k = connects, link # "down"
                   PROVE  q.c # p.c
      OBVIOUS
    <3>2. p \in Packet /\ q \in Packet /\ q # p /\ q \in wire
      BY <2>1
    <3>3. q.n = opId[q.c] /\ p.n = opId[p.c]
      BY <3>1, <3>2
    <3>4. QED
      BY <3>1, <3>2, <3>3
  <2>3. ASSUME NEW a \in answers' \ answers
        PROVE  /\ a = [c |-> p.c, kind |-> "busy"] /\ p.k = connects /\ link # "down"
               /\ stage[p.c] \in {"sent", "replayed"} /\ \A b \in answers : b.c # p.c
    <3>1. a = [c |-> p.c, kind |-> "busy"] /\ p.k = connects /\ link # "down"
      BY <2>1, <2>3
    <3>2. QED
      BY <3>1, CurrentPacket
  <2>4. \A a, b \in answers' : a.c = b.c => a = b
    BY <2>1, <2>3
  <2>5. ASSUME NEW q \in wire', q.k = connects, link # "down", NEW a \in answers'
        PROVE  a.c # q.c
    <3>1. CASE a \in answers
      BY <2>1, <2>5, <3>1, CurrentPacket
    <3>2. CASE a \notin answers
      <4>1. a.c = p.c /\ p.k = connects
        BY <2>3, <3>2
      <4>2. QED
        BY <2>2, <2>5, <4>1
    <3>3. QED
      BY <3>1, <3>2
  <2>6. ASSUME NEW a \in answers'
        PROVE  /\ stage[a.c] \in {"sent", "replayed"}
               /\ a.kind = "ok" => IdOf(a.c) \in applied
    <3>1. CASE a \in answers
      BY <3>1
    <3>2. CASE a \notin answers
      <4>1. a = [c |-> p.c, kind |-> "busy"] /\ stage[p.c] \in {"sent", "replayed"}
        BY <2>3, <3>2
      <4>2. QED
        BY <4>1
    <3>3. QED
      BY <3>1, <3>2
  <2>7. QED
    BY <2>1, <2>4, <2>5, <2>6
<1>40. CASE UNCHANGED vars
  BY <1>40 DEF vars
<1>41. QED
  BY <1>1, <1>2, <1>3, <1>4, <1>5, <1>6, <1>7, <1>8, <1>9, <1>10, <1>11, <1>12,
     <1>13, <1>14, <1>15, <1>16, <1>17, <1>18, <1>19, <1>20, <1>21, <1>22, <1>23,
     <1>24, <1>25, <1>26, <1>27, <1>28, <1>29, <1>30, <1>31, <1>32, <1>33, <1>34,
     <1>35, <1>36, <1>37, <1>38, <1>39, <1>40
  DEF Next, LogNext, LiveNext, ConnectNext, DrainNext, ServerNext

\* What is unsettled from before is asked about before anything goes out.
LEMMA AskedStep ==
    ASSUME IInv, [Next]_vars
    PROVE  AskedFirst'
<1> USE DEF IInv, TypeOK, IdsDrawn, FileFollowsLog, OneIdOut, Out, OneExchange, AskedFirst,
    InLog, InFlight, Pending, Emitting, OpIds, Packet, In, IdOf, Known,
    logVars, fileVars, linkVars, netVars, histVars
<1>1. ASSUME StartWrite PROVE AskedFirst'
  BY <1>1 DEF StartWrite
<1>2. ASSUME FinishWrite PROVE AskedFirst'
  BY <1>2 DEF FinishWrite
<1>3. ASSUME FailWrite PROVE AskedFirst'
  BY <1>3 DEF FailWrite
<1>4. ASSUME CrashAndRestart PROVE AskedFirst'
  <2>1. /\ asked' = {} /\ link' = "down"
        /\ UNCHANGED <<disk, wire, applied, voided>>
    BY <1>4 DEF CrashAndRestart
  <2>2. \A c \in Change : disk[c] # 0 => stage'[c] = "queued" /\ opId'[c] = disk[c]
    BY <1>4 DEF CrashAndRestart
  <2>3. \A c \in Change : disk[c] = 0 => stage'[c] \notin InLog
    BY <1>4 DEF CrashAndRestart
  <2>4. \A p \in wire : <<p.c, p.n>> \notin applied \cup voided => disk[p.c] = p.n /\ p.n # 0
    <3>1. SUFFICES ASSUME NEW p \in wire, <<p.c, p.n>> \notin applied \cup voided
                   PROVE  disk[p.c] = p.n /\ p.n # 0
      OBVIOUS
    <3>2. p.c \in Change /\ stage[p.c] \in InLog /\ opId[p.c] = p.n
      BY <3>1
    <3>3. <<p.c, p.n>> \in Out
      BY <3>1
    <3>4. QED
      BY <3>2, <3>3
  <2>5. QED
    BY <2>1, <2>2, <2>3, <2>4
<1>5. ASSUME NEW c \in Change, Take(c) PROVE AskedFirst'
  BY <1>5 DEF Take, Draw, NewEntry, Touch
<1>6. ASSUME NEW c \in Change, SendRecorded(c) PROVE AskedFirst'
  <2>1. CASE stage'[c] = "sent"
    <3>1. /\ stage' = [stage EXCEPT ![c] = "sent"]
          /\ wire' = wire \cup {[c |-> c, n |-> opId[c], k |-> connects]}
          /\ link \in {"join", "up"} /\ stage[c] = "recorded"
          /\ UNCHANGED <<opId, link, connects, asked, applied, voided>>
      BY <1>6, <2>1 DEF SendRecorded, KeepEntries, Touch, Emit, MayEmit, CanSendLive
    <3>2. QED
      BY <3>1
  <2>2. CASE stage'[c] # "sent"
    <3>1. /\ stage' = [stage EXCEPT ![c] = "queued"] /\ stage[c] = "recorded"
          /\ UNCHANGED <<opId, link, connects, asked, wire, applied, voided>>
      BY <1>6, <2>2 DEF SendRecorded, KeepEntries, Touch, Emit
    <3>2. QED
      BY <3>1
  <2>3. QED
    BY <2>1, <2>2
<1>7. ASSUME NEW c \in Change, SendUnwritten(c) PROVE AskedFirst'
  BY <1>7 DEF SendUnwritten, KeepEntries, Touch
<1>8. ASSUME NEW c \in Change, LiveOk(c) PROVE AskedFirst'
  BY <1>8 DEF LiveOk, KeepEntries, Answered
<1>9. ASSUME NEW c \in Change, LiveGone(c) PROVE AskedFirst'
  BY <1>9 DEF LiveGone, KeepEntries, Touch, Answered
<1>10. ASSUME NEW c \in Change, LiveAgain(c) PROVE AskedFirst'
  BY <1>10 DEF LiveAgain, KeepEntries, Touch, Answered
<1>11. ASSUME NEW c \in Change, RecordLive(c) PROVE AskedFirst'
  BY <1>11 DEF RecordLive, KeepEntries, Touch
<1>12. ASSUME NEW c \in Change, RecordLiveFails(c) PROVE AskedFirst'
  BY <1>12 DEF RecordLiveFails, KeepEntries, Touch
<1>13. ASSUME Connect PROVE AskedFirst'
  BY <1>13 DEF Connect, BeginFlow
<1>14. ASSUME Drop PROVE AskedFirst'
  BY <1>14 DEF Drop, KeepEntries, Touch
<1>15. ASSUME AnswerStatus PROVE AskedFirst'
  BY <1>15 DEF AnswerStatus
<1>16. ASSUME NEW c \in Change, SettleRow(c) PROVE AskedFirst'
  BY <1>16 DEF SettleRow, KeepEntries, Touch, Draw
<1>17. ASSUME SettleVoided PROVE AskedFirst'
  BY <1>17 DEF SettleVoided, Draw, Touch
<1>18. ASSUME Settled PROVE AskedFirst'
  BY <1>18 DEF Settled
<1>19. ASSUME FlowFails PROVE AskedFirst'
  BY <1>19 DEF FlowFails
<1>20. ASSUME JoinRefused PROVE AskedFirst'
  BY <1>20 DEF JoinRefused
<1>21. ASSUME JoinAgain PROVE AskedFirst'
  BY <1>21 DEF JoinAgain, BeginFlow
<1>22. ASSUME HandOver PROVE AskedFirst'
  BY <1>22 DEF HandOver
<1>23. ASSUME StartDrain PROVE AskedFirst'
  BY <1>23 DEF StartDrain, BeginPass
<1>24. ASSUME NextPass PROVE AskedFirst'
  BY <1>24 DEF NextPass, BeginPass
<1>25. ASSUME DrainCut PROVE AskedFirst'
  BY <1>25 DEF DrainCut
<1>26. ASSUME NEW c \in Change, Replay(c) PROVE AskedFirst'
  <2>1. /\ stage' = [stage EXCEPT ![c] = "replayed"] /\ stage[c] = "queued"
        /\ wire' = wire \cup {[c |-> c, n |-> opId[c], k |-> connects]}
        /\ link = "up"
        /\ UNCHANGED <<opId, link, connects, asked, applied, voided>>
    BY <1>26 DEF Replay, KeepEntries, Emit, DrainLive
  <2>2. QED
    BY <2>1
<1>27. ASSUME NEW c \in Change, ReplayFails(c) PROVE AskedFirst'
  BY <1>27 DEF ReplayFails, Halt
<1>28. ASSUME NEW c \in Change, ReplayMoot(c) PROVE AskedFirst'
  <2>1. /\ stage' = [stage EXCEPT ![c] = "dropped"] /\ stage[c] = "queued"
        /\ link = "up"
        /\ UNCHANGED <<opId, link, connects, asked, wire, applied, voided>>
    BY <1>28 DEF ReplayMoot, KeepEntries, Touch, DrainLive
  <2>2. /\ \A p \in wire : <<p.c, p.n>> \notin applied \cup voided => p.c # c
        /\ \A d \in Change : stage'[d] \in InLog => d # c
    BY <2>1
  <2>3. \A d \in Change \ {c} : stage'[d] = stage[d]
    BY <2>1
  <2>4. QED
    BY <2>1, <2>2, <2>3
<1>29. ASSUME NEW c \in Change, ReplayOk(c) PROVE AskedFirst'
  BY <1>29 DEF ReplayOk, KeepEntries, Answered
<1>30. ASSUME NEW c \in Change, ReplayGone(c) PROVE AskedFirst'
  BY <1>30 DEF ReplayGone, KeepEntries, Touch, Answered
<1>31. ASSUME NEW c \in Change, ReplayAgain(c) PROVE AskedFirst'
  BY <1>31 DEF ReplayAgain, KeepEntries, Answered, Halt
<1>32. ASSUME NEW c \in Change, RecordReplayed(c) PROVE AskedFirst'
  BY <1>32 DEF RecordReplayed, KeepEntries, Touch
<1>33. ASSUME NEW c \in Change, RecordReplayedFails(c) PROVE AskedFirst'
  BY <1>33 DEF RecordReplayedFails, KeepEntries
<1>34. ASSUME ServerQueuePasses PROVE AskedFirst'
  BY <1>34 DEF ServerQueuePasses
<1>35. ASSUME NEW p \in wire, Lose(p) PROVE AskedFirst'
  BY <1>35 DEF Lose
<1>36. ASSUME NEW p \in wire, ServerApplies(p) PROVE AskedFirst'
  BY <1>36 DEF ServerApplies, Handle
<1>37. ASSUME NEW p \in wire, ServerKnows(p) PROVE AskedFirst'
  BY <1>37 DEF ServerKnows, Handle
<1>38. ASSUME NEW p \in wire, ServerRefuses(p) PROVE AskedFirst'
  BY <1>38 DEF ServerRefuses, Handle
<1>39. ASSUME NEW p \in wire, ServerBusy(p) PROVE AskedFirst'
  BY <1>39 DEF ServerBusy, Handle
<1>40. CASE UNCHANGED vars
  BY <1>40 DEF vars
<1>41. QED
  BY <1>1, <1>2, <1>3, <1>4, <1>5, <1>6, <1>7, <1>8, <1>9, <1>10, <1>11, <1>12,
     <1>13, <1>14, <1>15, <1>16, <1>17, <1>18, <1>19, <1>20, <1>21, <1>22, <1>23,
     <1>24, <1>25, <1>26, <1>27, <1>28, <1>29, <1>30, <1>31, <1>32, <1>33, <1>34,
     <1>35, <1>36, <1>37, <1>38, <1>39, <1>40
  DEF Next, LogNext, LiveNext, ConnectNext, DrainNext, ServerNext

\* A change leaves the log applied or refused, and the file after it.
LEMMA LeftStep ==
    ASSUME IInv, [Next]_vars
    PROVE  LeftForAReason'
<1> USE DEF IInv, TypeOK, IdsDrawn, FileFollowsLog, OneIdOut, Out, OneExchange, AskedFirst,
    LeftForAReason, InLog, InFlight, Pending, Emitting, OpIds, Packet, In, IdOf, IsApplied, Known,
    logVars, fileVars, linkVars, netVars, histVars
<1>1. ASSUME StartWrite PROVE LeftForAReason'
  <2>1. /\ snap' = [c \in Change |-> IF stage[c] \in InLog THEN opId[c] ELSE 0]
        /\ UNCHANGED <<stage, disk, applied, durable, refused>>
    BY <1>1 DEF StartWrite, Serialized
  <2>2. \A c \in Change : snap'[c] = 0 /\ disk[c] # 0 => stage[c] \in {"done", "dropped"}
    <3>1. SUFFICES ASSUME NEW c \in Change, snap'[c] = 0, disk[c] # 0
                   PROVE  stage[c] \in {"done", "dropped"}
      OBVIOUS
    <3>2. stage[c] \notin InLog /\ stage[c] # "none" /\ stage[c] \in Stage
      BY <2>1, <3>1
    <3>3. QED
      BY <3>2 DEF Stage
  <2>3. \A c \in durable : disk[c] = 0 => stage[c] \in {"done", "dropped"} /\ snap'[c] = 0
    BY <2>1
  <2>4. QED
    BY <2>1, <2>2, <2>3
<1>2. ASSUME FinishWrite PROVE LeftForAReason'
  BY <1>2 DEF FinishWrite
<1>3. ASSUME FailWrite PROVE LeftForAReason'
  BY <1>3 DEF FailWrite
<1>4. ASSUME CrashAndRestart PROVE LeftForAReason'
  BY <1>4 DEF CrashAndRestart
<1>5. ASSUME NEW c \in Change, Take(c) PROVE LeftForAReason'
  BY <1>5 DEF Take, Draw, NewEntry, Touch
<1>6. ASSUME NEW c \in Change, SendRecorded(c) PROVE LeftForAReason'
  BY <1>6 DEF SendRecorded, KeepEntries, Touch, Emit
<1>7. ASSUME NEW c \in Change, SendUnwritten(c) PROVE LeftForAReason'
  BY <1>7 DEF SendUnwritten, KeepEntries, Touch
<1>8. ASSUME NEW c \in Change, LiveOk(c) PROVE LeftForAReason'
  BY <1>8 DEF LiveOk, KeepEntries, Answered
<1>9. ASSUME NEW c \in Change, LiveGone(c) PROVE LeftForAReason'
  BY <1>9 DEF LiveGone, KeepEntries, Touch, Answered
<1>10. ASSUME NEW c \in Change, LiveAgain(c) PROVE LeftForAReason'
  BY <1>10 DEF LiveAgain, KeepEntries, Touch, Answered
<1>11. ASSUME NEW c \in Change, RecordLive(c) PROVE LeftForAReason'
  <2>1. IdOf(c) \in applied
    BY <1>11 DEF RecordLive, KeepEntries, Touch
  <2>2. IsApplied(c)
    BY <2>1
  <2>3. /\ stage' = [stage EXCEPT ![c] = "done"]
        /\ UNCHANGED <<disk, writing, snap, applied, durable, refused>>
    BY <1>11 DEF RecordLive, KeepEntries, Touch
  <2>4. QED
    BY <2>2, <2>3
<1>12. ASSUME NEW c \in Change, RecordLiveFails(c) PROVE LeftForAReason'
  BY <1>12 DEF RecordLiveFails, KeepEntries, Touch
<1>13. ASSUME Connect PROVE LeftForAReason'
  BY <1>13 DEF Connect, BeginFlow
<1>14. ASSUME Drop PROVE LeftForAReason'
  BY <1>14 DEF Drop, KeepEntries, Touch
<1>15. ASSUME AnswerStatus PROVE LeftForAReason'
  BY <1>15 DEF AnswerStatus
<1>16. ASSUME NEW c \in Change, SettleRow(c) PROVE LeftForAReason'
  BY <1>16 DEF SettleRow, KeepEntries, Touch, Draw
<1>17. ASSUME SettleVoided PROVE LeftForAReason'
  BY <1>17 DEF SettleVoided, Draw, Touch
<1>18. ASSUME Settled PROVE LeftForAReason'
  BY <1>18 DEF Settled
<1>19. ASSUME FlowFails PROVE LeftForAReason'
  BY <1>19 DEF FlowFails
<1>20. ASSUME JoinRefused PROVE LeftForAReason'
  BY <1>20 DEF JoinRefused
<1>21. ASSUME JoinAgain PROVE LeftForAReason'
  BY <1>21 DEF JoinAgain, BeginFlow
<1>22. ASSUME HandOver PROVE LeftForAReason'
  BY <1>22 DEF HandOver
<1>23. ASSUME StartDrain PROVE LeftForAReason'
  BY <1>23 DEF StartDrain, BeginPass
<1>24. ASSUME NextPass PROVE LeftForAReason'
  BY <1>24 DEF NextPass, BeginPass
<1>25. ASSUME DrainCut PROVE LeftForAReason'
  BY <1>25 DEF DrainCut
<1>26. ASSUME NEW c \in Change, Replay(c) PROVE LeftForAReason'
  BY <1>26 DEF Replay, KeepEntries, Emit
<1>27. ASSUME NEW c \in Change, ReplayFails(c) PROVE LeftForAReason'
  BY <1>27 DEF ReplayFails, Halt
<1>28. ASSUME NEW c \in Change, ReplayMoot(c) PROVE LeftForAReason'
  BY <1>28 DEF ReplayMoot, KeepEntries, Touch
<1>29. ASSUME NEW c \in Change, ReplayOk(c) PROVE LeftForAReason'
  BY <1>29 DEF ReplayOk, KeepEntries, Answered
<1>30. ASSUME NEW c \in Change, ReplayGone(c) PROVE LeftForAReason'
  BY <1>30 DEF ReplayGone, KeepEntries, Touch, Answered
<1>31. ASSUME NEW c \in Change, ReplayAgain(c) PROVE LeftForAReason'
  BY <1>31 DEF ReplayAgain, KeepEntries, Answered, Halt
<1>32. ASSUME NEW c \in Change, RecordReplayed(c) PROVE LeftForAReason'
  <2>1. IdOf(c) \in applied
    BY <1>32 DEF RecordReplayed, KeepEntries, Touch
  <2>2. IsApplied(c)
    BY <2>1
  <2>3. /\ stage' = [stage EXCEPT ![c] = "done"]
        /\ UNCHANGED <<disk, writing, snap, applied, durable, refused>>
    BY <1>32 DEF RecordReplayed, KeepEntries, Touch
  <2>4. QED
    BY <2>2, <2>3
<1>33. ASSUME NEW c \in Change, RecordReplayedFails(c) PROVE LeftForAReason'
  BY <1>33 DEF RecordReplayedFails, KeepEntries
<1>34. ASSUME ServerQueuePasses PROVE LeftForAReason'
  BY <1>34 DEF ServerQueuePasses
<1>35. ASSUME NEW p \in wire, Lose(p) PROVE LeftForAReason'
  BY <1>35 DEF Lose
<1>36. ASSUME NEW p \in wire, ServerApplies(p) PROVE LeftForAReason'
  <2>1. /\ applied' = applied \cup {<<p.c, p.n>>}
        /\ <<p.c, p.n>> \notin applied \cup voided
        /\ UNCHANGED <<stage, disk, writing, snap, durable, refused>>
    BY <1>36 DEF ServerApplies, Handle
  <2>2. p.c \in Change /\ disk[p.c] # 0
    <3>1. stage[p.c] \in InLog /\ p.n = opId[p.c]
      BY <2>1
    <3>2. <<p.c, p.n>> \in Out
      BY <2>1
    <3>3. QED
      BY <3>1, <3>2
  <2>3. p.c \in durable
    BY <2>2
  <2>4. QED
    BY <2>1, <2>3
<1>37. ASSUME NEW p \in wire, ServerKnows(p) PROVE LeftForAReason'
  BY <1>37 DEF ServerKnows, Handle
<1>38. ASSUME NEW p \in wire, ServerRefuses(p) PROVE LeftForAReason'
  BY <1>38 DEF ServerRefuses, Handle
<1>39. ASSUME NEW p \in wire, ServerBusy(p) PROVE LeftForAReason'
  BY <1>39 DEF ServerBusy, Handle
<1>40. CASE UNCHANGED vars
  BY <1>40 DEF vars
<1>41. QED
  BY <1>1, <1>2, <1>3, <1>4, <1>5, <1>6, <1>7, <1>8, <1>9, <1>10, <1>11, <1>12,
     <1>13, <1>14, <1>15, <1>16, <1>17, <1>18, <1>19, <1>20, <1>21, <1>22, <1>23,
     <1>24, <1>25, <1>26, <1>27, <1>28, <1>29, <1>30, <1>31, <1>32, <1>33, <1>34,
     <1>35, <1>36, <1>37, <1>38, <1>39, <1>40
  DEF Next, LogNext, LiveNext, ConnectNext, DrainNext, ServerNext

-----------------------------------------------------------------------------
(***************************************************************************)
(* The theorems.                                                           *)
(***************************************************************************)

\* The invariant holds as the plugin starts with an empty log.
LEMMA InitIInv == Init => IInv
<1> SUFFICES ASSUME Init PROVE IInv
  OBVIOUS
<1> USE DEF Init
<1>1. TypeOK
  BY DEF TypeOK, Stage, InLog, Link, OpenedGate, NoDrain
<1>2. IdsDrawn /\ FileFollowsLog
  BY DEF IdsDrawn, FileFollowsLog, InLog, InFlight, Pending, Emitting
<1>3. OneIdOut /\ NoVoidedAnswer
  BY DEF OneIdOut, Out, NoVoidedAnswer
<1>4. OneExchange /\ AskedFirst
  BY DEF OneExchange, AskedFirst, In, InLog, InFlight, Pending
<1>5. LeftForAReason
  BY DEF LeftForAReason
<1>6. QED
  BY <1>1, <1>2, <1>3, <1>4, <1>5 DEF IInv

\* The invariant is inductive.
LEMMA StepIInv == IInv /\ [Next]_vars => IInv'
<1> SUFFICES ASSUME IInv, [Next]_vars PROVE IInv'
  OBVIOUS
<1>1. TypeOK' /\ IdsDrawn' /\ FileFollowsLog'
  BY ConstantsAssumption, TypeStep, IdsStep, FileStep DEF IInv
<1>2. OneIdOut' /\ NoVoidedAnswer' /\ OneExchange' /\ AskedFirst' /\ LeftForAReason'
  BY OneIdStep, NoVoidedStep, ExchangeStep, AskedStep, LeftStep
<1>3. QED
  BY <1>1, <1>2 DEF IInv

\* The inductive invariant holds: the log, the file, the wire and the server
\* agree on the one id a change has out.
THEOREM InvariantHolds == Spec => []IInv
  BY InitIInv, StepIInv, PTL DEF Spec

\* The variables keep their types.
THEOREM TypesHold == Spec => []TypeOK
<1>1. IInv => TypeOK
  BY DEF IInv
<1>2. QED
  BY <1>1, InvariantHolds, PTL

\* However often a change is sent again, the server applies it at most once.
THEOREM AppliedAtMostOnce == Spec => []AtMostOnce
<1>1. IInv => AtMostOnce
  BY DEF IInv, OneIdOut, Out, AtMostOnce
<1>2. QED
  BY <1>1, InvariantHolds, PTL

\* Nothing goes out that a restart would not find in state.json.
THEOREM WrittenAhead == Spec => []WriteAhead
<1>1. ASSUME IInv PROVE WriteAhead
  <2>1. \A x \in Out : disk[x[1]] \in {0, x[2]}
    BY <1>1 DEF IInv, OneIdOut
  <2>2. \A p \in wire : <<p.c, p.n>> \notin voided => disk[p.c] \in {0, p.n}
    <3>1. SUFFICES ASSUME NEW p \in wire, <<p.c, p.n>> \notin voided
                   PROVE  disk[p.c] \in {0, p.n}
      OBVIOUS
    <3>2. <<p.c, p.n>> \in Out
      BY <3>1 DEF Out
    <3>3. QED
      BY <2>1, <3>2
  <2>3. \A x \in applied : disk[x[1]] \in {0, x[2]}
    BY <2>1 DEF Out
  <2>4. \A c \in Change : stage[c] \in {"sent", "replayed"} => disk[c] # 0
    BY <1>1 DEF IInv, IdsDrawn, FileFollowsLog, Emitting, InLog
  <2>5. \A p \in wire : p.c \in Change
    BY <1>1 DEF IInv, TypeOK, Packet
  <2>6. QED
    BY <2>2, <2>3, <2>4, <2>5 DEF WriteAhead
<1>2. QED
  BY <1>1, InvariantHolds, PTL

\* The engine meets no op_voided: the branches that handle it are not needed.
THEOREM VoidedNeverAnswered == Spec => []NoVoidedAnswer
<1>1. IInv => NoVoidedAnswer
  BY DEF IInv
<1>2. QED
  BY <1>1, InvariantHolds, PTL

-----------------------------------------------------------------------------
(***************************************************************************)
(* The refinement.  The document replaced is a Write of the abstract queue,*)
(* an operation applied is an Apply, and every other step leaves the       *)
(* status of every change alone.                                           *)
(***************************************************************************)

\* Replacing the document is a Write: what it adds was new, and what it takes
\* off without being applied was refused.
LEMMA DocumentReplaced ==
    ASSUME IInv, writing, disk' = snap,
           durable' = durable \cup {c \in Change : snap[c] # 0},
           UNCHANGED <<applied, refused>>
    PROVE  Queue!Next
<1> DEFINE in == {c \in Change : c \notin durable /\ snap[c] # 0}
           out == {c \in durable : disk[c] # 0 /\ snap[c] = 0 /\ ~IsApplied(c)}
<1>1. \A c \in Change : IsApplied(c) => c \in durable
  BY DEF IInv, LeftForAReason, IsApplied
<1>2. \A c \in in : status[c] = "new"
  BY <1>1 DEF status
<1>3. durable \subseteq Change
  BY DEF IInv, TypeOK
<1>4. \A c \in out : status[c] = "accepted" /\ c \in refused
  BY <1>3 DEF status, IInv, LeftForAReason
<1>5. \A c \in Change : IsApplied(c)' = IsApplied(c)
  BY DEF IsApplied
<1>6. \A c \in durable : disk[c] = 0 => snap[c] = 0
  BY DEF IInv, LeftForAReason
<1>7. status' = [c \in Change |-> IF c \in in THEN "accepted"
                                  ELSE IF c \in out THEN "givenup"
                                  ELSE status[c]]
  BY <1>1, <1>3, <1>5, <1>6 DEF status
<1>8. Queue!Write(in, out)
  BY <1>2, <1>4, <1>7 DEF Queue!Write
<1>9. in \in SUBSET Change /\ out \in SUBSET Change
  BY <1>3
<1> HIDE DEF in, out
<1>10. QED
  BY <1>8, <1>9 DEF Queue!Next

\* An id applied is the first of its change, and the change is on the disk.
LEMMA OperationApplied ==
    ASSUME IInv, NEW p \in wire, ServerApplies(p)
    PROVE  Queue!Apply(p.c) /\ p.c \in Change
<1>1. /\ applied' = applied \cup {<<p.c, p.n>>}
      /\ <<p.c, p.n>> \notin applied \cup voided
      /\ UNCHANGED <<disk, durable, refused>>
  BY DEF ServerApplies, Handle, Known, fileVars, histVars
<1>2. p \in Packet /\ p.c \in Change
  BY DEF IInv, TypeOK, Packet
<1>3. <<p.c, p.n>> \in Out
  BY <1>1 DEF Out
<1>4. stage[p.c] \in InLog /\ opId[p.c] = p.n
  BY <1>1, <1>2 DEF IInv, AskedFirst, OneExchange, InLog, InFlight, Pending
<1>5. disk[p.c] # 0
  BY <1>2, <1>3, <1>4 DEF IInv, OneIdOut, IdsDrawn
<1>6. p.c \in durable
  BY <1>2, <1>5 DEF IInv, LeftForAReason
<1>7. ~IsApplied(p.c)
  <2>1. SUFFICES ASSUME NEW x \in applied, x[1] = p.c PROVE FALSE
    BY DEF IsApplied
  <2>2. x \in Out /\ x = <<x[1], x[2]>>
    BY DEF Out, IInv, TypeOK, OpIds
  <2>3. x = <<p.c, p.n>>
    BY <1>3, <2>1, <2>2 DEF IInv, OneIdOut
  <2>4. QED
    BY <1>1, <2>3
<1>8. /\ IsApplied(p.c)'
      /\ \A c \in Change \ {p.c} : IsApplied(c)' = IsApplied(c)
  BY <1>1, <1>2 DEF IsApplied
<1>9. status[p.c] = "accepted" /\ status' = [status EXCEPT ![p.c] = "applied"]
  BY <1>1, <1>2, <1>5, <1>6, <1>7, <1>8 DEF status
<1>10. QED
  BY <1>1, <1>2, <1>9 DEF Queue!Apply

\* A step that leaves file and server alone at most refuses changes.
LEMMA StatusKept ==
    ASSUME UNCHANGED <<applied, durable, disk>>, refused \subseteq refused',
           refused' \subseteq Change
    PROVE  Queue!Next
<1>1. status' = status
  BY DEF status, IsApplied
<1>2. Queue!Refuse(refused')
  BY <1>1 DEF Queue!Refuse
<1>3. QED
  BY <1>2 DEF Queue!Next

\* All other steps leave file and server alone.
LEMMA OtherSteps ==
    ASSUME Next, ~FinishWrite, ~FailWrite, \A p \in wire : ~ServerApplies(p)
    PROVE  UNCHANGED <<applied, durable, disk>> /\ refused \subseteq refused'
<1> USE DEF logVars, fileVars, linkVars, netVars, histVars
<1>1. CASE LogNext
  BY <1>1 DEF LogNext, StartWrite, CrashAndRestart
<1>2. CASE \E c \in Change : LiveNext(c)
  BY <1>2 DEF LiveNext, Take, SendRecorded, SendUnwritten, LiveOk, LiveGone, LiveAgain,
     RecordLive, RecordLiveFails, Touch, Answered
<1>3. CASE ConnectNext
  BY <1>3 DEF ConnectNext, Connect, Drop, AnswerStatus, SettleRow, SettleVoided, Settled,
     FlowFails, JoinRefused, JoinAgain, HandOver, Touch
<1>4. CASE DrainNext
  BY <1>4 DEF DrainNext, StartDrain, NextPass, DrainCut, Replay, ReplayFails, ReplayMoot,
     ReplayOk, ReplayGone, ReplayAgain, RecordReplayed, RecordReplayedFails, Touch, Answered
<1>5. CASE ServerNext
  BY <1>5 DEF ServerNext, ServerQueuePasses, Lose, ServerKnows, ServerRefuses, ServerBusy,
     Handle
<1>6. QED
  BY <1>1, <1>2, <1>3, <1>4, <1>5 DEF Next

\* The protocol keeps what the queue promises: a change on disk stays there
\* until it is applied or somebody who may refuse it has, and is not applied
\* after that.
THEOREM ImplementsQueue == Spec => QueueSpec
<1>1. Init => Queue!Init
  BY DEF Init, Queue!Init, status, IsApplied
<1>2. ASSUME IInv, IInv', [Next]_vars PROVE [Queue!Next]_Queue!vars
  <2>1. refused' \subseteq Change
    BY <1>2 DEF IInv, TypeOK
  <2>2. CASE FinishWrite
    BY <1>2, <2>2, DocumentReplaced DEF FinishWrite, netVars
  <2>3. CASE FailWrite /\ UNCHANGED <<disk, durable>>
    BY <2>1, <2>3, StatusKept DEF FailWrite, netVars
  <2>4. CASE FailWrite /\ ~UNCHANGED <<disk, durable>>
    BY <1>2, <2>4, DocumentReplaced DEF FailWrite, netVars
  <2>5. ASSUME NEW p \in wire, ServerApplies(p) PROVE Queue!Next
    BY <1>2, <2>5, OperationApplied DEF Queue!Next
  <2>6. CASE UNCHANGED vars
    BY <2>6 DEF vars, netVars, histVars, fileVars, Queue!vars, status, IsApplied
  <2>7. CASE Next /\ ~FinishWrite /\ ~FailWrite /\ \A p \in wire : ~ServerApplies(p)
    BY <2>1, <2>7, OtherSteps, StatusKept
  <2>8. QED
    BY <1>2, <2>2, <2>3, <2>4, <2>5, <2>6, <2>7
<1>3. QED
  BY <1>1, <1>2, InvariantHolds, PTL DEF Spec, QueueSpec, Queue!Spec

-----------------------------------------------------------------------------
(***************************************************************************)
(* InOrder, where neither uploads nor writes fail and nothing is refused   *)
(* but busy or for good: what may be found queued on its way is queued in  *)
(* the order of its places.                                                *)
(***************************************************************************)
Smooth == ~WriteFails /\ Outcome \cap {"upload", "retry"} = {}

\* The drain gives up (DRAIN_PASSES_MAX) and opens the gate while changes that were sent
\* live are out.
GivesUpEarly == NextPass /\ gate.first /\ LiveInFlight /\ Replayable # {}

\* What may come back to the queue from a live send.
LiveOut == In({"recorded", "sent"}) \ Question
Before(S, T) == \A c \in S, d \in T : place[c] <= place[d]

Unhindered ==
    failed = {} /\ link \notin {"again", "stuck"} /\ \A a \in answers : a.kind # "retry"
\* Places are given in the order in which changes come.
Placed == \A c \in Change : stage[c] # "none" => place[c] < nextPlace
\* A write that has an entry has the ones recorded before it.
WrittenInOrder ==
    \A c \in In(InLog), d \in In({"recorded"}) : place[d] < place[c] =>
        /\ c \in written => d \in written
        /\ writing /\ snap[c] = opId[c] => snap[d] = opId[d]
\* The drain works for a connection that was handed its queue, on entries of the queue.
OwnDrain ==
    /\ drain.link <= connects
    /\ link \in {"ask", "rows", "save", "join"} => drain.link < connects
    /\ DrainLive => drain.pass \subseteq In(Pending)
\* While new changes go out at once, the queue is older than what was sent live.
QueueBefore == CanSendLive /\ ~gate.first => Before(Replayable, LiveOut)
\* A pass is older than what is not in it.
PassBefore ==
    DrainLive =>
        Before(drain.pass \cap In({"queued"}), LiveOut \cup (Replayable \ drain.pass))
SentLater == ~CanSendLive => In({"sent"}) = {}

OInv ==
    /\ Unhindered /\ Placed /\ WrittenInOrder /\ OwnDrain /\ QueueBefore /\ PassBefore
    /\ SentLater

\* Steps that only a failure or a refusal for now makes.
LEMMA NoHindrance ==
    ASSUME Smooth, Unhindered, IInv
    PROVE  /\ ~FailWrite /\ ~FlowFails /\ ~JoinRefused /\ ~JoinAgain
           /\ \A c \in Change : /\ ~SendUnwritten(c) /\ ~RecordLiveFails(c) /\ ~ReplayFails(c)
                                /\ ~RecordReplayedFails(c)
BY DEF Smooth, Unhindered, FailWrite, FlowFails, JoinRefused, JoinAgain, SendUnwritten,
    RecordLiveFails, ReplayFails, RecordReplayedFails, In

\* Every other step keeps OInv.
LEMMA OrderStep ==
    ASSUME Smooth, IInv, OInv, [Next]_vars, [~GivesUpEarly]_vars
    PROVE  OInv'
<1> USE DEF OInv, Unhindered, Placed, WrittenInOrder, OwnDrain, QueueBefore, PassBefore,
    SentLater, LiveOut, Before, Replayable, CanSendLive, DrainLive, TypeOK, Stage, InLog,
    InFlight, Pending, In, IdOf, logVars, fileVars, linkVars, netVars, histVars
<1>g. ~GivesUpEarly \/ UNCHANGED gate
  BY DEF vars
<1>t. TypeOK /\ IdsDrawn /\ \A c \in Change : disk[c] # 0 => stage[c] # "none"
  BY DEF IInv, FileFollowsLog
<1>1. ASSUME StartWrite PROVE OInv'
  BY <1>1, <1>t DEF StartWrite, Serialized
<1>2. ASSUME FinishWrite PROVE OInv'
  BY <1>2, <1>t DEF FinishWrite
<1>3. ASSUME CrashAndRestart PROVE OInv'
  BY <1>3, <1>t DEF CrashAndRestart, NoDrain, OpenedGate
<1>4. ASSUME NEW c \in Change, Take(c) PROVE OInv'
  BY <1>4, <1>t DEF Take, Draw, NewEntry, Touch, MayEmit, IdsDrawn, Smooth
<1>5. ASSUME NEW c \in Change, SendRecorded(c) PROVE OInv'
  BY <1>5, <1>t DEF SendRecorded, KeepEntries, Touch, Emit, MayEmit
<1>6. ASSUME NEW c \in Change, LiveOk(c) PROVE OInv'
  BY <1>6, <1>t DEF LiveOk, KeepEntries, Answered
<1>7. ASSUME NEW c \in Change, LiveGone(c) PROVE OInv'
  BY <1>7, <1>t DEF LiveGone, KeepEntries, Touch, Answered
<1>8. ASSUME NEW c \in Change, LiveAgain(c) PROVE OInv'
  BY <1>8, <1>t DEF LiveAgain, KeepEntries, Touch, Answered, GateClosed
<1>9. ASSUME NEW c \in Change, RecordLive(c) PROVE OInv'
  BY <1>9, <1>t DEF RecordLive, KeepEntries, Touch
<1>10. ASSUME Connect PROVE OInv'
  BY <1>10, <1>t DEF Connect, BeginFlow, OpenedGate
<1>11. ASSUME Drop PROVE OInv'
  BY <1>11, <1>t DEF Drop, KeepEntries, Touch
<1>12. ASSUME AnswerStatus PROVE OInv'
  BY <1>12, <1>t DEF AnswerStatus
<1>13. ASSUME NEW c \in Change, SettleRow(c) PROVE OInv'
  BY <1>13, <1>t DEF SettleRow, KeepEntries, Touch, Draw, IdsDrawn
<1>14. ASSUME SettleVoided PROVE OInv'
  BY <1>14, <1>t DEF SettleVoided, Draw, Touch, IdsDrawn
<1>15. ASSUME Settled PROVE OInv'
  BY <1>15, <1>t DEF Settled
<1>16. ASSUME HandOver PROVE OInv'
  BY <1>16, <1>t DEF HandOver
<1>17. ASSUME StartDrain PROVE OInv'
  BY <1>17, <1>t, <1>g, ConstantsAssumption DEF StartDrain, BeginPass, NoDrain, GateOpened,
         LiveInFlight
<1>18. ASSUME NextPass PROVE OInv'
  BY <1>18, <1>t, <1>g, ConstantsAssumption DEF NextPass, BeginPass, NoDrain, GateOpened,
         LiveInFlight, GivesUpEarly
<1>19. ASSUME DrainCut PROVE OInv'
  BY <1>19, <1>t DEF DrainCut, NoDrain
<1>20. ASSUME NEW c \in Change, Replay(c) PROVE OInv'
  BY <1>20, <1>t DEF Replay, KeepEntries, Emit
<1>21. ASSUME NEW c \in Change, ReplayMoot(c) PROVE OInv'
  BY <1>21, <1>t DEF ReplayMoot, KeepEntries, Touch, Head
<1>22. ASSUME NEW c \in Change, ReplayOk(c) PROVE OInv'
  BY <1>22, <1>t DEF ReplayOk, KeepEntries, Answered
<1>23. ASSUME NEW c \in Change, ReplayGone(c) PROVE OInv'
  BY <1>23, <1>t DEF ReplayGone, KeepEntries, Touch, Answered
<1>24. ASSUME NEW c \in Change, ReplayAgain(c) PROVE OInv'
  BY <1>24, <1>t DEF ReplayAgain, KeepEntries, Answered, Halt, GateHalted, GateClosed,
                     NoDrain
<1>25. ASSUME NEW c \in Change, RecordReplayed(c) PROVE OInv'
  BY <1>25, <1>t DEF RecordReplayed, KeepEntries, Touch
<1>26. ASSUME ServerQueuePasses PROVE OInv'
  BY <1>26, <1>t DEF ServerQueuePasses
<1>27. ASSUME NEW p \in wire, Lose(p) PROVE OInv'
  BY <1>27, <1>t DEF Lose
<1>28. ASSUME NEW p \in wire, ServerApplies(p) PROVE OInv'
  BY <1>28, <1>t DEF ServerApplies, Handle
<1>29. ASSUME NEW p \in wire, ServerKnows(p) PROVE OInv'
  BY <1>29, <1>t DEF ServerKnows, Handle
<1>30. ASSUME NEW p \in wire, ServerRefuses(p) PROVE OInv'
  BY <1>30, <1>t DEF ServerRefuses, Handle, Smooth
<1>31. ASSUME NEW p \in wire, ServerBusy(p) PROVE OInv'
  BY <1>31, <1>t DEF ServerBusy, Handle
<1>u. CASE UNCHANGED vars
  BY <1>u DEF vars
<1> QED
  BY NoHindrance, <1>u, <1>1, <1>2, <1>3, <1>4, <1>5, <1>6, <1>7, <1>8, <1>9, <1>10, <1>11,
     <1>12, <1>13, <1>14, <1>15, <1>16, <1>17, <1>18, <1>19, <1>20, <1>21, <1>22, <1>23,
     <1>24, <1>25, <1>26, <1>27, <1>28, <1>29, <1>30, <1>31 DEF Next, LogNext, LiveNext,
         ConnectNext, DrainNext, ServerNext

\* What emits.
LEMMA EmittedBy ==
    ASSUME [Next]_vars, NEW c \in Change, Emitted(c)
    PROVE  \E b \in Change : SendRecorded(b) \/ Replay(b)
<1> USE DEF Emitted, logVars, fileVars, linkVars, netVars, histVars
<1>1. LogNext => wire' = wire
  BY DEF LogNext, StartWrite, FinishWrite, FailWrite, CrashAndRestart
<1>2. \A b \in Change : LiveNext(b) /\ ~SendRecorded(b) => wire' = wire
  BY DEF LiveNext, Take, SendUnwritten, LiveOk, LiveGone, LiveAgain, RecordLive,
         RecordLiveFails, Answered
<1>3. ConnectNext => wire' = wire
  BY DEF ConnectNext, Connect, Drop, AnswerStatus, SettleRow, SettleVoided, Settled,
         FlowFails, JoinRefused, JoinAgain, HandOver
<1>4. DrainNext /\ (\A b \in Change : ~Replay(b)) => wire' = wire
  BY DEF DrainNext, StartDrain, NextPass, DrainCut, ReplayFails, ReplayMoot, ReplayOk,
         ReplayGone, ReplayAgain, RecordReplayed, RecordReplayedFails, Answered
<1>5. ServerNext => wire' \subseteq wire
  BY DEF ServerNext, ServerQueuePasses, Lose, ServerApplies, ServerKnows, ServerRefuses,
         ServerBusy, Handle
<1> QED
  BY <1>1, <1>2, <1>3, <1>4, <1>5 DEF Next, vars

\* While new changes wait behind those refused busy, a change goes out only after everything
\* queued before it (mayEmitOp, liveOpsSettled) - where uploads and writes work, nothing is
\* refused but busy or for good, and the drain does not give up while changes are out.
THEOREM SentInOrder ==
    ASSUME Smooth
    PROVE  Spec /\ [][~GivesUpEarly]_vars => InOrder
<1>1. ASSUME Init PROVE OInv
  BY <1>1 DEF Init, OInv, Unhindered, Placed, WrittenInOrder, OwnDrain, QueueBefore,
              PassBefore, SentLater, NoDrain, In, CanSendLive, DrainLive, InLog, InFlight,
              Pending
<1>2. IInv /\ OInv /\ [Next]_vars /\ [~GivesUpEarly]_vars => OInv'
  BY OrderStep
<1>3. IInv /\ OInv /\ [Next]_vars =>
        [gate.first => \A c \in Change \ Question :
            Emitted(c) => \A d \in Replayable : place[c] <= place[d]]_vars
  <2> SUFFICES ASSUME IInv, OInv, [Next]_vars, gate.first, NEW c \in Change \ Question,
                      Emitted(c), NEW d \in Replayable
               PROVE  place[c] <= place[d]
    OBVIOUS
  <2>1. \E b \in Change : SendRecorded(b) \/ Replay(b)
    BY EmittedBy
  <2>2. PICK b \in Change : SendRecorded(b) \/ Replay(b)
    BY <2>1
  <2>3. b = c
    BY <2>2 DEF Emitted, SendRecorded, Replay, Emit
  <2>4. ~SendRecorded(c)
    BY DEF SendRecorded, MayEmit, Emitted
  <2>5. Replay(c)
    BY <2>2, <2>3, <2>4
  <2> QED
    BY <2>5 DEF Replay, Head, OInv, PassBefore, Before, Replayable, In
<1> QED
  BY <1>1, <1>2, <1>3, InvariantHolds, PTL DEF Spec, InOrder
=============================================================================
