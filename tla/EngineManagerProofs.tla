------------------------- MODULE EngineManagerProofs -------------------------
(***************************************************************************)
(* Proofs about EngineManager, for any bindings, engines and refreshes.    *)
(* No engine runs on outside the roster, and none once the plugin is down: *)
(* both follow from the invariant IInv.  Pauses hold, no event of a        *)
(* binding that stays on is lost, no binding in the settings is erased and *)
(* the roster follows the settings: these follow from RInv beside it.      *)
(***************************************************************************)
EXTENDS EngineManager, TLAPS

\* The parts of IInv that a step keeps with the variables they speak of.
Kept == UNCHANGED <<manager, roster, leaving, phase>>

\* A step that leaves those alone keeps the engines and the roster as they
\* should be.
LEMMA KeptHolds ==
    ASSUME NoneAtLarge, RosterEmptied, LeftInTime, Kept
    PROVE  NoneAtLarge' /\ RosterEmptied' /\ LeftInTime'
BY DEF NoneAtLarge, RosterEmptied, LeftInTime, Kept, Rostered

\* A refresh that goes on, and waits for an engine if it restarts one.
LEMMA Gone ==
    ASSUME TypeOK, RestartHasEngine, NEW t \in Task, NEW fields \in Refresh, Go(t, fields),
           fields.pc = "restarting" => fields.engine # None,
           fields.pc \in {"restarting", "dropping"} => fields.at # None
    PROVE  task' \in [Task -> Refresh] /\ RestartHasEngine'
BY DEF TypeOK, RestartHasEngine, Go

\* The refreshes as they were.
LEMMA TasksKept ==
    ASSUME RestartHasEngine, UNCHANGED task
    PROVE  RestartHasEngine'
BY DEF RestartHasEngine

\* What an idle refresh is; and one that only begins.
LEMMA IdleTyped == Idle \in Refresh
BY DEF Idle, Refresh

LEMMA Begun ==
    ASSUME TypeOK, RestartHasEngine, NEW t \in Task, NEW resume \in BOOLEAN, Begin(t, resume)
    PROVE  task' \in [Task -> Refresh] /\ RestartHasEngine'
<1> DEFINE fields == [Idle EXCEPT !.pc = "loop", !.todo = Known, !.known = Known,
                                  !.addr = addr, !.resume = resume]
<1>1. Known \subseteq Binding /\ addr \in Nat
      BY DEF Known, TypeOK
<1>2. fields \in Refresh /\ fields.pc = "loop"
      BY <1>1 DEF Idle, Refresh
<1>3. Go(t, fields)
      BY DEF Begin
<1>   QED
      BY <1>2, <1>3, Gone

\* stop() of some engines: none of them, nor any other, begins to run.
LEMMA Stopped ==
    ASSUME TypeOK, NEW S, Stopping(S)
    PROVE  /\ phase' \in [Engine -> {"on", "stopping", "stopped"}]
           /\ \A e \in Engine : phase[e] = "stopped" => phase'[e] = "stopped"
BY DEF TypeOK, Stopping

\* spawn: one engine more, in the binding's place.
LEMMA Spawned ==
    ASSUME TypeOK, NEW b \in Binding, NEW a \in Nat, Spawn(b, a)
    PROVE  /\ roster' \in [Binding -> Engine \cup {None}]
           /\ phase' \in [Engine -> {"on", "stopping", "stopped"}]
           /\ addrOf' \in [Engine -> Nat] /\ off' \in [Engine -> BOOLEAN]
           /\ \A c \in Binding : c # b => roster'[c] = roster[c]
           /\ \A e \in Engine : phase'[e] # "stopped" => phase[e] # "stopped" \/ roster'[b] = e
<1>1. PICK e \in Unused :
         /\ roster' = [roster EXCEPT ![b] = e]
         /\ phase' = [phase EXCEPT ![e] = "on"]
         /\ addrOf' = [addrOf EXCEPT ![e] = a]
         /\ off' = [off EXCEPT ![e] = paused]
      BY DEF Spawn
<1>2. e \in Engine
      BY <1>1 DEF Unused
<1>   QED
      BY <1>1, <1>2 DEF TypeOK

\* spawn into a binding's place whose engine, if any, has stopped.
LEMMA SpawnedInPlace ==
    ASSUME TypeOK, NoneAtLarge, NEW b \in Binding, NEW a \in Nat, Spawn(b, a),
           roster[b] # None => phase[roster[b]] = "stopped", UNCHANGED leaving
    PROVE  NoneAtLarge'
<1>  SUFFICES ASSUME NEW e \in Engine, phase'[e] # "stopped"
              PROVE  e \in Rostered' \cup leaving'
     BY DEF NoneAtLarge
<1>1. /\ roster' \in [Binding -> Engine \cup {None}]
      /\ \A c \in Binding : c # b => roster'[c] = roster[c]
      /\ phase[e] # "stopped" \/ roster'[b] = e
      BY Spawned
<1>2. e # None
      BY ManagerAssumption
<1>3. CASE roster'[b] = e
      BY <1>2, <1>3 DEF Rostered
<1>4. CASE phase[e] # "stopped"
  <2>1. e \in leaving \/ \E c \in Binding : roster[c] = e
        BY <1>4 DEF NoneAtLarge, Rostered
  <2>2. \A c \in Binding : roster[c] = e => c # b
        BY <1>2, <1>4
  <2>   QED
        BY <1>1, <1>2, <2>1, <2>2 DEF Rostered
<1>   QED
      BY <1>1, <1>3, <1>4

\* A binding's engine that has stopped is forgotten.
LEMMA ForgottenInPlace ==
    ASSUME TypeOK, NoneAtLarge, NEW b \in Binding, UNCHANGED <<leaving, phase>>,
           roster' = [roster EXCEPT ![b] = None] \/ roster' = roster,
           roster'[b] # roster[b] => roster[b] # None /\ phase[roster[b]] = "stopped"
    PROVE  NoneAtLarge' /\ roster' \in [Binding -> Engine \cup {None}]
<1>1. roster' \in [Binding -> Engine \cup {None}]
      BY DEF TypeOK
<1>2. ASSUME NEW e \in Engine, phase'[e] # "stopped"
      PROVE  e \in Rostered' \cup leaving'
  <2>1. e # None
        BY ManagerAssumption
  <2>2. e \in leaving \/ \E c \in Binding : roster[c] = e
        BY <1>2 DEF NoneAtLarge, Rostered
  <2>3. \A c \in Binding : roster[c] = e => roster'[c] = e
        BY <1>2, <2>1 DEF TypeOK
  <2>   QED
        BY <2>1, <2>2, <2>3 DEF Rostered
<1>   QED
      BY <1>1, <1>2 DEF NoneAtLarge

-----------------------------------------------------------------------------
\* The first state.
LEMMA InitHolds == Init => IInv
<1>  SUFFICES ASSUME Init PROVE IInv
     OBVIOUS
<1>1. TypeOK
      BY IdleTyped DEF Init, TypeOK, Setting, Dispatched
<1>2. NoneAtLarge /\ RosterEmptied /\ LeftInTime /\ RestartHasEngine
      BY DEF Init, NoneAtLarge, RosterEmptied, LeftInTime, RestartHasEngine, Idle
<1>   QED
      BY <1>1, <1>2 DEF IInv

\* A refresh goes on.
LEMMA GoOnHolds == ASSUME IInv, NEW t \in Task, GoOn(t) PROVE IInv'
<1>  USE DEF IInv, settingVars, eventVars, histVars, engineVars
<1>t. /\ task[t] \in Refresh /\ task \in [Task -> Refresh]
      BY DEF TypeOK
<1>1. ASSUME NEW b \in Binding, Pass(t, b) PROVE IInv'
  <2> DEFINE fields == [task[t] EXCEPT !.todo = @ \ {b},
                                       !.desired = IF Wants(t, b) THEN @ \cup {b} ELSE @]
  <2>1. fields \in Refresh /\ fields.pc = "loop" /\ Go(t, fields)
        BY <1>1, <1>t DEF Pass, Refresh
  <2>2. task' \in [Task -> Refresh] /\ RestartHasEngine'
        BY <2>1, Gone
  <2>3. TypeOK'
        BY <1>1, <2>2 DEF Pass, TypeOK
  <2>   QED
        BY <1>1, <2>2, <2>3, KeptHolds DEF Pass, Kept
<1>2. ASSUME NEW b \in Binding, SpawnNew(t, b) PROVE IInv'
  <2> DEFINE fields == [task[t] EXCEPT !.todo = @ \ {b}, !.desired = @ \cup {b}]
  <2>1. fields \in Refresh /\ fields.pc = "loop" /\ Go(t, fields)
        BY <1>2, <1>t DEF SpawnNew, Refresh
  <2>2. task' \in [Task -> Refresh] /\ RestartHasEngine'
        BY <2>1, Gone
  <2>3. Spawn(b, task[t].addr) /\ task[t].addr \in Nat
        BY <1>2, <1>t DEF SpawnNew, Refresh
  <2>4. TypeOK'
        BY <1>2, <2>2, <2>3, Spawned DEF SpawnNew, TypeOK
  <2>5. NoneAtLarge'
        BY <1>2, <2>3, SpawnedInPlace DEF SpawnNew
  <2>   QED
        BY <1>2, <2>2, <2>4, <2>5 DEF SpawnNew, RosterEmptied, LeftInTime
<1>3. ASSUME NEW b \in Binding, BeginRestart(t, b) PROVE IInv'
  <2> DEFINE fields == [task[t] EXCEPT !.pc = "restarting", !.at = b, !.engine = roster[b],
                                       !.todo = @ \ {b}, !.desired = @ \cup {b}]
  <2>1. roster[b] \in Engine /\ b # None
        BY <1>3, ManagerAssumption DEF BeginRestart, TypeOK
  <2>2. /\ fields \in Refresh /\ Go(t, fields)
        /\ fields.engine # None /\ fields.at # None
        BY <1>3, <1>t, <2>1, ManagerAssumption DEF BeginRestart, Refresh
  <2>3. task' \in [Task -> Refresh] /\ RestartHasEngine'
        BY <2>2, Gone
  <2>4. /\ phase' \in [Engine -> {"on", "stopping", "stopped"}]
        /\ \A e \in Engine : phase[e] = "stopped" => phase'[e] = "stopped"
        BY <1>3, Stopped DEF BeginRestart
  <2>5. TypeOK'
        BY <1>3, <2>3, <2>4 DEF BeginRestart, TypeOK
  <2>6. NoneAtLarge' /\ RosterEmptied' /\ LeftInTime'
        BY <1>3, <2>4 DEF BeginRestart, NoneAtLarge, RosterEmptied, LeftInTime, Rostered
  <2>   QED
        BY <2>3, <2>5, <2>6
<1>4. CASE EndRestart(t)
  <2> DEFINE b == task[t].at
             fields == [task[t] EXCEPT !.pc = "loop", !.at = None, !.engine = None]
  <2>1. fields \in Refresh /\ fields.pc = "loop" /\ Go(t, fields)
        BY <1>4, <1>t DEF EndRestart, Refresh
  <2>2. task' \in [Task -> Refresh] /\ RestartHasEngine'
        BY <2>1, Gone
  <2>3. /\ b \in Binding /\ task[t].engine \in Engine /\ addr \in Nat
        /\ phase[task[t].engine] = "stopped"
        BY <1>4, <1>t DEF EndRestart, CanGoOn, RestartHasEngine, Refresh, TypeOK
  <2>4. restart' \in [Binding -> Task \cup {None}]
        BY <1>4, <2>3 DEF EndRestart, TypeOK
  <2>5. CASE roster[b] # task[t].engine
    <3>1. UNCHANGED <<roster, engineVars>>
          BY <1>4, <2>5 DEF EndRestart
    <3>2. TypeOK'
          BY <1>4, <2>2, <2>4, <3>1 DEF EndRestart, TypeOK
    <3>   QED
          BY <1>4, <2>2, <3>1, <3>2, KeptHolds DEF EndRestart, Kept
  <2>6. CASE roster[b] = task[t].engine /\ setting[b] = "on" /\ addr # 0
    <3>1. Spawn(b, addr)
          BY <1>4, <2>6 DEF EndRestart
    <3>2. TypeOK'
          BY <1>4, <2>2, <2>3, <2>4, <3>1, Spawned DEF EndRestart, TypeOK
    <3>3. NoneAtLarge'
          BY <1>4, <2>3, <2>6, <3>1, SpawnedInPlace DEF EndRestart
    <3>4. roster[b] # None
          BY <2>3, <2>6, ManagerAssumption
    <3>5. manager = "up"
          BY <2>3, <3>4 DEF RosterEmptied, Rostered
    <3>   QED
          BY <1>4, <2>2, <3>2, <3>3, <3>5 DEF EndRestart, RosterEmptied, LeftInTime
  <2>7. CASE roster[b] = task[t].engine /\ ~(setting[b] = "on" /\ addr # 0)
    <3>1. /\ roster' = [roster EXCEPT ![b] = None]
          /\ UNCHANGED <<manager, leaving, engineVars>>
          BY <1>4, <2>7 DEF EndRestart
    <3>2. NoneAtLarge' /\ roster' \in [Binding -> Engine \cup {None}]
          BY <2>3, <2>7, <3>1, ManagerAssumption, ForgottenInPlace
    <3>3. TypeOK'
          BY <1>4, <2>2, <2>4, <3>1, <3>2 DEF EndRestart, TypeOK
    <3>4. RosterEmptied'
          BY <2>3, <3>1 DEF RosterEmptied, Rostered, TypeOK
    <3>   QED
          BY <2>2, <3>1, <3>2, <3>3, <3>4 DEF LeftInTime
  <2>   QED
        BY <2>5, <2>6, <2>7
<1>5. CASE EndLoop(t)
  <2> DEFINE fields == [Idle EXCEPT !.pc = "drop", !.known = task[t].known,
                          !.resume = task[t].resume,
                          !.todo = {b \in Binding : roster[b] # None} \ task[t].desired]
  <2>1. fields \in Refresh /\ fields.pc = "drop" /\ Go(t, fields)
        BY <1>5, <1>t DEF EndLoop, Idle, Refresh
  <2>2. task' \in [Task -> Refresh] /\ RestartHasEngine'
        BY <2>1, Gone
  <2>3. TypeOK'
        BY <1>5, <2>2 DEF EndLoop, TypeOK
  <2>   QED
        BY <1>5, <2>2, <2>3, KeptHolds DEF EndLoop, Kept
<1>6. ASSUME NEW b \in Binding, BeginDrop(t, b) PROVE IInv'
  <2> DEFINE fields == [task[t] EXCEPT !.pc = "dropping", !.at = b, !.engine = roster[b],
                                       !.todo = @ \ {b}]
  <2>1. roster[b] \in Engine \cup {None} /\ b # None
        BY ManagerAssumption DEF TypeOK
  <2>2. /\ fields \in Refresh /\ Go(t, fields)
        /\ fields.pc = "dropping" /\ fields.at # None
        BY <1>6, <1>t, <2>1 DEF BeginDrop, Refresh
  <2>3. task' \in [Task -> Refresh] /\ RestartHasEngine'
        BY <2>2, Gone
  <2>4. /\ phase' \in [Engine -> {"on", "stopping", "stopped"}]
        /\ \A e \in Engine : phase[e] = "stopped" => phase'[e] = "stopped"
        BY <1>6, Stopped DEF BeginDrop
  <2>5. TypeOK'
        BY <1>6, <2>3, <2>4 DEF BeginDrop, TypeOK
  <2>6. NoneAtLarge' /\ RosterEmptied' /\ LeftInTime'
        BY <1>6, <2>4 DEF BeginDrop, NoneAtLarge, RosterEmptied, LeftInTime, Rostered
  <2>   QED
        BY <2>3, <2>5, <2>6
<1>7. CASE EndDrop(t)
  <2> DEFINE b == task[t].at
             fields == [task[t] EXCEPT !.pc = IF b \notin task[t].known THEN "purging"
                                              ELSE "drop",
                                       !.at = None, !.engine = None]
  <2>1. fields \in Refresh /\ fields.pc \in {"purging", "drop"} /\ Go(t, fields)
        BY <1>7, <1>t DEF EndDrop, Dropped, Refresh
  <2>2. task' \in [Task -> Refresh] /\ RestartHasEngine'
        BY <2>1, Gone
  <2>3. /\ b \in Binding /\ task[t].engine \in Engine \cup {None}
        /\ task[t].engine \in Engine => phase[task[t].engine] = "stopped"
        BY <1>7, <1>t DEF EndDrop, CanGoOn, RestartHasEngine, Refresh
  <2>4. /\ roster' = [roster EXCEPT ![b] = IF @ = task[t].engine THEN None ELSE @]
        /\ UNCHANGED <<manager, leaving, phase>>
        BY <1>7 DEF EndDrop
  <2>5. roster' = [roster EXCEPT ![b] = None] \/ roster' = roster
        BY <2>3, <2>4 DEF TypeOK
  <2>6. roster'[b] # roster[b] => roster[b] # None /\ phase[roster[b]] = "stopped"
        BY <2>3, <2>4 DEF TypeOK
  <2>7. NoneAtLarge' /\ roster' \in [Binding -> Engine \cup {None}]
        BY <2>3, <2>4, <2>5, <2>6, ForgottenInPlace
  <2>8. purged' \subseteq Binding
        BY <1>7, <2>3 DEF EndDrop, Dropped, TypeOK
  <2>9. TypeOK'
        BY <1>7, <2>2, <2>7, <2>8 DEF EndDrop, TypeOK
  <2>10. \A c \in Binding : roster'[c] \in {None, roster[c]}
        BY <2>5 DEF TypeOK
  <2>11. RosterEmptied'
        BY <2>4, <2>10 DEF RosterEmptied, Rostered
  <2>   QED
        BY <2>2, <2>4, <2>7, <2>9, <2>11 DEF LeftInTime
<1>8. CASE Erased(t)
  <2> DEFINE fields == [task[t] EXCEPT !.pc = "drop"]
  <2>1. fields \in Refresh /\ fields.pc = "drop" /\ Go(t, fields)
        BY <1>8, <1>t DEF Erased, Refresh
  <2>2. task' \in [Task -> Refresh] /\ RestartHasEngine'
        BY <2>1, Gone
  <2>3. TypeOK'
        BY <1>8, <2>2 DEF Erased, TypeOK
  <2>   QED
        BY <1>8, <2>2, <2>3, KeptHolds DEF Erased, Kept
<1>9. CASE End(t)
  <2>1. Idle.pc = "idle" /\ Go(t, Idle)
        BY <1>9 DEF End, Idle
  <2>2. task' \in [Task -> Refresh] /\ RestartHasEngine'
        BY <2>1, IdleTyped, Gone
  <2>3. off' \in [Engine -> BOOLEAN]
        BY <1>9 DEF End, TypeOK
  <2>4. TypeOK'
        BY <1>9, <2>2, <2>3 DEF End, TypeOK
  <2>   QED
        BY <1>9, <2>2, <2>4, KeptHolds DEF End, Kept
<1>   QED
      BY <1>1, <1>2, <1>3, <1>4, <1>5, <1>6, <1>7, <1>8, <1>9 DEF GoOn

\* Refreshes begin, sync is paused and resumed.
LEMMA BeginHolds == IInv /\ (Saved \/ Synced \/ Pause \/ Resume) => IInv'
<1>  SUFFICES ASSUME IInv, Saved \/ Synced \/ Pause \/ Resume PROVE IInv'
     OBVIOUS
<1>  USE DEF IInv, settingVars, eventVars, histVars, engineVars
<1>1. CASE Saved
  <2>1. task' \in [Task -> Refresh] /\ RestartHasEngine'
    <3>1. CASE manager = "up"
          BY <1>1, <3>1, Begun DEF Saved
    <3>2. CASE manager # "up"
          BY <1>1, <3>2, TasksKept DEF Saved, TypeOK
    <3>   QED
          BY <3>1, <3>2
  <2>2. TypeOK'
        BY <1>1, <2>1 DEF Saved, TypeOK
  <2>   QED
        BY <1>1, <2>1, <2>2, KeptHolds DEF Saved, Kept
<1>2. CASE Synced
  <2>1. TypeOK'
        BY <1>2 DEF Synced, TypeOK
  <2>   QED
        BY <1>2, <2>1, TasksKept, KeptHolds DEF Synced, Kept
<1>3. CASE Pause
  <2>1. off' \in [Engine -> BOOLEAN]
        BY <1>3 DEF Pause, TypeOK
  <2>2. changes' \in Nat /\ paused' \in BOOLEAN
    <3>1. changes \in Nat /\ changes' = changes + 1
          BY <1>3 DEF Pause, Change, TypeOK
    <3>2. paused' \in BOOLEAN
          BY <1>3, Zenon DEF Pause
    <3>   QED
          BY <3>1, <3>2
  <2>3. TypeOK'
        BY <1>3, <2>1, <2>2 DEF Pause, TypeOK
  <2>   QED
        BY <1>3, <2>3, TasksKept, KeptHolds DEF Pause, Kept
<1>4. CASE Resume
  <2>1. task' \in [Task -> Refresh] /\ RestartHasEngine'
        BY <1>4, Begun DEF Resume
  <2>2. changes' \in Nat /\ paused' \in BOOLEAN
    <3>1. changes \in Nat /\ changes' = changes + 1
          BY <1>4 DEF Resume, Change, TypeOK
    <3>2. paused' \in BOOLEAN
          BY <1>4, Zenon DEF Resume
    <3>   QED
          BY <3>1, <3>2
  <2>3. TypeOK'
        BY <1>4, <2>1, <2>2 DEF Resume, TypeOK
  <2>   QED
        BY <1>4, <2>1, <2>3, KeptHolds DEF Resume, Kept
<1>   QED
      BY <1>1, <1>2, <1>3, <1>4

\* Entries replaced under the refreshes that walk them: no refresh moves on.
LEMMA Haunted ==
    ASSUME TypeOK, RestartHasEngine, NEW S \in SUBSET Binding, Haunt(S)
    PROVE  task' \in [Task -> Refresh] /\ RestartHasEngine' /\ hasty' \in BOOLEAN
<1> DEFINE seen(t) == {b \in S \cap task[t].todo : setting[b] = "on"}
<1>1. \A t \in Task : task'[t] = task[t]
                        \/ task'[t] = [task[t] EXCEPT !.ghost = @ \cup seen(t)]
      BY DEF Haunt
<1>2. \A t \in Task : seen(t) \subseteq Binding
      OBVIOUS
<1>3. \A t \in Task : /\ task'[t] \in Refresh
                        /\ task'[t].pc = task[t].pc /\ task'[t].engine = task[t].engine
                        /\ task'[t].at = task[t].at
  <2>1. ASSUME NEW t \in Task
        PROVE  /\ task'[t] \in Refresh
               /\ task'[t].pc = task[t].pc /\ task'[t].engine = task[t].engine
               /\ task'[t].at = task[t].at
    <3>1. task[t] \in Refresh
          BY DEF TypeOK
    <3>2. CASE task'[t] = task[t]
          BY <3>1, <3>2
    <3>3. CASE task'[t] = [task[t] EXCEPT !.ghost = @ \cup seen(t)]
      <4> DEFINE more == seen(t)
      <4>1. more \subseteq Binding
            BY <1>2
      <4>2. task'[t] = [task[t] EXCEPT !.ghost = @ \cup more]
            BY <3>3
      <4>   HIDE DEF more
      <4>   QED
            BY <3>1, <4>1, <4>2 DEF Refresh
    <3>   QED
          BY <1>1, <3>2, <3>3
  <2>   QED
        BY <2>1
<1>4. DOMAIN task' = Task /\ task' = [t \in Task |-> task'[t]]
      BY DEF Haunt
<1>5. hasty' \in BOOLEAN
      BY DEF Haunt, TypeOK
<1>   QED
      BY <1>3, <1>4, <1>5 DEF RestartHasEngine

\* The user edits the settings: the engines stay as they are.
LEMMA EditHolds ==
    ASSUME IInv,
           EditServer \/ RemoveServer
              \/ \E b \in Binding : SwitchOff(b) \/ SwitchOn(b) \/ Remove(b) \/ Add(b)
    PROVE  IInv'
<1>  USE DEF IInv, settingVars, eventVars, histVars, engineVars
<1>a. \A S : Excuse(S) => excused' \subseteq Event
      BY DEF Excuse, TypeOK
<1>b. Edit => Kept /\ UNCHANGED <<paused, restart, addrOf, off, purged>>
      BY DEF Edit, Kept
<1>c. Edit => saves' \in Nat /\ changes' \in Nat
      BY DEF Edit, Change, TypeOK
<1>1. CASE EditServer
  <2>1. TypeOK' /\ Kept
        BY <1>1, <1>b, <1>c DEF EditServer, TypeOK, Kept
  <2>   QED
        BY <1>1, <2>1, TasksKept, KeptHolds DEF EditServer
<1>2. CASE RemoveServer
  <2>1. task' \in [Task -> Refresh] /\ RestartHasEngine' /\ hasty' \in BOOLEAN
        BY <1>2, Haunted DEF RemoveServer
  <2>2. setting' \in [Binding -> Setting]
        BY <1>2 DEF RemoveServer, Setting, TypeOK
  <2>3. TypeOK' /\ Kept
        BY <1>2, <1>a, <1>b, <1>c, <2>1, <2>2 DEF RemoveServer, TypeOK, Kept
  <2>   QED
        BY <2>1, <2>3, KeptHolds
<1>3. ASSUME NEW b \in Binding, SwitchOff(b) PROVE IInv'
  <2>1. setting' \in [Binding -> Setting]
        BY <1>3 DEF SwitchOff, Setting, TypeOK
  <2>2. TypeOK' /\ Kept
        BY <1>3, <1>a, <1>b, <1>c, <2>1 DEF SwitchOff, TypeOK, Kept
  <2>   QED
        BY <1>3, <2>2, TasksKept, KeptHolds DEF SwitchOff
<1>4. ASSUME NEW b \in Binding, SwitchOn(b) PROVE IInv'
  <2>1. setting' \in [Binding -> Setting] /\ hasty' \in BOOLEAN
        BY <1>4 DEF SwitchOn, Late, Setting, TypeOK
  <2>2. TypeOK' /\ Kept
        BY <1>4, <1>b, <1>c, <2>1 DEF SwitchOn, TypeOK, Kept
  <2>   QED
        BY <1>4, <2>2, TasksKept, KeptHolds DEF SwitchOn
<1>5. ASSUME NEW b \in Binding, Remove(b) PROVE IInv'
  <2>1. task' \in [Task -> Refresh] /\ RestartHasEngine' /\ hasty' \in BOOLEAN
        BY <1>5, Haunted DEF Remove
  <2>2. setting' \in [Binding -> Setting]
        BY <1>5 DEF Remove, Setting, TypeOK
  <2>3. TypeOK' /\ Kept
        BY <1>5, <1>a, <1>b, <1>c, <2>1, <2>2 DEF Remove, TypeOK, Kept
  <2>   QED
        BY <2>1, <2>3, KeptHolds
<1>6. ASSUME NEW b \in Binding, Add(b) PROVE IInv'
  <2>1. setting' \in [Binding -> Setting] /\ hasty' \in BOOLEAN
        BY <1>6 DEF Add, Late, Setting, TypeOK
  <2>2. TypeOK' /\ Kept
        BY <1>6, <1>b, <1>c, <2>1 DEF Add, TypeOK, Kept
  <2>   QED
        BY <1>6, <2>2, TasksKept, KeptHolds DEF Add
<1>   QED
      BY <1>1, <1>2, <1>3, <1>4, <1>5, <1>6

\* Vault events.
LEMMA EventHolds ==
    ASSUME IInv, NEW v \in Event, Deliver(v) \/ \E b \in Binding : Dispatch(v, b)
    PROVE  IInv'
<1>  USE DEF IInv, settingVars, eventVars, histVars, engineVars
<1>a. \A e : Reached(e) \in Dispatched
      BY DEF Reached, Dispatched
<1>1. CASE Deliver(v)
  <2>1. event' \in [Event -> Dispatched]
        BY <1>1, <1>a DEF Deliver, TypeOK
  <2>2. TypeOK' /\ Kept
        BY <1>1, <2>1 DEF Deliver, TypeOK, Kept
  <2>   QED
        BY <1>1, <2>2, TasksKept, KeptHolds DEF Deliver
<1>2. ASSUME NEW b \in Binding, Dispatch(v, b) PROVE IInv'
  <2>1. [state |-> "waiting", binding |-> b, wait |-> restart[b]] \in Dispatched
        BY DEF Dispatched, TypeOK
  <2>2. event' \in [Event -> Dispatched] /\ excused' \subseteq Event
        BY <1>2, <1>a, <2>1 DEF Dispatch, TypeOK
  <2>3. TypeOK' /\ Kept
        BY <1>2, <2>2 DEF Dispatch, TypeOK, Kept
  <2>   QED
        BY <1>2, <2>3, TasksKept, KeptHolds DEF Dispatch
<1>   QED
      BY <1>1, <1>2

\* An engine's local phase ends; the plugin unloads.
LEMMA StopHolds ==
    ASSUME IInv, Unload \/ Unloaded \/ \E e \in Engine : LocalPhaseEnds(e)
    PROVE  IInv'
<1>  USE DEF IInv, settingVars, eventVars, histVars, engineVars
<1>1. ASSUME NEW e \in Engine, LocalPhaseEnds(e) PROVE IInv'
  <2>1. phase' = [phase EXCEPT ![e] = "stopped"]
        BY <1>1 DEF LocalPhaseEnds
  <2>2. TypeOK'
        BY <1>1, <2>1 DEF LocalPhaseEnds, TypeOK
  <2>3. \A d \in Engine : phase[d] = "stopped" => phase'[d] = "stopped"
        BY <2>1 DEF TypeOK
  <2>4. UNCHANGED <<manager, roster, leaving>>
        BY <1>1 DEF LocalPhaseEnds
  <2>5. NoneAtLarge'
        BY <2>3, <2>4 DEF NoneAtLarge, Rostered
  <2>6. RosterEmptied' /\ LeftInTime'
        BY <2>4 DEF RosterEmptied, LeftInTime, Rostered
  <2>   QED
        BY <1>1, <2>2, <2>5, <2>6, TasksKept DEF LocalPhaseEnds
<1>2. CASE Unload
  <2>1. /\ phase' \in [Engine -> {"on", "stopping", "stopped"}]
        /\ \A e \in Engine : phase[e] = "stopped" => phase'[e] = "stopped"
        BY <1>2, Stopped DEF Unload
  <2>2. roster' \in [Binding -> Engine \cup {None}] /\ Rostered' = {}
        BY <1>2 DEF Unload, Rostered
  <2>3. leaving' \subseteq Engine /\ leaving = {} /\ leaving' = Rostered
        BY <1>2 DEF Unload, Rostered, LeftInTime, TypeOK
  <2>4. excused' \subseteq Event
        BY <1>2 DEF Unload, Excuse, TypeOK
  <2>5. TypeOK'
        BY <1>2, <2>1, <2>2, <2>3, <2>4 DEF Unload, TypeOK
  <2>6. NoneAtLarge'
        BY <2>1, <2>3 DEF NoneAtLarge, TypeOK
  <2>7. RosterEmptied' /\ LeftInTime'
        BY <1>2, <2>2 DEF Unload, RosterEmptied, LeftInTime
  <2>   QED
        BY <1>2, <2>5, <2>6, <2>7, TasksKept DEF Unload
<1>3. CASE Unloaded
  <2>1. TypeOK'
        BY <1>3 DEF Unloaded, TypeOK
  <2>2. NoneAtLarge'
        BY <1>3 DEF Unloaded, AllLeft, NoneAtLarge, Rostered
  <2>3. RosterEmptied' /\ LeftInTime'
        BY <1>3 DEF Unloaded, RosterEmptied, LeftInTime, Rostered
  <2>   QED
        BY <1>3, <2>1, <2>2, <2>3, TasksKept DEF Unloaded
<1>   QED
      BY <1>1, <1>2, <1>3

\* Nothing happens.
LEMMA StutterHolds == IInv /\ UNCHANGED vars => IInv'
<1>  SUFFICES ASSUME IInv, UNCHANGED vars PROVE IInv'
     OBVIOUS
<1>  USE DEF IInv, vars, settingVars, eventVars, histVars, engineVars
<1>1. TypeOK'
      BY DEF TypeOK
<1>   QED
      BY <1>1, TasksKept, KeptHolds DEF Kept

-----------------------------------------------------------------------------
\* The inductive invariant: types, no engine outside the roster, an empty
\* roster from unload() on, and a restart always with the engine it replaces.
THEOREM InvariantHolds == Spec => []IInv
<1>1. IInv /\ [Next]_vars => IInv'
  <2>  SUFFICES ASSUME IInv, [Next]_vars PROVE IInv'
       OBVIOUS
  <2>1. CASE \E t \in Task : GoOn(t)
        BY <2>1, GoOnHolds
  <2>2. CASE Saved \/ Synced \/ Pause \/ Resume
        BY <2>2, BeginHolds
  <2>3. CASE \/ EditServer \/ RemoveServer
             \/ \E b \in Binding : SwitchOff(b) \/ SwitchOn(b) \/ Remove(b) \/ Add(b)
        BY <2>3, EditHolds
  <2>4. CASE \E v \in Event : Deliver(v) \/ \E b \in Binding : Dispatch(v, b)
        BY <2>4, EventHolds
  <2>5. CASE Unload \/ Unloaded \/ \E e \in Engine : LocalPhaseEnds(e)
        BY <2>5, StopHolds
  <2>6. CASE UNCHANGED vars
        BY <2>6, StutterHolds
  <2>   QED
        BY <2>1, <2>2, <2>3, <2>4, <2>5, <2>6 DEF Next, User
<1>   QED
      BY <1>1, InitHolds, PTL DEF Spec

\* Every variable keeps its type.
THEOREM TypesHold == Spec => []TypeOK
<1>1. IInv => TypeOK
      BY DEF IInv
<1>   QED
      BY <1>1, InvariantHolds, PTL

\* No engine runs on with nothing to stop it (refreshFromSettings, dropEngine,
\* replaceEngine): one that has not stopped is in the roster, or stop() waits
\* for it.
THEOREM NoEngineAtLarge == Spec => []NoneAtLarge
<1>1. IInv => NoneAtLarge
      BY DEF IInv
<1>   QED
      BY <1>1, InvariantHolds, PTL

\* Once the plugin has unloaded every engine has stopped, and no refresh under
\* way starts another (stop, spawn).
THEOREM DownForGood == Spec => []DownIsDown
<1>1. IInv => DownIsDown
      BY DEF IInv, NoneAtLarge, RosterEmptied, LeftInTime, DownIsDown
<1>   QED
      BY <1>1, InvariantHolds, PTL

-----------------------------------------------------------------------------
(***************************************************************************)
(* That pauses hold, that a binding in the settings is never erased, that  *)
(* no vault event of a binding that stays on is lost and that the roster   *)
(* follows the settings.  They follow from the invariant RInv, in three    *)
(* layers: the engines and the refreshes that wait for them; the order in  *)
(* which refreshes and events go on; and, unless a refresh missed a change *)
(* (hasty), what each refresh knows.                                       *)
(***************************************************************************)
\* A refresh that walks the bindings, one that drops engines, one that waits
\* for an engine, and one that would go on with its walk.
Walking(t) == task[t].pc \in {"loop", "restarting"}
Dropping(t) == task[t].pc \in {"drop", "dropping", "purging"}
Waiting(t) == task[t].pc \in {"restarting", "dropping"}
Ready(t) == \/ task[t].pc = "loop"
            \/ task[t].pc = "restarting" /\ phase[task[t].engine] = "stopped"
Wanted(b) == setting[b] = "on" /\ addr # 0

-----------------------------------------------------------------------------
\* No two bindings have an engine in common.
Apart == \A b, c \in Binding : b # c /\ roster[b] # None => roster[b] # roster[c]

\* A restart is known by the refresh that makes it.
Restarts ==
    /\ \A b \in Binding : restart[b] # None =>
          task[restart[b]].pc = "restarting" /\ task[restart[b]].at = b
    /\ \A t \in Task : task[t].pc = "restarting" =>
          restart[task[t].at] = t /\ task[t].at \notin task[t].todo

\* The engine a refresh waits for is on its way out, and nobody else's.
Held ==
    \A t \in Task : Waiting(t) /\ task[t].engine # None =>
        /\ phase[task[t].engine] # "on"
        /\ \A b \in Binding : roster[b] = task[t].engine => task[t].at = b
\* Nobody waits for the same engine to restart it.
HeldApart ==
    \A t, u \in Task : t # u /\ task[t].pc = "restarting" /\ task[u].pc = "restarting" =>
        task[t].engine # task[u].engine
\* An engine of the roster that is not on is being restarted or dropped.
Attended ==
    manager = "up" => \A b \in Binding : roster[b] # None /\ phase[roster[b]] # "on" =>
        \E t \in Task : Waiting(t) /\ task[t].at = b /\ task[t].engine = roster[b]

\* Paused, no engine connects; resumed, one that does not will be told.
Off == paused => \A b \in Binding : roster[b] # None /\ phase[roster[b]] = "on" => off[roster[b]]
Told ==
    manager = "up" /\ ~paused => \A b \in Binding :
        roster[b] # None /\ phase[roster[b]] = "on" /\ off[roster[b]] =>
            \E t \in Task : task[t].pc # "idle" /\ task[t].resume

\* What has an engine, or is walked or dropped, is or was in the settings.
Settings ==
    /\ \A b \in Binding : roster[b] # None => setting[b] # "absent"
    /\ \A t \in Task : /\ \A b \in task[t].todo \cup task[t].ghost : setting[b] # "absent"
                       /\ task[t].at # None => setting[task[t].at] # "absent"

\* The server does not come back.
Served == \A t \in Task : Walking(t) /\ task[t].addr = 0 => addr = 0

-----------------------------------------------------------------------------
\* One walk at a time goes on.
OneWalk == \A t, u \in Task : Ready(t) /\ Ready(u) => t = u

\* Woken events go first: the binding's restart is over, and no walk that goes on
\* has it to come.
Wakes ==
    \A v \in Event : event[v].state = "waiting" =>
        /\ event[v].binding # None /\ event[v].wait # None
        /\ v \notin excused => manager = "up" /\ Wanted(event[v].binding)
        /\ Woken(v) => /\ restart[event[v].binding] = None
                       /\ \A t \in Task : Ready(t) => event[v].binding \notin task[t].todo

-----------------------------------------------------------------------------
\* As long as they missed no change: the refreshes know the bindings of the
\* settings,
Knows ==
    \A t \in Task :
        /\ task[t].ghost = {}
        /\ task[t].pc # "idle" => \A b \in Binding \ task[t].known : setting[b] \notin {"on", "off"}
\* have on their walk every binding that is to have an engine, and none if the
\* server is gone,
Covers ==
    \A t \in Task : Walking(t) =>
        /\ \A b \in Binding : Wanted(b) => b \in task[t].todo \cup task[t].desired
        /\ addr = 0 /\ task[t].addr # 0 => \A b \in Binding : setting[b] # "on"
\* drop the engine of none of those,
Spares ==
    \A t \in Task : Dropping(t) =>
        \A b \in Binding : b \in task[t].todo \/ b = task[t].at => ~Wanted(b)
\* and restart none that is dropped meanwhile.
Renews ==
    \A t \in Task : manager = "up" /\ task[t].pc = "restarting" /\ Wanted(task[t].at) =>
        roster[task[t].at] = task[t].engine

\* An event that was woken finds an engine.
Found ==
    \A v \in Event : Woken(v) /\ v \notin excused =>
        roster[event[v].binding] # None /\ phase[roster[event[v].binding]] = "on"

\* A binding that is on has its engine, or a refresh that will give it one; one
\* that is not has none, or a refresh that will drop it.
Provided(b) ==
    \/ roster[b] # None /\ (addrOf[roster[b]] = addr \/ restart[b] # None)
    \/ \E t \in Task : Walking(t) /\ task[t].addr = addr /\ b \in task[t].todo
Cleared(b) ==
    \/ roster[b] = None
    \/ \E t \in Task : \/ Walking(t) /\ b \notin task[t].desired
                       \/ Dropping(t) /\ b \in task[t].todo
                       \/ Waiting(t) /\ task[t].at = b /\ task[t].engine = roster[b]
Followed ==
    manager = "up" /\ saves = 0 =>
        \A b \in Binding : IF Wanted(b) THEN Provided(b) ELSE Cleared(b)

RInv ==
    /\ Apart /\ Restarts /\ Held /\ HeldApart /\ Attended /\ Off /\ Told /\ Settings
    /\ Served
    /\ OneWalk /\ Wakes
    /\ hasty \/ (Knows /\ Covers /\ Spares /\ Renews /\ Found /\ Followed /\ EventsKept /\ PurgedIfRemoved)

-----------------------------------------------------------------------------
\* The other refreshes are as they were.
OthersStay(t) == \A u \in Task : u # t => task'[u] = task[u]
\* Refresh t goes on in its walk, or from engine to engine.
StepsTo(t, pc, at, engine, todo) ==
    /\ task'[t].pc = pc /\ task'[t].at = at /\ task'[t].engine = engine
    /\ task'[t].todo = todo
\* What it began with.
Carries(t) ==
    /\ task'[t].known = task[t].known /\ task'[t].ghost = task[t].ghost
    /\ task'[t].addr = task[t].addr /\ task'[t].resume = task[t].resume

\* The types, field by field.
Shaped ==
    /\ \A b \in Binding : /\ roster[b] \in Engine \cup {None} /\ restart[b] \in Task \cup {None}
                         /\ setting[b] \in {"absent", "on", "off", "removed"}
    /\ \A t \in Task :
          /\ task[t].pc \in {"idle", "loop", "restarting", "drop", "dropping", "purging"}
          /\ task[t].todo \subseteq Binding /\ task[t].ghost \subseteq Binding
          /\ task[t].addr \in Nat
          /\ task[t].at \in Binding \cup {None} /\ task[t].engine \in Engine \cup {None}
          /\ task[t].pc = "restarting" => task[t].engine \in Engine
          /\ task[t].pc \in {"restarting", "dropping"} => task[t].at \in Binding
    /\ \A v \in Event : event[v].binding \in Binding \cup {None} /\ event[v].wait \in Task \cup {None}
    /\ \A e \in Engine : phase[e] \in {"on", "stopping", "stopped"} /\ off[e] \in BOOLEAN
    /\ purged \subseteq Binding /\ hasty \in BOOLEAN

\* EngineManagerProofs has them.
LEMMA ShapesHold == IInv => Shaped
BY DEF IInv, TypeOK, Refresh, Dispatched, Setting, RestartHasEngine, Shaped

\* spawn: an engine that no binding and no refresh had.
LEMMA SpawnNamed ==
    ASSUME TypeOK, NEW b \in Binding, NEW a \in Nat, Spawn(b, a)
    PROVE  \E e \in Engine :
              /\ e # None /\ roster'[b] = e /\ phase'[e] = "on" /\ addrOf'[e] = a
              /\ off'[e] = paused
              /\ paused => off'[e]
              /\ \A c \in Binding : c # b => roster'[c] = roster[c]
              /\ \A d \in Engine : d # e =>
                   phase'[d] = phase[d] /\ addrOf'[d] = addrOf[d] /\ off'[d] = off[d]
              /\ \A c \in Binding : roster[c] # e
              /\ \A u \in Task : task[u].engine # e
<1>1. PICK e \in Unused :
         /\ roster' = [roster EXCEPT ![b] = e]
         /\ phase' = [phase EXCEPT ![e] = "on"]
         /\ addrOf' = [addrOf EXCEPT ![e] = a]
         /\ off' = [off EXCEPT ![e] = paused]
      BY DEF Spawn
<1>2. e \in Engine /\ e # None
      BY <1>1, ManagerAssumption DEF Unused
<1>3. \A c \in Binding : roster[c] # e
      BY <1>1, <1>2 DEF Unused, Rostered
<1>   QED
      BY <1>1, <1>2, <1>3 DEF TypeOK, Unused

\* stop() of some engines: those are on no more, nothing changes for the others.
LEMMA StopNamed ==
    ASSUME TypeOK, NEW S, Stopping(S)
    PROVE  \A e \in Engine : /\ phase[e] # "on" \/ e \notin S => phase'[e] = phase[e]
                             /\ e \in S => phase'[e] # "on"
BY DEF TypeOK, Stopping

\* While the outside world steps, no refresh goes on and no event is to be delivered.
Quiet ==
    /\ \A u \in Task : task[u].pc # "loop" /\ task[u].pc # "drop" /\ ~Ready(u)
    /\ \A v \in Event : ~Woken(v)
\* A turn of the event loop begins when nothing else can go on.
LEMMA TurnIsQuiet == Turn => Quiet
BY DEF Turn, CanGoOn, Ready, Quiet

\* A refresh that begins.
Begins(t, resume) ==
    /\ OthersStay(t) /\ task[t].pc = "idle" /\ StepsTo(t, "loop", None, None, Known)
    /\ task'[t].known = Known /\ task'[t].ghost = {} /\ task'[t].desired = {}
    /\ task'[t].addr = addr /\ task'[t].resume = resume
\* A refresh that begins, of none that is under way.
LEMMA BeginNamed ==
    ASSUME TypeOK, NEW t \in Task, NEW resume, Begin(t, resume)
    PROVE  Begins(t, resume)
BY DEF TypeOK, Begin, Begins, OthersStay, StepsTo, Go, Idle

\* A change that only a refresh under way may miss.
LEMMA LateNamed == Late => (hasty => hasty') /\ (~hasty' => \A t \in Task : task[t].pc = "idle")
BY DEF Late, Running

\* A refresh under way may go on to find a binding on that is not.
Haunts(S) ==
    /\ \A t \in Task :
          /\ task'[t].pc = task[t].pc /\ task'[t].at = task[t].at
          /\ task'[t].engine = task[t].engine
          /\ task'[t].todo = task[t].todo /\ task'[t].desired = task[t].desired
          /\ task'[t].known = task[t].known /\ task'[t].addr = task[t].addr
          /\ task'[t].resume = task[t].resume
          /\ task'[t].ghost \subseteq task[t].ghost \cup task[t].todo
          /\ ~hasty' => ~hasty /\ task'[t].ghost = task[t].ghost
    /\ hasty => hasty'
\* haunt: what it changes of the refreshes.
LEMMA HauntNamed ==
    ASSUME TypeOK, NEW S \in SUBSET Binding, Haunt(S)
    PROVE  Haunts(S)
BY DEF TypeOK, Haunt, Haunts, Refresh

\* A binding that needs nothing is passed.
LEMMA PassKeeps ==
    ASSUME IInv, RInv, NEW t \in Task, NEW b \in Binding, Pass(t, b)
    PROVE  RInv'
<1>1. /\ task[t].pc = "loop" /\ b \in task[t].todo
      /\ Wants(t, b) =>
             \/ roster[b] # None /\ (addrOf[roster[b]] = task[t].addr \/ restart[b] # None)
             \/ manager # "up"
      /\ OthersStay(t) /\ Carries(t)
      /\ StepsTo(t, "loop", task[t].at, task[t].engine, task[t].todo \ {b})
      /\ task'[t].desired = IF Wants(t, b) THEN task[t].desired \cup {b} ELSE task[t].desired
      /\ UNCHANGED <<setting, addr, saves, manager, paused, roster, restart, leaving, phase,
                     addrOf, off, event, excused, hasty, purged>>
      BY DEF Pass, Go, Refresh, OthersStay, Carries, StepsTo, IInv, TypeOK, settingVars,
             engineVars, eventVars, histVars
<1>s. Shaped /\ None \notin Engine \cup Task \cup Binding
      BY ShapesHold, ManagerAssumption
<1>rest. /\ Apart' /\ Restarts' /\ Held' /\ HeldApart' /\ Attended' /\ Off' /\ Told'
         /\ Settings' /\ Served' /\ OneWalk' /\ Wakes'
      BY <1>s, <1>1 DEF RInv, Apart, Restarts, Held, HeldApart, Attended, Off, Told,
                        Settings, Served, OneWalk, Wakes, Waiting, Walking, Ready, Wanted,
                        Woken, OthersStay, Carries, StepsTo, Shaped
<1>2. ASSUME ~hasty'
      PROVE  /\ Knows' /\ Covers' /\ Spares' /\ Renews' /\ Found' /\ Followed'
             /\ EventsKept' /\ PurgedIfRemoved'
  <2>1. /\ ~hasty' /\ ~hasty /\ Knows /\ Covers /\ Spares /\ Renews /\ Found /\ Followed
        /\ EventsKept /\ PurgedIfRemoved
        BY <1>s, <1>1, <1>2 DEF RInv, OthersStay, Carries, StepsTo
  <2>rest. Knows' /\ Spares' /\ Renews' /\ Found' /\ EventsKept' /\ PurgedIfRemoved'
        BY <1>s, <1>1, <2>1 DEF Knows, Spares, Renews, Found, EventsKept, PurgedIfRemoved,
                                Dropping, Wanted, Waiting, Woken, OthersStay, Carries,
                                StepsTo, Shaped
  <2>Covers. Covers'
        BY <1>s, <1>1, <2>1 DEF RInv, Covers, Walking, Wanted, OthersStay, Carries, StepsTo,
                                Shaped, Wants, Served
  <2>Followed. Followed'
        BY <1>s, <1>1, <2>1 DEF RInv, Followed, Provided, Cleared, Walking, Dropping,
                                Waiting, Wanted, OthersStay, Carries, StepsTo, Shaped,
                                Wants, Knows, Covers
  <2>  QED
        BY <2>rest, <2>Covers, <2>Followed
<1>  QED
      BY <1>rest, <1>2 DEF RInv

\* A binding gets its engine.
LEMMA SpawnNewKeeps ==
    ASSUME IInv, RInv, NEW t \in Task, NEW b \in Binding, SpawnNew(t, b)
    PROVE  RInv'
<1>1. /\ task[t].pc = "loop" /\ b \in task[t].todo /\ Wants(t, b) /\ roster[b] = None
      /\ manager = "up"
      /\ Spawn(b, task[t].addr) /\ task[t].addr \in Nat
      /\ OthersStay(t) /\ Carries(t)
      /\ StepsTo(t, "loop", task[t].at, task[t].engine, task[t].todo \ {b})
      /\ task'[t].desired = task[t].desired \cup {b}
      /\ UNCHANGED <<setting, addr, saves, manager, paused, restart, leaving, event,
                     excused, hasty, purged>>
      BY DEF SpawnNew, Go, Refresh, OthersStay, Carries, StepsTo, IInv, TypeOK, settingVars,
             engineVars, eventVars, histVars
<1>s. Shaped /\ None \notin Engine \cup Task \cup Binding
      BY ShapesHold, ManagerAssumption
<1>e. PICK e \in Engine :
              /\ e # None /\ roster'[b] = e /\ phase'[e] = "on" /\ addrOf'[e] = task[t].addr
              /\ off'[e] = paused
              /\ paused => off'[e]
              /\ \A c \in Binding : c # b => roster'[c] = roster[c]
              /\ \A d \in Engine : d # e =>
                   phase'[d] = phase[d] /\ addrOf'[d] = addrOf[d] /\ off'[d] = off[d]
              /\ \A c \in Binding : roster[c] # e
              /\ \A u \in Task : task[u].engine # e
      BY <1>1, SpawnNamed DEF IInv
<1>rest. /\ Apart' /\ Restarts' /\ Held' /\ HeldApart' /\ Attended' /\ Told' /\ Settings'
         /\ Served' /\ OneWalk' /\ Wakes'
      BY <1>s, <1>1, <1>e DEF RInv, Apart, Restarts, Held, HeldApart, Attended, Told,
                              Settings, Served, OneWalk, Wakes, Waiting, Walking, Ready,
                              Wanted, Woken, OthersStay, Carries, StepsTo, Shaped
<1>Off. Off'
  <2>  SUFFICES ASSUME paused, NEW c \in Binding, roster'[c] # None,
                       phase'[roster'[c]] = "on"
                PROVE  off'[roster'[c]]
       BY <1>1 DEF Off
  <2>1. CASE c = b
        BY <2>1, <1>e
  <2>2. CASE c # b
        BY <2>2, <1>e, <1>s DEF RInv, Off, Shaped
  <2>  QED
       BY <2>1, <2>2
<1>2. ASSUME ~hasty'
      PROVE  /\ Knows' /\ Covers' /\ Spares' /\ Renews' /\ Found' /\ Followed'
             /\ EventsKept' /\ PurgedIfRemoved'
  <2>1. /\ ~hasty' /\ ~hasty /\ Knows /\ Covers /\ Spares /\ Renews /\ Found /\ Followed
        /\ EventsKept /\ PurgedIfRemoved
        BY <1>s, <1>1, <1>e, <1>2 DEF RInv, OthersStay, Carries, StepsTo
  <2>rest. Knows' /\ Spares' /\ Renews' /\ EventsKept' /\ PurgedIfRemoved'
        BY <1>s, <1>1, <1>e, <2>1 DEF Knows, Spares, Renews, EventsKept, PurgedIfRemoved,
                                      Dropping, Wanted, Waiting, OthersStay, Carries,
                                      StepsTo, Shaped
  <2>Covers. Covers'
        BY <1>s, <1>1, <1>e, <2>1 DEF RInv, Covers, Walking, Wanted, OthersStay, Carries,
                                      StepsTo, Shaped, Wants, Served
  <2>Found. Found'
        BY <1>s, <1>1, <1>e, <2>1 DEF RInv, Found, Woken, OthersStay, Carries, StepsTo,
                                      Shaped, Wakes, Ready
  <2>Followed. Followed'
        BY <1>s, <1>1, <1>e, <2>1 DEF RInv, Followed, Provided, Cleared, Walking, Dropping,
                                      Waiting, Wanted, OthersStay, Carries, StepsTo, Shaped,
                                      Wants, Knows, Covers
  <2>  QED
        BY <2>rest, <2>Covers, <2>Found, <2>Followed
<1>  QED
      BY <1>rest, <1>Off, <1>2 DEF RInv

\* An engine is to be replaced.
LEMMA BeginRestartKeeps ==
    ASSUME IInv, RInv, NEW t \in Task, NEW b \in Binding, BeginRestart(t, b)
    PROVE  RInv'
<1>1. /\ task[t].pc = "loop" /\ b \in task[t].todo /\ Wants(t, b) /\ roster[b] # None
      /\ restart[b] = None
      /\ Stopping({roster[b]})
      /\ restart'[b] = t /\ \A c \in Binding : c # b => restart'[c] = restart[c]
      /\ OthersStay(t) /\ Carries(t)
      /\ StepsTo(t, "restarting", b, roster[b], task[t].todo \ {b})
      /\ task'[t].desired = task[t].desired \cup {b}
      /\ UNCHANGED <<setting, addr, saves, manager, paused, roster, leaving, addrOf, off,
                     event, excused, hasty, purged>>
      BY DEF BeginRestart, Go, Refresh, OthersStay, Carries, StepsTo, IInv, TypeOK,
             settingVars, engineVars, eventVars, histVars
<1>s. Shaped /\ None \notin Engine \cup Task \cup Binding
      BY ShapesHold, ManagerAssumption
<1>e. /\ roster[b] # None => phase'[roster[b]] # "on"
      /\ \A e \in Engine : phase[e] # "on" \/ e # roster[b] => phase'[e] = phase[e]
      BY <1>1, <1>s, StopNamed DEF IInv, Shaped
<1>rest. Apart' /\ Restarts' /\ Off' /\ Told' /\ Settings' /\ Served'
      BY <1>s, <1>1, <1>e DEF RInv, Apart, Restarts, Off, Told, Settings, Served, Walking,
                              OthersStay, Carries, StepsTo, Shaped
<1>Held. Held'
      BY <1>s, <1>1, <1>e DEF RInv, Held, Waiting, OthersStay, Carries, StepsTo, Shaped,
                              Apart
<1>HeldApart. HeldApart'
      BY <1>s, <1>1, <1>e DEF RInv, HeldApart, OthersStay, Carries, StepsTo, Shaped, Held,
                              Waiting, Restarts
<1>Attended. Attended'
      BY <1>s, <1>1, <1>e DEF RInv, Attended, Waiting, OthersStay, Carries, StepsTo, Shaped,
                              Apart
<1>OneWalk. OneWalk'
      BY <1>s, <1>1, <1>e DEF RInv, OneWalk, Ready, OthersStay, Carries, StepsTo, Shaped,
                              Held, Waiting, Restarts
<1>Wakes. Wakes'
      BY <1>s, <1>1, <1>e DEF RInv, Wakes, Ready, Wanted, Woken, OthersStay, Carries,
                              StepsTo, Shaped, Restarts, Held, Waiting
<1>2. ASSUME ~hasty'
      PROVE  /\ Knows' /\ Covers' /\ Spares' /\ Renews' /\ Found' /\ Followed'
             /\ EventsKept' /\ PurgedIfRemoved'
  <2>1. /\ ~hasty' /\ ~hasty /\ Knows /\ Covers /\ Spares /\ Renews /\ Found /\ Followed
        /\ EventsKept /\ PurgedIfRemoved
        BY <1>s, <1>1, <1>e, <1>2 DEF RInv, OthersStay, Carries, StepsTo
  <2>rest. Knows' /\ Spares' /\ Renews' /\ EventsKept' /\ PurgedIfRemoved'
        BY <1>s, <1>1, <1>e, <2>1 DEF Knows, Spares, Renews, EventsKept, PurgedIfRemoved,
                                      Dropping, Wanted, Waiting, OthersStay, Carries,
                                      StepsTo, Shaped
  <2>Covers. Covers'
        BY <1>s, <1>1, <1>e, <2>1 DEF RInv, Covers, Walking, Wanted, OthersStay, Carries,
                                      StepsTo, Shaped, Wants, Served
  <2>Found. Found'
        BY <1>s, <1>1, <1>e, <2>1 DEF RInv, Found, Woken, OthersStay, Carries, StepsTo,
                                      Shaped, Apart, Wakes, Ready
  <2>Followed. Followed'
        BY <1>s, <1>1, <1>e, <2>1 DEF RInv, Followed, Provided, Cleared, Walking, Dropping,
                                      Waiting, Wanted, OthersStay, Carries, StepsTo, Shaped,
                                      Wants, Knows, Covers
  <2>  QED
        BY <2>rest, <2>Covers, <2>Found, <2>Followed
<1>  QED
      BY <1>rest, <1>Held, <1>HeldApart, <1>Attended, <1>OneWalk, <1>Wakes, <1>2 DEF RInv

\* A restart whose engine was dropped meanwhile.
LEMMA OvertakenKeeps ==
    ASSUME IInv, RInv, NEW t \in Task, EndRestart(t), roster[task[t].at] # task[t].engine
    PROVE  RInv'
<1>1. /\ task[t].pc = "restarting" /\ phase[task[t].engine] = "stopped"
      /\ restart'[task[t].at] = None
      /\ \A c \in Binding : c # task[t].at => restart'[c] = restart[c]
      /\ UNCHANGED <<roster, phase, addrOf, off>>
      /\ OthersStay(t) /\ Carries(t) /\ StepsTo(t, "loop", None, None, task[t].todo)
      /\ task'[t].desired = task[t].desired
      /\ UNCHANGED <<setting, addr, saves, manager, paused, leaving, event, excused, hasty,
                     purged>>
      BY DEF EndRestart, CanGoOn, Wanted, RestartHasEngine, Go, Refresh, OthersStay,
             Carries, StepsTo, IInv, TypeOK, settingVars, engineVars, eventVars, histVars
<1>s. Shaped /\ None \notin Engine \cup Task \cup Binding
      BY ShapesHold, ManagerAssumption
<1>rest. Apart' /\ Restarts' /\ Held' /\ HeldApart' /\ Off' /\ Told' /\ Settings' /\ Served'
      BY <1>s, <1>1 DEF RInv, Apart, Restarts, Held, HeldApart, Off, Told, Settings, Served,
                        Waiting, Walking, OthersStay, Carries, StepsTo, Shaped
<1>Attended. Attended'
      BY <1>s, <1>1 DEF RInv, Attended, Waiting, OthersStay, Carries, StepsTo, Shaped
<1>OneWalk. OneWalk'
      BY <1>s, <1>1 DEF RInv, OneWalk, Ready, OthersStay, Carries, StepsTo, Shaped
<1>Wakes. Wakes'
      BY <1>s, <1>1 DEF RInv, Wakes, Ready, Wanted, Woken, OthersStay, Carries, StepsTo,
                        Shaped, Restarts, OneWalk
<1>2. ASSUME ~hasty'
      PROVE  /\ Knows' /\ Covers' /\ Spares' /\ Renews' /\ Found' /\ Followed'
             /\ EventsKept' /\ PurgedIfRemoved'
  <2>1. /\ ~hasty' /\ ~hasty /\ Knows /\ Covers /\ Spares /\ Renews /\ Found /\ Followed
        /\ EventsKept /\ PurgedIfRemoved
        BY <1>s, <1>1, <1>2 DEF RInv, OthersStay, Carries, StepsTo
  <2>rest. Knows' /\ Covers' /\ Spares' /\ EventsKept' /\ PurgedIfRemoved'
        BY <1>s, <1>1, <2>1 DEF Knows, Covers, Spares, EventsKept, PurgedIfRemoved, Walking,
                                Wanted, Dropping, OthersStay, Carries, StepsTo, Shaped
  <2>Renews. Renews'
        BY <1>s, <1>1, <2>1 DEF RInv, Renews, Wanted, Waiting, OthersStay, Carries, StepsTo,
                                Shaped, Restarts
  <2>Found. Found'
        BY <1>s, <1>1, <2>1 DEF RInv, Found, Woken, OthersStay, Carries, StepsTo, Shaped,
                                Wakes, Wanted, Renews, Restarts
  <2>Followed. Followed'
        BY <1>s, <1>1, <2>1 DEF RInv, Followed, Provided, Cleared, Walking, Dropping,
                                Waiting, Wanted, OthersStay, Carries, StepsTo, Shaped,
                                Renews
  <2>  QED
        BY <2>rest, <2>Renews, <2>Found, <2>Followed
<1>  QED
      BY <1>rest, <1>Attended, <1>OneWalk, <1>Wakes, <1>2 DEF RInv

\* A restart that ends with a new engine.
LEMMA ReplacedKeeps ==
    ASSUME IInv, RInv, NEW t \in Task, EndRestart(t), roster[task[t].at] = task[t].engine,
           Wanted(task[t].at)
    PROVE  RInv'
<1>1. /\ task[t].pc = "restarting" /\ phase[task[t].engine] = "stopped"
      /\ restart'[task[t].at] = None
      /\ \A c \in Binding : c # task[t].at => restart'[c] = restart[c]
      /\ Spawn(task[t].at, addr) /\ addr \in Nat /\ task[t].at \in Binding
      /\ OthersStay(t) /\ Carries(t) /\ StepsTo(t, "loop", None, None, task[t].todo)
      /\ task'[t].desired = task[t].desired
      /\ UNCHANGED <<setting, addr, saves, manager, paused, leaving, event, excused, hasty,
                     purged>>
      BY DEF EndRestart, CanGoOn, Wanted, RestartHasEngine, Go, Refresh, OthersStay,
             Carries, StepsTo, IInv, TypeOK, settingVars, engineVars, eventVars, histVars
<1>s. Shaped /\ None \notin Engine \cup Task \cup Binding
      BY ShapesHold, ManagerAssumption
<1>e. PICK e \in Engine :
              /\ e # None /\ roster'[task[t].at] = e /\ phase'[e] = "on"
              /\ addrOf'[e] = addr
              /\ off'[e] = paused
              /\ paused => off'[e]
              /\ \A c \in Binding : c # task[t].at => roster'[c] = roster[c]
              /\ \A d \in Engine : d # e =>
                   phase'[d] = phase[d] /\ addrOf'[d] = addrOf[d] /\ off'[d] = off[d]
              /\ \A c \in Binding : roster[c] # e
              /\ \A u \in Task : task[u].engine # e
      BY <1>1, SpawnNamed DEF IInv
<1>rest. Apart' /\ Restarts' /\ Held' /\ HeldApart' /\ Told' /\ Settings' /\ Served'
      BY <1>s, <1>1, <1>e DEF RInv, Apart, Restarts, Held, HeldApart, Told, Settings,
                              Served, Waiting, Walking, OthersStay, Carries, StepsTo, Shaped
<1>Attended. Attended'
      BY <1>s, <1>1, <1>e DEF RInv, Attended, Waiting, OthersStay, Carries, StepsTo, Shaped
<1>Off. Off'
  <2>  SUFFICES ASSUME paused, NEW c \in Binding, roster'[c] # None,
                       phase'[roster'[c]] = "on"
                PROVE  off'[roster'[c]]
       BY <1>1 DEF Off
  <2>1. CASE c = task[t].at
        BY <2>1, <1>e
  <2>2. CASE c # task[t].at
        BY <2>2, <1>e, <1>s DEF RInv, Off, Shaped
  <2>  QED
       BY <2>1, <2>2
<1>OneWalk. OneWalk'
      BY <1>s, <1>1, <1>e DEF RInv, OneWalk, Ready, OthersStay, Carries, StepsTo, Shaped
<1>Wakes. Wakes'
      BY <1>s, <1>1, <1>e DEF RInv, Wakes, Ready, Wanted, Woken, OthersStay, Carries,
                              StepsTo, Shaped, Restarts, OneWalk
<1>2. ASSUME ~hasty'
      PROVE  /\ Knows' /\ Covers' /\ Spares' /\ Renews' /\ Found' /\ Followed'
             /\ EventsKept' /\ PurgedIfRemoved'
  <2>1. /\ ~hasty' /\ ~hasty /\ Knows /\ Covers /\ Spares /\ Renews /\ Found /\ Followed
        /\ EventsKept /\ PurgedIfRemoved
        BY <1>s, <1>1, <1>e, <1>2 DEF RInv, OthersStay, Carries, StepsTo
  <2>rest. Knows' /\ Covers' /\ Spares' /\ EventsKept' /\ PurgedIfRemoved'
        BY <1>s, <1>1, <1>e, <2>1 DEF Knows, Covers, Spares, EventsKept, PurgedIfRemoved,
                                      Walking, Wanted, Dropping, OthersStay, Carries,
                                      StepsTo, Shaped
  <2>Renews. Renews'
        BY <1>s, <1>1, <1>e, <2>1 DEF RInv, Renews, Wanted, Waiting, OthersStay, Carries,
                                      StepsTo, Shaped, Restarts
  <2>Found. Found'
        BY <1>s, <1>1, <1>e, <2>1 DEF RInv, Found, Woken, OthersStay, Carries, StepsTo,
                                      Shaped, Wakes, Wanted, Renews, Restarts
  <2>Followed. Followed'
        BY <1>s, <1>1, <1>e, <2>1 DEF RInv, Followed, Provided, Cleared, Walking, Dropping,
                                      Waiting, Wanted, OthersStay, Carries, StepsTo, Shaped,
                                      Renews
  <2>  QED
        BY <2>rest, <2>Renews, <2>Found, <2>Followed
<1>  QED
      BY <1>rest, <1>Attended, <1>Off, <1>OneWalk, <1>Wakes, <1>2 DEF RInv

\* A restart of a binding that is to have none any more.
LEMMA SwitchedOffKeeps ==
    ASSUME IInv, RInv, NEW t \in Task, EndRestart(t), roster[task[t].at] = task[t].engine,
           ~Wanted(task[t].at)
    PROVE  RInv'
<1>1. /\ task[t].pc = "restarting" /\ phase[task[t].engine] = "stopped"
      /\ restart'[task[t].at] = None
      /\ \A c \in Binding : c # task[t].at => restart'[c] = restart[c]
      /\ roster'[task[t].at] = None
      /\ \A c \in Binding : c # task[t].at => roster'[c] = roster[c]
      /\ UNCHANGED <<phase, addrOf, off>>
      /\ OthersStay(t) /\ Carries(t) /\ StepsTo(t, "loop", None, None, task[t].todo)
      /\ task'[t].desired = task[t].desired
      /\ UNCHANGED <<setting, addr, saves, manager, paused, leaving, event, excused, hasty,
                     purged>>
      BY DEF EndRestart, CanGoOn, Wanted, RestartHasEngine, Go, Refresh, OthersStay,
             Carries, StepsTo, IInv, TypeOK, settingVars, engineVars, eventVars, histVars
<1>s. Shaped /\ None \notin Engine \cup Task \cup Binding
      BY ShapesHold, ManagerAssumption
<1>rest. Apart' /\ Restarts' /\ Held' /\ HeldApart' /\ Off' /\ Told' /\ Settings' /\ Served'
      BY <1>s, <1>1 DEF RInv, Apart, Restarts, Held, HeldApart, Off, Told, Settings, Served,
                        Waiting, Walking, OthersStay, Carries, StepsTo, Shaped
<1>Attended. Attended'
      BY <1>s, <1>1 DEF RInv, Attended, Waiting, OthersStay, Carries, StepsTo, Shaped
<1>OneWalk. OneWalk'
      BY <1>s, <1>1 DEF RInv, OneWalk, Ready, OthersStay, Carries, StepsTo, Shaped
<1>Wakes. Wakes'
      BY <1>s, <1>1 DEF RInv, Wakes, Ready, Wanted, Woken, OthersStay, Carries, StepsTo,
                        Shaped, Restarts, OneWalk
<1>2. ASSUME ~hasty'
      PROVE  /\ Knows' /\ Covers' /\ Spares' /\ Renews' /\ Found' /\ Followed'
             /\ EventsKept' /\ PurgedIfRemoved'
  <2>1. /\ ~hasty' /\ ~hasty /\ Knows /\ Covers /\ Spares /\ Renews /\ Found /\ Followed
        /\ EventsKept /\ PurgedIfRemoved
        BY <1>s, <1>1, <1>2 DEF RInv, OthersStay, Carries, StepsTo
  <2>rest. Knows' /\ Covers' /\ Spares' /\ EventsKept' /\ PurgedIfRemoved'
        BY <1>s, <1>1, <2>1 DEF Knows, Covers, Spares, EventsKept, PurgedIfRemoved, Walking,
                                Wanted, Dropping, OthersStay, Carries, StepsTo, Shaped
  <2>Renews. Renews'
        BY <1>s, <1>1, <2>1 DEF RInv, Renews, Wanted, Waiting, OthersStay, Carries, StepsTo,
                                Shaped, Restarts
  <2>Found. Found'
        BY <1>s, <1>1, <2>1 DEF RInv, Found, Woken, OthersStay, Carries, StepsTo, Shaped,
                                Wakes, Wanted, Renews, Restarts
  <2>Followed. Followed'
        BY <1>s, <1>1, <2>1 DEF RInv, Followed, Provided, Cleared, Walking, Dropping,
                                Waiting, Wanted, OthersStay, Carries, StepsTo, Shaped,
                                Renews
  <2>  QED
        BY <2>rest, <2>Renews, <2>Found, <2>Followed
<1>  QED
      BY <1>rest, <1>Attended, <1>OneWalk, <1>Wakes, <1>2 DEF RInv

\* The walk is over.
LEMMA EndLoopKeeps == ASSUME IInv, RInv, NEW t \in Task, EndLoop(t) PROVE RInv'
<1>1. /\ task[t].pc = "loop" /\ task[t].todo = {}
      /\ OthersStay(t)
      /\ StepsTo(t, "drop", None, None, {b \in Binding : roster[b] # None} \ task[t].desired)
      /\ task'[t].known = task[t].known /\ task'[t].ghost = {}
      /\ task'[t].resume = task[t].resume
      /\ UNCHANGED <<setting, addr, saves, manager, paused, roster, restart, leaving, phase,
                     addrOf, off, event, excused, hasty, purged>>
      BY DEF EndLoop, Idle, Go, Refresh, OthersStay, Carries, StepsTo, IInv, TypeOK,
             settingVars, engineVars, eventVars, histVars
<1>s. Shaped /\ None \notin Engine \cup Task \cup Binding
      BY ShapesHold, ManagerAssumption
<1>rest. /\ Apart' /\ Restarts' /\ Held' /\ HeldApart' /\ Attended' /\ Off' /\ Told'
         /\ Settings' /\ Served' /\ OneWalk' /\ Wakes'
      BY <1>s, <1>1 DEF RInv, Apart, Restarts, Held, HeldApart, Attended, Off, Told,
                        Settings, Served, OneWalk, Wakes, Waiting, Walking, Ready, Wanted,
                        Woken, OthersStay, StepsTo, Shaped
<1>2. ASSUME ~hasty'
      PROVE  /\ Knows' /\ Covers' /\ Spares' /\ Renews' /\ Found' /\ Followed'
             /\ EventsKept' /\ PurgedIfRemoved'
  <2>1. /\ ~hasty' /\ ~hasty /\ Knows /\ Covers /\ Spares /\ Renews /\ Found /\ Followed
        /\ EventsKept /\ PurgedIfRemoved
        BY <1>s, <1>1, <1>2 DEF RInv, OthersStay, StepsTo
  <2>rest. /\ Knows' /\ Covers' /\ Renews' /\ Found' /\ Followed' /\ EventsKept'
           /\ PurgedIfRemoved'
        BY <1>s, <1>1, <2>1 DEF Knows, Covers, Renews, Found, Followed, EventsKept,
                                PurgedIfRemoved, Walking, Wanted, Waiting, Woken, Provided,
                                Cleared, Dropping, OthersStay, StepsTo, Shaped
  <2>Spares. Spares'
        BY <1>s, <1>1, <2>1 DEF RInv, Spares, Dropping, Wanted, OthersStay, StepsTo, Shaped,
                                Covers, Walking
  <2>  QED
        BY <2>rest, <2>Spares
<1>  QED
      BY <1>rest, <1>2 DEF RInv

\* An engine is to be dropped.
LEMMA BeginDropKeeps ==
    ASSUME IInv, RInv, NEW t \in Task, NEW b \in Binding, BeginDrop(t, b)
    PROVE  RInv'
<1>1. /\ task[t].pc = "drop" /\ b \in task[t].todo
      /\ Stopping({roster[b]} \ {None})
      /\ OthersStay(t) /\ Carries(t)
      /\ StepsTo(t, "dropping", b, roster[b], task[t].todo \ {b})
      /\ task'[t].desired = task[t].desired
      /\ UNCHANGED <<setting, addr, saves, manager, paused, roster, restart, leaving,
                     addrOf, off, event, excused, hasty, purged>>
      BY DEF BeginDrop, Go, Refresh, OthersStay, Carries, StepsTo, IInv, TypeOK,
             settingVars, engineVars, eventVars, histVars
<1>s. Shaped /\ None \notin Engine \cup Task \cup Binding
      BY ShapesHold, ManagerAssumption
<1>e. /\ roster[b] # None => phase'[roster[b]] # "on"
      /\ \A e \in Engine : phase[e] # "on" \/ e # roster[b] => phase'[e] = phase[e]
      BY <1>1, <1>s, StopNamed DEF IInv, Shaped
<1>rest. Apart' /\ Restarts' /\ HeldApart' /\ Off' /\ Told' /\ Settings' /\ Served'
      BY <1>s, <1>1, <1>e DEF RInv, Apart, Restarts, HeldApart, Off, Told, Settings, Served,
                              Walking, OthersStay, Carries, StepsTo, Shaped
<1>Held. Held'
      BY <1>s, <1>1, <1>e DEF RInv, Held, Waiting, OthersStay, Carries, StepsTo, Shaped,
                              Apart
<1>Attended. Attended'
      BY <1>s, <1>1, <1>e DEF RInv, Attended, Waiting, OthersStay, Carries, StepsTo, Shaped,
                              Apart
<1>OneWalk. OneWalk'
      BY <1>s, <1>1, <1>e DEF RInv, OneWalk, Ready, OthersStay, Carries, StepsTo, Shaped,
                              Held, Waiting
<1>Wakes. Wakes'
      BY <1>s, <1>1, <1>e DEF RInv, Wakes, Ready, Wanted, Woken, OthersStay, Carries,
                              StepsTo, Shaped, Held, Waiting
<1>2. ASSUME ~hasty'
      PROVE  /\ Knows' /\ Covers' /\ Spares' /\ Renews' /\ Found' /\ Followed'
             /\ EventsKept' /\ PurgedIfRemoved'
  <2>1. /\ ~hasty' /\ ~hasty /\ Knows /\ Covers /\ Spares /\ Renews /\ Found /\ Followed
        /\ EventsKept /\ PurgedIfRemoved
        BY <1>s, <1>1, <1>e, <1>2 DEF RInv, OthersStay, Carries, StepsTo
  <2>rest. /\ Knows' /\ Covers' /\ Spares' /\ Renews' /\ Followed' /\ EventsKept'
           /\ PurgedIfRemoved'
        BY <1>s, <1>1, <1>e, <2>1 DEF Knows, Covers, Spares, Renews, Followed, EventsKept,
                                      PurgedIfRemoved, Walking, Wanted, Dropping, Waiting,
                                      Provided, Cleared, OthersStay, Carries, StepsTo,
                                      Shaped
  <2>Found. Found'
        BY <1>s, <1>1, <1>e, <2>1 DEF RInv, Found, Woken, OthersStay, Carries, StepsTo,
                                      Shaped, Apart, Wakes, Spares, Dropping, Wanted
  <2>  QED
        BY <2>rest, <2>Found
<1>  QED
      BY <1>rest, <1>Held, <1>Attended, <1>OneWalk, <1>Wakes, <1>2 DEF RInv

\* An engine is dropped, and a removed binding erased.
LEMMA EndDropKeeps == ASSUME IInv, RInv, NEW t \in Task, EndDrop(t) PROVE RInv'
<1>1. /\ task[t].pc = "dropping" /\ CanGoOn(t)
      /\ roster'[task[t].at] = (IF roster[task[t].at] = task[t].engine THEN None ELSE roster[task[t].at])
      /\ \A c \in Binding : c # task[t].at => roster'[c] = roster[c]
      /\ purged' = IF task[t].at \in task[t].known THEN purged ELSE purged \cup {task[t].at}
      /\ OthersStay(t) /\ Carries(t)
      /\ StepsTo(t, IF task[t].at \in task[t].known THEN "drop" ELSE "purging", None, None, task[t].todo)
      /\ task'[t].desired = task[t].desired
      /\ UNCHANGED <<setting, addr, saves, manager, paused, restart, leaving, phase, addrOf,
                     off, event, excused, hasty>>
      BY DEF EndDrop, Dropped, RestartHasEngine, Go, Refresh, OthersStay, Carries, StepsTo,
             IInv, TypeOK, settingVars, engineVars, eventVars, histVars
<1>s. Shaped /\ None \notin Engine \cup Task \cup Binding
      BY ShapesHold, ManagerAssumption
<1>rest. /\ Apart' /\ Restarts' /\ Held' /\ HeldApart' /\ Attended' /\ Off' /\ Told'
         /\ Settings' /\ Served' /\ OneWalk' /\ Wakes'
      BY <1>s, <1>1 DEF RInv, Apart, Restarts, Held, HeldApart, Attended, Off, Told,
                        Settings, Served, OneWalk, Wakes, Waiting, Walking, Ready, Wanted,
                        Woken, OthersStay, Carries, StepsTo, Shaped
<1>2. ASSUME ~hasty'
      PROVE  /\ Knows' /\ Covers' /\ Spares' /\ Renews' /\ Found' /\ Followed'
             /\ EventsKept' /\ PurgedIfRemoved'
  <2>1. /\ ~hasty' /\ ~hasty /\ Knows /\ Covers /\ Spares /\ Renews /\ Found /\ Followed
        /\ EventsKept /\ PurgedIfRemoved
        BY <1>s, <1>1, <1>2 DEF RInv, OthersStay, Carries, StepsTo
  <2>rest. Knows' /\ Covers' /\ Spares' /\ EventsKept'
        BY <1>s, <1>1, <2>1 DEF Knows, Covers, Spares, EventsKept, Walking, Wanted,
                                Dropping, OthersStay, Carries, StepsTo, Shaped
  <2>Renews. Renews'
        BY <1>s, <1>1, <2>1 DEF RInv, Renews, Wanted, Waiting, OthersStay, Carries, StepsTo,
                                Shaped, Spares, Dropping
  <2>Found. Found'
        BY <1>s, <1>1, <2>1 DEF RInv, Found, Woken, OthersStay, Carries, StepsTo, Shaped,
                                Wakes, Spares, Dropping, Wanted, Waiting
  <2>Followed. Followed'
        BY <1>s, <1>1, <2>1 DEF RInv, Followed, Provided, Cleared, Walking, Dropping,
                                Waiting, Wanted, OthersStay, Carries, StepsTo, Shaped,
                                Spares
  <2>PurgedIfRemoved. PurgedIfRemoved'
        BY <1>s, <1>1, <2>1 DEF RInv, PurgedIfRemoved, OthersStay, Carries, StepsTo, Shaped,
                                Knows, Settings, Waiting
  <2>  QED
        BY <2>rest, <2>Renews, <2>Found, <2>Followed, <2>PurgedIfRemoved
<1>  QED
      BY <1>rest, <1>2 DEF RInv

\* A binding is erased from IndexedDB too.
LEMMA ErasedKeeps == ASSUME IInv, RInv, NEW t \in Task, Erased(t) PROVE RInv'
<1>1. /\ task[t].pc = "purging"
      /\ OthersStay(t) /\ Carries(t)
      /\ StepsTo(t, "drop", task[t].at, task[t].engine, task[t].todo)
      /\ task'[t].desired = task[t].desired
      /\ UNCHANGED <<setting, addr, saves, manager, paused, roster, restart, leaving, phase,
                     addrOf, off, event, excused, hasty, purged>>
      BY DEF Erased, Go, Refresh, OthersStay, Carries, StepsTo, IInv, TypeOK, settingVars,
             engineVars, eventVars, histVars
<1>s. Shaped /\ None \notin Engine \cup Task \cup Binding
      BY ShapesHold, ManagerAssumption
<1>rest. /\ Apart' /\ Restarts' /\ Held' /\ HeldApart' /\ Attended' /\ Off' /\ Told'
         /\ Settings' /\ Served' /\ OneWalk' /\ Wakes'
      BY <1>s, <1>1 DEF RInv, Apart, Restarts, Held, HeldApart, Attended, Off, Told,
                        Settings, Served, OneWalk, Wakes, Waiting, Walking, Ready, Wanted,
                        Woken, OthersStay, Carries, StepsTo, Shaped
<1>2. ASSUME ~hasty'
      PROVE  /\ Knows' /\ Covers' /\ Spares' /\ Renews' /\ Found' /\ Followed'
             /\ EventsKept' /\ PurgedIfRemoved'
  <2>1. /\ ~hasty' /\ ~hasty /\ Knows /\ Covers /\ Spares /\ Renews /\ Found /\ Followed
        /\ EventsKept /\ PurgedIfRemoved
        BY <1>s, <1>1, <1>2 DEF RInv, OthersStay, Carries, StepsTo
  <2>rest. /\ Knows' /\ Covers' /\ Spares' /\ Renews' /\ Found' /\ Followed' /\ EventsKept'
           /\ PurgedIfRemoved'
        BY <1>s, <1>1, <2>1 DEF Knows, Covers, Spares, Renews, Found, Followed, EventsKept,
                                PurgedIfRemoved, Walking, Wanted, Dropping, Waiting, Woken,
                                Provided, Cleared, OthersStay, Carries, StepsTo, Shaped
  <2>  QED
        BY <2>rest
<1>  QED
      BY <1>rest, <1>2 DEF RInv

\* A refresh is over; resumed, every engine connects again.
LEMMA EndKeeps == ASSUME IInv, RInv, NEW t \in Task, End(t) PROVE RInv'
<1>1. /\ task[t].pc = "drop" /\ task[t].todo = {}
      /\ OthersStay(t) /\ StepsTo(t, "idle", None, None, {}) /\ task'[t].ghost = {}
      /\ \A e \in Engine : off'[e] =
             IF task[t].resume /\ ~paused /\ manager = "up"
                /\ e \in Rostered /\ phase[e] = "on"
                                   THEN FALSE ELSE off[e]
      /\ UNCHANGED <<setting, addr, saves, manager, paused, roster, restart, leaving, phase,
                     addrOf, event, excused, hasty, purged>>
      BY DEF End, Idle, Go, Refresh, OthersStay, Carries, StepsTo, IInv, TypeOK,
             settingVars, engineVars, eventVars, histVars
<1>s. Shaped /\ None \notin Engine \cup Task \cup Binding
      BY ShapesHold, ManagerAssumption
<1>e. \A c \in Binding : roster[c] # None => off'[roster[c]] =
          IF task[t].resume /\ ~paused /\ manager = "up" /\ phase[roster[c]] = "on"
           THEN FALSE ELSE off[roster[c]]
      BY <1>1, <1>s DEF Shaped, Rostered
<1>rest. /\ Apart' /\ Restarts' /\ Held' /\ HeldApart' /\ Attended' /\ Settings' /\ Served'
         /\ OneWalk' /\ Wakes'
      BY <1>s, <1>1, <1>e DEF RInv, Apart, Restarts, Held, HeldApart, Attended, Settings,
                              Served, OneWalk, Wakes, Waiting, Walking, Ready, Wanted,
                              Woken, OthersStay, StepsTo, Shaped
<1>Off. Off'
      BY <1>s, <1>1, <1>e DEF RInv, Off, OthersStay, StepsTo, Shaped
<1>Told. Told'
      BY <1>s, <1>1, <1>e DEF RInv, Told, OthersStay, StepsTo, Shaped
<1>2. ASSUME ~hasty'
      PROVE  /\ Knows' /\ Covers' /\ Spares' /\ Renews' /\ Found' /\ Followed'
             /\ EventsKept' /\ PurgedIfRemoved'
  <2>1. /\ ~hasty' /\ ~hasty /\ Knows /\ Covers /\ Spares /\ Renews /\ Found /\ Followed
        /\ EventsKept /\ PurgedIfRemoved
        BY <1>s, <1>1, <1>e, <1>2 DEF RInv, OthersStay, StepsTo
  <2>rest. /\ Knows' /\ Covers' /\ Spares' /\ Renews' /\ Found' /\ Followed' /\ EventsKept'
           /\ PurgedIfRemoved'
        BY <1>s, <1>1, <1>e, <2>1 DEF Knows, Covers, Spares, Renews, Found, Followed,
                                      EventsKept, PurgedIfRemoved, Walking, Wanted,
                                      Dropping, Waiting, Woken, Provided, Cleared,
                                      OthersStay, StepsTo, Shaped
  <2>  QED
        BY <2>rest
<1>  QED
      BY <1>rest, <1>Off, <1>Told, <1>2 DEF RInv

\* The settings are saved, and a refresh begins.
LEMMA SavedKeeps == ASSUME IInv, RInv, Saved, manager = "up" PROVE RInv'
<1>1. /\ Turn /\ \E t \in Task : Begin(t, FALSE)
      /\ UNCHANGED <<setting, addr, manager, paused, roster, restart, leaving, phase,
                     addrOf, off, event, excused, hasty, purged>>
      BY DEF Saved, IInv, TypeOK, settingVars, engineVars, eventVars, histVars
<1>s. Shaped /\ None \notin Engine \cup Task \cup Binding
      BY ShapesHold, ManagerAssumption
<1>b. PICK t \in Task : Begins(t, FALSE)
      BY <1>1, BeginNamed DEF IInv
<1>q. Quiet
      BY <1>1, TurnIsQuiet
<1>rest. Apart' /\ Held' /\ HeldApart' /\ Attended' /\ Off' /\ Told' /\ Settings' /\ Served'
      BY <1>s, <1>1, <1>b, <1>q DEF RInv, Apart, Held, HeldApart, Attended, Off, Told,
                                    Settings, Served, Waiting, Walking, Begins, OthersStay,
                                    StepsTo, Known, Shaped
<1>Restarts. Restarts'
      BY <1>s, <1>1, <1>b, <1>q DEF RInv, Restarts, Begins, OthersStay, StepsTo, Known,
                                    Shaped, Quiet
<1>OneWalk. OneWalk'
      BY <1>s, <1>1, <1>b, <1>q DEF RInv, OneWalk, Ready, Begins, OthersStay, StepsTo,
                                    Known, Shaped, Quiet
<1>Wakes. Wakes'
      BY <1>s, <1>1, <1>b, <1>q DEF RInv, Wakes, Ready, Wanted, Woken, Begins, OthersStay,
                                    StepsTo, Known, Shaped, Quiet
<1>2. ASSUME ~hasty'
      PROVE  /\ Knows' /\ Covers' /\ Spares' /\ Renews' /\ Found' /\ Followed'
             /\ EventsKept' /\ PurgedIfRemoved'
  <2>1. /\ ~hasty' /\ ~hasty /\ Knows /\ Covers /\ Spares /\ Renews /\ Found /\ Followed
        /\ EventsKept /\ PurgedIfRemoved
        BY <1>s, <1>1, <1>b, <1>q, <1>2 DEF RInv, Begins, OthersStay, StepsTo, Known
  <2>rest. /\ Knows' /\ Covers' /\ Spares' /\ Renews' /\ Followed' /\ EventsKept'
           /\ PurgedIfRemoved'
        BY <1>s, <1>1, <1>b, <1>q, <2>1 DEF Knows, Covers, Spares, Renews, Followed,
               EventsKept, PurgedIfRemoved, Walking, Wanted, Dropping, Waiting, Provided,
               Cleared, Begins, OthersStay, StepsTo, Known, Shaped
  <2>Found. Found'
        BY <1>s, <1>1, <1>b, <1>q, <2>1 DEF RInv, Found, Woken, Begins, OthersStay, StepsTo,
               Known, Shaped, Quiet
  <2>  QED
        BY <2>rest, <2>Found
<1>  QED
      BY <1>rest, <1>Restarts, <1>OneWalk, <1>Wakes, <1>2 DEF RInv

\* Sync is resumed, and a refresh begins.
LEMMA ResumeKeeps == ASSUME IInv, RInv, Resume PROVE RInv'
<1>1. /\ Turn /\ \E t \in Task : Begin(t, TRUE)
      /\ paused' = FALSE
      /\ UNCHANGED <<setting, addr, saves, manager, roster, restart, leaving, phase, addrOf,
                     off, event, excused, hasty, purged>>
      BY DEF Resume, Change, IInv, TypeOK, settingVars, engineVars, eventVars, histVars
<1>s. Shaped /\ None \notin Engine \cup Task \cup Binding
      BY ShapesHold, ManagerAssumption
<1>b. PICK t \in Task : Begins(t, TRUE)
      BY <1>1, BeginNamed DEF IInv
<1>q. Quiet
      BY <1>1, TurnIsQuiet
<1>rest. Apart' /\ Held' /\ HeldApart' /\ Attended' /\ Off' /\ Told' /\ Settings' /\ Served'
      BY <1>s, <1>1, <1>b, <1>q DEF RInv, Apart, Held, HeldApart, Attended, Off, Told,
                                    Settings, Served, Waiting, Walking, Begins, OthersStay,
                                    StepsTo, Known, Shaped
<1>Restarts. Restarts'
      BY <1>s, <1>1, <1>b, <1>q DEF RInv, Restarts, Begins, OthersStay, StepsTo, Known,
                                    Shaped, Quiet
<1>OneWalk. OneWalk'
      BY <1>s, <1>1, <1>b, <1>q DEF RInv, OneWalk, Ready, Begins, OthersStay, StepsTo,
                                    Known, Shaped, Quiet
<1>Wakes. Wakes'
      BY <1>s, <1>1, <1>b, <1>q DEF RInv, Wakes, Ready, Wanted, Woken, Begins, OthersStay,
                                    StepsTo, Known, Shaped, Quiet
<1>2. ASSUME ~hasty'
      PROVE  /\ Knows' /\ Covers' /\ Spares' /\ Renews' /\ Found' /\ Followed'
             /\ EventsKept' /\ PurgedIfRemoved'
  <2>1. /\ ~hasty' /\ ~hasty /\ Knows /\ Covers /\ Spares /\ Renews /\ Found /\ Followed
        /\ EventsKept /\ PurgedIfRemoved
        BY <1>s, <1>1, <1>b, <1>q, <1>2 DEF RInv, Begins, OthersStay, StepsTo, Known
  <2>rest. /\ Knows' /\ Covers' /\ Spares' /\ Renews' /\ Followed' /\ EventsKept'
           /\ PurgedIfRemoved'
        BY <1>s, <1>1, <1>b, <1>q, <2>1 DEF Knows, Covers, Spares, Renews, Followed,
               EventsKept, PurgedIfRemoved, Walking, Wanted, Dropping, Waiting, Provided,
               Cleared, Begins, OthersStay, StepsTo, Known, Shaped
  <2>Found. Found'
        BY <1>s, <1>1, <1>b, <1>q, <2>1 DEF RInv, Found, Woken, Begins, OthersStay, StepsTo,
               Known, Shaped, Quiet
  <2>  QED
        BY <2>rest, <2>Found
<1>  QED
      BY <1>rest, <1>Restarts, <1>OneWalk, <1>Wakes, <1>2 DEF RInv

\* Sync is paused.
LEMMA PauseKeeps == ASSUME IInv, RInv, Pause PROVE RInv'
<1>1. /\ paused' = TRUE
      /\ \A e \in Engine : off'[e] = IF e \in Rostered /\ phase[e] = "on" THEN TRUE ELSE off[e]
      /\ UNCHANGED <<setting, addr, saves, manager, roster, restart, leaving, task, phase,
                     addrOf, event, excused, hasty, purged>>
      BY DEF Pause, Change, IInv, TypeOK, settingVars, engineVars, eventVars, histVars
<1>s. Shaped /\ None \notin Engine \cup Task \cup Binding
      BY ShapesHold, ManagerAssumption
<1>rest. /\ Apart' /\ Restarts' /\ Held' /\ HeldApart' /\ Attended' /\ Told' /\ Settings'
         /\ Served' /\ OneWalk' /\ Wakes'
      BY <1>s, <1>1 DEF RInv, Apart, Restarts, Held, HeldApart, Attended, Told, Settings,
                        Served, OneWalk, Wakes, Waiting, Walking, Ready, Wanted, Woken,
                        Shaped
<1>Off. Off'
      BY <1>s, <1>1 DEF RInv, Off, Shaped, Rostered
<1>2. ASSUME ~hasty'
      PROVE  /\ Knows' /\ Covers' /\ Spares' /\ Renews' /\ Found' /\ Followed'
             /\ EventsKept' /\ PurgedIfRemoved'
  <2>1. /\ ~hasty' /\ ~hasty /\ Knows /\ Covers /\ Spares /\ Renews /\ Found /\ Followed
        /\ EventsKept /\ PurgedIfRemoved
        BY <1>s, <1>1, <1>2 DEF RInv
  <2>rest. /\ Knows' /\ Covers' /\ Spares' /\ Renews' /\ Found' /\ Followed' /\ EventsKept'
           /\ PurgedIfRemoved'
        BY <1>s, <1>1, <2>1 DEF Knows, Covers, Spares, Renews, Found, Followed, EventsKept,
                                PurgedIfRemoved, Walking, Wanted, Dropping, Waiting, Woken,
                                Provided, Cleared, Shaped
  <2>  QED
        BY <2>rest
<1>  QED
      BY <1>rest, <1>Off, <1>2 DEF RInv

\* Nothing of all that changes.
LEMMA NothingKeeps ==
    ASSUME IInv, RInv,
           UNCHANGED <<setting, addr, paused, roster, restart, task, phase, addrOf, off,
                       event, excused, hasty, purged>>,
           (manager' = "up") <=> (manager = "up"),
           manager = "up" => saves' = saves \/ saves' > 0
    PROVE  RInv'
<1>1. /\ UNCHANGED <<setting, addr, paused, roster, restart, task, phase, addrOf, off,
                     event, excused, hasty, purged>>
      /\ (manager' = "up") <=> (manager = "up")
      /\ manager = "up" => saves' = saves \/ saves' # 0
      BY DEF IInv, TypeOK, settingVars, engineVars, eventVars, histVars
<1>s. Shaped /\ None \notin Engine \cup Task \cup Binding
      BY ShapesHold, ManagerAssumption
<1>rest. /\ Apart' /\ Restarts' /\ Held' /\ HeldApart' /\ Attended' /\ Off' /\ Told'
         /\ Settings' /\ Served' /\ OneWalk' /\ Wakes'
      BY <1>s, <1>1 DEF RInv, Apart, Restarts, Held, HeldApart, Attended, Off, Told,
                        Settings, Served, OneWalk, Wakes, Waiting, Walking, Ready, Wanted,
                        Woken, Shaped
<1>2. ASSUME ~hasty'
      PROVE  /\ Knows' /\ Covers' /\ Spares' /\ Renews' /\ Found' /\ Followed'
             /\ EventsKept' /\ PurgedIfRemoved'
  <2>1. /\ ~hasty' /\ ~hasty /\ Knows /\ Covers /\ Spares /\ Renews /\ Found /\ Followed
        /\ EventsKept /\ PurgedIfRemoved
        BY <1>s, <1>1, <1>2 DEF RInv
  <2>rest. /\ Knows' /\ Covers' /\ Spares' /\ Renews' /\ Found' /\ Followed' /\ EventsKept'
           /\ PurgedIfRemoved'
        BY <1>s, <1>1, <2>1 DEF Knows, Covers, Spares, Renews, Found, Followed, EventsKept,
                                PurgedIfRemoved, Walking, Wanted, Dropping, Waiting, Woken,
                                Provided, Cleared, Shaped
  <2>  QED
        BY <2>rest
<1>  QED
      BY <1>rest, <1>2 DEF RInv

\* A binding is switched off.
LEMMA SwitchOffKeeps == ASSUME IInv, RInv, NEW b \in Binding, SwitchOff(b) PROVE RInv'
<1>1. /\ Turn /\ setting[b] = "on" /\ setting'[b] = "off"
      /\ \A c \in Binding : c # b => setting'[c] = setting[c]
      /\ saves' = saves + 1 /\ saves' # 0
      /\ excused' = excused \cup {v \in Event : event[v].state = "waiting" /\ event[v].binding \in {b}}
      /\ UNCHANGED <<addr, manager, paused, roster, restart, leaving, task, phase, addrOf,
                     off, event, hasty, purged>>
      BY DEF SwitchOff, Edit, Change, Excuse, IInv, TypeOK, settingVars, engineVars,
             eventVars, histVars
<1>s. Shaped /\ None \notin Engine \cup Task \cup Binding
      BY ShapesHold, ManagerAssumption
<1>q. Quiet
      BY <1>1, TurnIsQuiet
<1>rest. /\ Apart' /\ Restarts' /\ Held' /\ HeldApart' /\ Attended' /\ Off' /\ Told'
         /\ Settings' /\ Served'
      BY <1>s, <1>1, <1>q DEF RInv, Apart, Restarts, Held, HeldApart, Attended, Off, Told,
                              Settings, Served, Waiting, Walking, Shaped
<1>OneWalk. OneWalk'
      BY <1>s, <1>1, <1>q DEF RInv, OneWalk, Ready, Shaped, Quiet
<1>Wakes. Wakes'
      BY <1>s, <1>1, <1>q DEF RInv, Wakes, Ready, Wanted, Woken, Shaped, Quiet
<1>2. ASSUME ~hasty'
      PROVE  /\ Knows' /\ Covers' /\ Spares' /\ Renews' /\ Found' /\ Followed'
             /\ EventsKept' /\ PurgedIfRemoved'
  <2>1. /\ ~hasty' /\ ~hasty /\ Knows /\ Covers /\ Spares /\ Renews /\ Found /\ Followed
        /\ EventsKept /\ PurgedIfRemoved
        BY <1>s, <1>1, <1>q, <1>2 DEF RInv
  <2>rest. /\ Knows' /\ Covers' /\ Spares' /\ Renews' /\ Followed' /\ EventsKept'
           /\ PurgedIfRemoved'
        BY <1>s, <1>1, <1>q, <2>1 DEF Knows, Covers, Spares, Renews, Followed, EventsKept,
                                      PurgedIfRemoved, Walking, Wanted, Dropping, Waiting,
                                      Provided, Cleared, Shaped
  <2>Found. Found'
        BY <1>s, <1>1, <1>q, <2>1 DEF RInv, Found, Woken, Shaped, Quiet
  <2>  QED
        BY <2>rest, <2>Found
<1>  QED
      BY <1>rest, <1>OneWalk, <1>Wakes, <1>2 DEF RInv

\* A binding is switched on.
LEMMA SwitchOnKeeps == ASSUME IInv, RInv, NEW b \in Binding, SwitchOn(b) PROVE RInv'
<1>1. /\ Turn /\ setting[b] = "off" /\ setting'[b] = "on"
      /\ \A c \in Binding : c # b => setting'[c] = setting[c]
      /\ saves' = saves + 1 /\ saves' # 0
      /\ Late
      /\ UNCHANGED <<addr, manager, paused, roster, restart, leaving, task, phase, addrOf,
                     off, event, excused, purged>>
      BY DEF SwitchOn, Edit, Change, IInv, TypeOK, settingVars, engineVars, eventVars,
             histVars
<1>s. Shaped /\ None \notin Engine \cup Task \cup Binding
      BY ShapesHold, ManagerAssumption
<1>q. Quiet
      BY <1>1, TurnIsQuiet
<1>h. (hasty => hasty') /\ (~hasty' => \A t \in Task : task[t].pc = "idle")
      BY <1>1, LateNamed
<1>rest. /\ Apart' /\ Restarts' /\ Held' /\ HeldApart' /\ Attended' /\ Off' /\ Told'
         /\ Settings' /\ Served'
      BY <1>s, <1>1, <1>q, <1>h DEF RInv, Apart, Restarts, Held, HeldApart, Attended, Off,
                                    Told, Settings, Served, Waiting, Walking, Shaped
<1>OneWalk. OneWalk'
      BY <1>s, <1>1, <1>q, <1>h DEF RInv, OneWalk, Ready, Shaped, Quiet
<1>Wakes. Wakes'
      BY <1>s, <1>1, <1>q, <1>h DEF RInv, Wakes, Ready, Wanted, Woken, Shaped, Quiet
<1>2. ASSUME ~hasty'
      PROVE  /\ Knows' /\ Covers' /\ Spares' /\ Renews' /\ Found' /\ Followed'
             /\ EventsKept' /\ PurgedIfRemoved'
  <2>1. /\ ~hasty' /\ ~hasty /\ Knows /\ Covers /\ Spares /\ Renews /\ Found /\ Followed
        /\ EventsKept /\ PurgedIfRemoved
        BY <1>s, <1>1, <1>q, <1>h, <1>2 DEF RInv
  <2>rest. Knows' /\ Covers' /\ Spares' /\ Renews' /\ Followed' /\ EventsKept'
        BY <1>s, <1>1, <1>q, <1>h, <2>1 DEF Knows, Covers, Spares, Renews, Followed,
               EventsKept, Walking, Wanted, Dropping, Waiting, Provided, Cleared, Shaped
  <2>Found. Found'
        BY <1>s, <1>1, <1>q, <1>h, <2>1 DEF RInv, Found, Woken, Shaped, Quiet
  <2>PurgedIfRemoved. PurgedIfRemoved'
        BY <1>s, <1>1, <1>q, <1>h, <2>1 DEF PurgedIfRemoved, Shaped
  <2>  QED
        BY <2>rest, <2>Found, <2>PurgedIfRemoved
<1>  QED
      BY <1>rest, <1>OneWalk, <1>Wakes, <1>2 DEF RInv

\* A binding is added.
LEMMA AddKeeps == ASSUME IInv, RInv, NEW b \in Binding, Add(b) PROVE RInv'
<1>1. /\ Turn /\ setting[b] = "absent" /\ setting'[b] = "on"
      /\ \A c \in Binding : c # b => setting'[c] = setting[c]
      /\ saves' = saves + 1 /\ saves' # 0
      /\ Late
      /\ UNCHANGED <<addr, manager, paused, roster, restart, leaving, task, phase, addrOf,
                     off, event, excused, purged>>
      BY DEF Add, Edit, Change, IInv, TypeOK, settingVars, engineVars, eventVars, histVars
<1>s. Shaped /\ None \notin Engine \cup Task \cup Binding
      BY ShapesHold, ManagerAssumption
<1>q. Quiet
      BY <1>1, TurnIsQuiet
<1>h. (hasty => hasty') /\ (~hasty' => \A t \in Task : task[t].pc = "idle")
      BY <1>1, LateNamed
<1>rest. /\ Apart' /\ Restarts' /\ Held' /\ HeldApart' /\ Attended' /\ Off' /\ Told'
         /\ Settings' /\ Served'
      BY <1>s, <1>1, <1>q, <1>h DEF RInv, Apart, Restarts, Held, HeldApart, Attended, Off,
                                    Told, Settings, Served, Waiting, Walking, Shaped
<1>OneWalk. OneWalk'
      BY <1>s, <1>1, <1>q, <1>h DEF RInv, OneWalk, Ready, Shaped, Quiet
<1>Wakes. Wakes'
      BY <1>s, <1>1, <1>q, <1>h DEF RInv, Wakes, Ready, Wanted, Woken, Shaped, Quiet
<1>2. ASSUME ~hasty'
      PROVE  /\ Knows' /\ Covers' /\ Spares' /\ Renews' /\ Found' /\ Followed'
             /\ EventsKept' /\ PurgedIfRemoved'
  <2>1. /\ ~hasty' /\ ~hasty /\ Knows /\ Covers /\ Spares /\ Renews /\ Found /\ Followed
        /\ EventsKept /\ PurgedIfRemoved
        BY <1>s, <1>1, <1>q, <1>h, <1>2 DEF RInv
  <2>rest. Knows' /\ Covers' /\ Spares' /\ Renews' /\ Followed' /\ EventsKept'
        BY <1>s, <1>1, <1>q, <1>h, <2>1 DEF Knows, Covers, Spares, Renews, Followed,
               EventsKept, Walking, Wanted, Dropping, Waiting, Provided, Cleared, Shaped
  <2>Found. Found'
        BY <1>s, <1>1, <1>q, <1>h, <2>1 DEF RInv, Found, Woken, Shaped, Quiet
  <2>PurgedIfRemoved. PurgedIfRemoved'
        BY <1>s, <1>1, <1>q, <1>h, <2>1 DEF PurgedIfRemoved, Shaped
  <2>  QED
        BY <2>rest, <2>Found, <2>PurgedIfRemoved
<1>  QED
      BY <1>rest, <1>OneWalk, <1>Wakes, <1>2 DEF RInv

\* The server gets another address.
LEMMA EditServerKeeps == ASSUME IInv, RInv, EditServer PROVE RInv'
<1>1. /\ Turn /\ addr # 0 /\ addr' = addr + 1 /\ addr' # 0 /\ addr \in Nat
      /\ saves' = saves + 1 /\ saves' # 0
      /\ UNCHANGED <<setting, manager, paused, roster, restart, leaving, task, phase,
                     addrOf, off, event, excused, hasty, purged>>
      BY DEF EditServer, Edit, Change, IInv, TypeOK, settingVars, engineVars, eventVars,
             histVars
<1>s. Shaped /\ None \notin Engine \cup Task \cup Binding
      BY ShapesHold, ManagerAssumption
<1>q. Quiet
      BY <1>1, TurnIsQuiet
<1>rest. /\ Apart' /\ Restarts' /\ Held' /\ HeldApart' /\ Attended' /\ Off' /\ Told'
         /\ Settings' /\ Served'
      BY <1>s, <1>1, <1>q DEF RInv, Apart, Restarts, Held, HeldApart, Attended, Off, Told,
                              Settings, Served, Waiting, Walking, Shaped
<1>OneWalk. OneWalk'
      BY <1>s, <1>1, <1>q DEF RInv, OneWalk, Ready, Shaped, Quiet
<1>Wakes. Wakes'
      BY <1>s, <1>1, <1>q DEF RInv, Wakes, Ready, Wanted, Woken, Shaped, Quiet
<1>2. ASSUME ~hasty'
      PROVE  /\ Knows' /\ Covers' /\ Spares' /\ Renews' /\ Found' /\ Followed'
             /\ EventsKept' /\ PurgedIfRemoved'
  <2>1. /\ ~hasty' /\ ~hasty /\ Knows /\ Covers /\ Spares /\ Renews /\ Found /\ Followed
        /\ EventsKept /\ PurgedIfRemoved
        BY <1>s, <1>1, <1>q, <1>2 DEF RInv
  <2>rest. /\ Knows' /\ Covers' /\ Spares' /\ Renews' /\ Followed' /\ EventsKept'
           /\ PurgedIfRemoved'
        BY <1>s, <1>1, <1>q, <2>1 DEF Knows, Covers, Spares, Renews, Followed, EventsKept,
                                      PurgedIfRemoved, Walking, Wanted, Dropping, Waiting,
                                      Provided, Cleared, Shaped
  <2>Found. Found'
        BY <1>s, <1>1, <1>q, <2>1 DEF RInv, Found, Woken, Shaped, Quiet
  <2>  QED
        BY <2>rest, <2>Found
<1>  QED
      BY <1>rest, <1>OneWalk, <1>Wakes, <1>2 DEF RInv

\* A binding is removed.
LEMMA RemoveKeeps == ASSUME IInv, RInv, NEW b \in Binding, Remove(b) PROVE RInv'
<1>1. /\ Turn
      /\ setting[b] \in {"on", "off"} /\ setting'[b] = "removed"
      /\ (\A c \in Binding : c # b => setting'[c] = setting[c]) /\ addr' = addr
      /\ Haunt({b})
      /\ saves' = saves + 1 /\ saves' # 0
      /\ excused' = excused \cup {v \in Event : event[v].state = "waiting" /\ event[v].binding \in {b}}
      /\ UNCHANGED <<manager, paused, roster, restart, leaving, phase, addrOf, off, event,
                     purged>>
      BY DEF Remove, Edit, Change, Excuse, Known, IInv, TypeOK, settingVars, engineVars,
             eventVars, histVars
<1>s. Shaped /\ None \notin Engine \cup Task \cup Binding
      BY ShapesHold, ManagerAssumption
<1>q. Quiet
      BY <1>1, TurnIsQuiet
<1>h. Haunts({b})
      BY <1>1, HauntNamed DEF IInv
<1>rest. /\ Apart' /\ Restarts' /\ Held' /\ HeldApart' /\ Attended' /\ Off' /\ Told'
         /\ Settings' /\ Served'
      BY <1>s, <1>1, <1>q, <1>h DEF RInv, Apart, Restarts, Held, HeldApart, Attended, Off,
                                    Told, Settings, Served, Waiting, Walking, Haunts, Shaped
<1>OneWalk. OneWalk'
      BY <1>s, <1>1, <1>q, <1>h DEF RInv, OneWalk, Ready, Haunts, Shaped, Quiet
<1>Wakes. Wakes'
      BY <1>s, <1>1, <1>q, <1>h DEF RInv, Wakes, Ready, Wanted, Woken, Haunts, Shaped, Quiet
<1>2. ASSUME ~hasty'
      PROVE  /\ Knows' /\ Covers' /\ Spares' /\ Renews' /\ Found' /\ Followed'
             /\ EventsKept' /\ PurgedIfRemoved'
  <2>1. /\ ~hasty' /\ ~hasty /\ Knows /\ Covers /\ Spares /\ Renews /\ Found /\ Followed
        /\ EventsKept /\ PurgedIfRemoved
        BY <1>s, <1>1, <1>q, <1>h, <1>2 DEF RInv, Haunts
  <2>rest. /\ Knows' /\ Covers' /\ Spares' /\ Renews' /\ Followed' /\ EventsKept'
           /\ PurgedIfRemoved'
        BY <1>s, <1>1, <1>q, <1>h, <2>1 DEF Knows, Covers, Spares, Renews, Followed,
               EventsKept, PurgedIfRemoved, Walking, Wanted, Dropping, Waiting, Provided,
               Cleared, Haunts, Shaped
  <2>Found. Found'
        BY <1>s, <1>1, <1>q, <1>h, <2>1 DEF RInv, Found, Woken, Haunts, Shaped, Quiet
  <2>  QED
        BY <2>rest, <2>Found
<1>  QED
      BY <1>rest, <1>OneWalk, <1>Wakes, <1>2 DEF RInv

\* The server is removed, and its bindings are switched off.
LEMMA RemoveServerKeeps == ASSUME IInv, RInv, RemoveServer PROVE RInv'
<1>1. /\ Turn
      /\ addr' = 0
      /\ \A b \in Binding : setting'[b] = IF setting[b] = "on" THEN "off" ELSE setting[b]
      /\ Haunt(Binding)
      /\ saves' = saves + 1 /\ saves' # 0
      /\ excused' = excused \cup {v \in Event : event[v].state = "waiting" /\ event[v].binding \in Binding}
      /\ UNCHANGED <<manager, paused, roster, restart, leaving, phase, addrOf, off, event,
                     purged>>
      BY DEF RemoveServer, Edit, Change, Excuse, Known, IInv, TypeOK, settingVars,
             engineVars, eventVars, histVars
<1>s. Shaped /\ None \notin Engine \cup Task \cup Binding
      BY ShapesHold, ManagerAssumption
<1>q. Quiet
      BY <1>1, TurnIsQuiet
<1>h. Haunts(Binding)
      BY <1>1, HauntNamed DEF IInv
<1>rest. /\ Apart' /\ Restarts' /\ Held' /\ HeldApart' /\ Attended' /\ Off' /\ Told'
         /\ Settings' /\ Served'
      BY <1>s, <1>1, <1>q, <1>h DEF RInv, Apart, Restarts, Held, HeldApart, Attended, Off,
                                    Told, Settings, Served, Waiting, Walking, Haunts, Shaped
<1>OneWalk. OneWalk'
      BY <1>s, <1>1, <1>q, <1>h DEF RInv, OneWalk, Ready, Haunts, Shaped, Quiet
<1>Wakes. Wakes'
      BY <1>s, <1>1, <1>q, <1>h DEF RInv, Wakes, Ready, Wanted, Woken, Haunts, Shaped, Quiet
<1>2. ASSUME ~hasty'
      PROVE  /\ Knows' /\ Covers' /\ Spares' /\ Renews' /\ Found' /\ Followed'
             /\ EventsKept' /\ PurgedIfRemoved'
  <2>1. /\ ~hasty' /\ ~hasty /\ Knows /\ Covers /\ Spares /\ Renews /\ Found /\ Followed
        /\ EventsKept /\ PurgedIfRemoved
        BY <1>s, <1>1, <1>q, <1>h, <1>2 DEF RInv, Haunts
  <2>rest. /\ Knows' /\ Covers' /\ Spares' /\ Renews' /\ Followed' /\ EventsKept'
           /\ PurgedIfRemoved'
        BY <1>s, <1>1, <1>q, <1>h, <2>1 DEF Knows, Covers, Spares, Renews, Followed,
               EventsKept, PurgedIfRemoved, Walking, Wanted, Dropping, Waiting, Provided,
               Cleared, Haunts, Shaped
  <2>Found. Found'
        BY <1>s, <1>1, <1>q, <1>h, <2>1 DEF RInv, Found, Woken, Haunts, Shaped, Quiet
  <2>  QED
        BY <2>rest, <2>Found
<1>  QED
      BY <1>rest, <1>OneWalk, <1>Wakes, <1>2 DEF RInv

\* A vault event comes.
LEMMA DispatchKeeps ==
    ASSUME IInv, RInv, NEW v \in Event, NEW b \in Binding, Dispatch(v, b)
    PROVE  RInv'
<1>1. /\ Turn /\ manager = "up" /\ setting[b] = "on" /\ roster[b] # None
      /\ \/ restart[b] # None /\ event'[v].state = "waiting"
            /\ event'[v].binding = b /\ event'[v].wait = restart[b]
         \/ restart[b] = None /\ event'[v].state = IF phase[roster[b]] = "on"
            THEN "taken" ELSE "lost"
      /\ \A w \in Event : w # v => event'[w] = event[w]
      /\ excused' = IF addr = 0 THEN excused \cup {v} ELSE excused
      /\ UNCHANGED <<setting, addr, saves, manager, paused, roster, restart, leaving, task,
                     phase, addrOf, off, hasty, purged>>
      BY DEF Dispatch, Reached, Dispatched, IInv, TypeOK, settingVars, engineVars,
             eventVars, histVars
<1>s. Shaped /\ None \notin Engine \cup Task \cup Binding
      BY ShapesHold, ManagerAssumption
<1>q. Quiet
      BY <1>1, TurnIsQuiet
<1>rest. /\ Apart' /\ Restarts' /\ Held' /\ HeldApart' /\ Attended' /\ Off' /\ Told'
         /\ Settings' /\ Served'
      BY <1>s, <1>1, <1>q DEF RInv, Apart, Restarts, Held, HeldApart, Attended, Off, Told,
                              Settings, Served, Waiting, Walking, Shaped
<1>OneWalk. OneWalk'
      BY <1>s, <1>1, <1>q DEF RInv, OneWalk, Ready, Shaped, Quiet
<1>Wakes. Wakes'
      BY <1>s, <1>1, <1>q DEF RInv, Wakes, Ready, Wanted, Woken, Shaped, Quiet
<1>2. ASSUME ~hasty'
      PROVE  /\ Knows' /\ Covers' /\ Spares' /\ Renews' /\ Found' /\ Followed'
             /\ EventsKept' /\ PurgedIfRemoved'
  <2>1. /\ ~hasty' /\ ~hasty /\ Knows /\ Covers /\ Spares /\ Renews /\ Found /\ Followed
        /\ EventsKept /\ PurgedIfRemoved
        BY <1>s, <1>1, <1>q, <1>2 DEF RInv
  <2>rest. Knows' /\ Covers' /\ Spares' /\ Renews' /\ Followed' /\ PurgedIfRemoved'
        BY <1>s, <1>1, <1>q, <2>1 DEF Knows, Covers, Spares, Renews, Followed,
                                      PurgedIfRemoved, Walking, Wanted, Dropping, Waiting,
                                      Provided, Cleared, Shaped
  <2>Found. Found'
        BY <1>s, <1>1, <1>q, <2>1 DEF RInv, Found, Woken, Shaped, Quiet
  <2>EventsKept. EventsKept'
        BY <1>s, <1>1, <1>q, <2>1 DEF RInv, EventsKept, Shaped, Attended, Waiting, Restarts,
                                      Spares, Dropping, Wanted
  <2>  QED
        BY <2>rest, <2>Found, <2>EventsKept
<1>  QED
      BY <1>rest, <1>OneWalk, <1>Wakes, <1>2 DEF RInv

\* An event that waited for a restart is delivered.
LEMMA DeliverKeeps == ASSUME IInv, RInv, NEW v \in Event, Deliver(v) PROVE RInv'
<1>1. /\ Woken(v)
      /\ event'[v].state =
            IF roster[event[v].binding] # None /\ phase[roster[event[v].binding]] = "on"
            THEN "taken" ELSE "lost"
      /\ \A w \in Event : w # v => event'[w] = event[w]
      /\ UNCHANGED <<setting, addr, saves, manager, paused, roster, restart, leaving, task,
                     phase, addrOf, off, excused, hasty, purged>>
      BY DEF Deliver, Reached, Dispatched, IInv, TypeOK, settingVars, engineVars, eventVars,
             histVars
<1>s. Shaped /\ None \notin Engine \cup Task \cup Binding
      BY ShapesHold, ManagerAssumption
<1>rest. /\ Apart' /\ Restarts' /\ Held' /\ HeldApart' /\ Attended' /\ Off' /\ Told'
         /\ Settings' /\ Served' /\ OneWalk' /\ Wakes'
      BY <1>s, <1>1 DEF RInv, Apart, Restarts, Held, HeldApart, Attended, Off, Told,
                        Settings, Served, OneWalk, Wakes, Waiting, Walking, Ready, Wanted,
                        Woken, Shaped
<1>2. ASSUME ~hasty'
      PROVE  /\ Knows' /\ Covers' /\ Spares' /\ Renews' /\ Found' /\ Followed'
             /\ EventsKept' /\ PurgedIfRemoved'
  <2>1. /\ ~hasty' /\ ~hasty /\ Knows /\ Covers /\ Spares /\ Renews /\ Found /\ Followed
        /\ EventsKept /\ PurgedIfRemoved
        BY <1>s, <1>1, <1>2 DEF RInv
  <2>rest. /\ Knows' /\ Covers' /\ Spares' /\ Renews' /\ Found' /\ Followed'
           /\ PurgedIfRemoved'
        BY <1>s, <1>1, <2>1 DEF Knows, Covers, Spares, Renews, Found, Followed,
                                PurgedIfRemoved, Walking, Wanted, Dropping, Waiting, Woken,
                                Provided, Cleared, Shaped
  <2>EventsKept. EventsKept'
        BY <1>s, <1>1, <2>1 DEF RInv, EventsKept, Shaped, Found
  <2>  QED
        BY <2>rest, <2>EventsKept
<1>  QED
      BY <1>rest, <1>2 DEF RInv

\* An engine has stopped.
LEMMA PhaseEndKeeps == ASSUME IInv, RInv, NEW e \in Engine, LocalPhaseEnds(e) PROVE RInv'
<1>1. /\ Turn /\ phase[e] = "stopping" /\ phase'[e] = "stopped"
      /\ \A d \in Engine : d # e => phase'[d] = phase[d]
      /\ UNCHANGED <<setting, addr, saves, manager, paused, roster, restart, leaving, task,
                     addrOf, off, event, excused, hasty, purged>>
      BY DEF LocalPhaseEnds, IInv, TypeOK, settingVars, engineVars, eventVars, histVars
<1>s. Shaped /\ None \notin Engine \cup Task \cup Binding
      BY ShapesHold, ManagerAssumption
<1>q. Quiet
      BY <1>1, TurnIsQuiet
<1>rest. /\ Apart' /\ Restarts' /\ Held' /\ HeldApart' /\ Attended' /\ Off' /\ Told'
         /\ Settings' /\ Served'
      BY <1>s, <1>1, <1>q DEF RInv, Apart, Restarts, Held, HeldApart, Attended, Off, Told,
                              Settings, Served, Waiting, Walking, Shaped
<1>OneWalk. OneWalk'
      BY <1>s, <1>1, <1>q DEF RInv, OneWalk, Ready, Shaped, Quiet, HeldApart
<1>Wakes. Wakes'
      BY <1>s, <1>1, <1>q DEF RInv, Wakes, Ready, Wanted, Woken, Shaped, Quiet
<1>2. ASSUME ~hasty'
      PROVE  /\ Knows' /\ Covers' /\ Spares' /\ Renews' /\ Found' /\ Followed'
             /\ EventsKept' /\ PurgedIfRemoved'
  <2>1. /\ ~hasty' /\ ~hasty /\ Knows /\ Covers /\ Spares /\ Renews /\ Found /\ Followed
        /\ EventsKept /\ PurgedIfRemoved
        BY <1>s, <1>1, <1>q, <1>2 DEF RInv
  <2>rest. /\ Knows' /\ Covers' /\ Spares' /\ Renews' /\ Followed' /\ EventsKept'
           /\ PurgedIfRemoved'
        BY <1>s, <1>1, <1>q, <2>1 DEF Knows, Covers, Spares, Renews, Followed, EventsKept,
                                      PurgedIfRemoved, Walking, Wanted, Dropping, Waiting,
                                      Provided, Cleared, Shaped
  <2>Found. Found'
        BY <1>s, <1>1, <1>q, <2>1 DEF RInv, Found, Woken, Shaped, Quiet
  <2>  QED
        BY <2>rest, <2>Found
<1>  QED
      BY <1>rest, <1>OneWalk, <1>Wakes, <1>2 DEF RInv

\* The plugin unloads.
LEMMA UnloadKeeps == ASSUME IInv, RInv, Unload PROVE RInv'
<1>1. /\ Turn /\ manager' = "stopping" /\ Stopping(Rostered)
      /\ \A b \in Binding : roster'[b] = None
      /\ excused' = excused \cup {v \in Event : event[v].state = "waiting" /\ event[v].binding \in Binding}
      /\ UNCHANGED <<setting, addr, saves, paused, restart, task, addrOf, off, event, hasty,
                     purged>>
      BY DEF Unload, Excuse, IInv, TypeOK, settingVars, engineVars, eventVars, histVars
<1>s. Shaped /\ None \notin Engine \cup Task \cup Binding
      BY ShapesHold, ManagerAssumption
<1>q. Quiet
      BY <1>1, TurnIsQuiet
<1>e. \A e \in Engine : phase[e] # "on" => phase'[e] = phase[e]
      BY <1>1, StopNamed DEF IInv
<1>rest. /\ Apart' /\ Restarts' /\ Held' /\ HeldApart' /\ Attended' /\ Off' /\ Told'
         /\ Settings' /\ Served'
      BY <1>s, <1>1, <1>q, <1>e DEF RInv, Apart, Restarts, Held, HeldApart, Attended, Off,
                                    Told, Settings, Served, Waiting, Walking, Shaped
<1>OneWalk. OneWalk'
      BY <1>s, <1>1, <1>q, <1>e DEF RInv, OneWalk, Ready, Shaped, Quiet, Held, Waiting
<1>Wakes. Wakes'
      BY <1>s, <1>1, <1>q, <1>e DEF RInv, Wakes, Ready, Wanted, Woken, Shaped, Quiet
<1>2. ASSUME ~hasty'
      PROVE  /\ Knows' /\ Covers' /\ Spares' /\ Renews' /\ Found' /\ Followed'
             /\ EventsKept' /\ PurgedIfRemoved'
  <2>1. /\ ~hasty' /\ ~hasty /\ Knows /\ Covers /\ Spares /\ Renews /\ Found /\ Followed
        /\ EventsKept /\ PurgedIfRemoved
        BY <1>s, <1>1, <1>q, <1>e, <1>2 DEF RInv
  <2>rest. /\ Knows' /\ Covers' /\ Spares' /\ Renews' /\ Followed' /\ EventsKept'
           /\ PurgedIfRemoved'
        BY <1>s, <1>1, <1>q, <1>e, <2>1 DEF Knows, Covers, Spares, Renews, Followed,
               EventsKept, PurgedIfRemoved, Walking, Wanted, Dropping, Waiting, Provided,
               Cleared, Shaped
  <2>Found. Found'
        BY <1>s, <1>1, <1>q, <1>e, <2>1 DEF RInv, Found, Woken, Shaped, Quiet
  <2>  QED
        BY <2>rest, <2>Found
<1>  QED
      BY <1>rest, <1>OneWalk, <1>Wakes, <1>2 DEF RInv

-----------------------------------------------------------------------------
\* The first state.
LEMMA RosterInit == Init => RInv
<1>  SUFFICES ASSUME Init PROVE RInv
     OBVIOUS
<1>1. /\ \A b \in Binding : roster[b] = None /\ restart[b] = None
      /\ \A t \in Task : /\ task[t].pc = "idle" /\ task[t].at = None
                         /\ task[t].todo = {} /\ task[t].ghost = {}
      /\ \A v \in Event : event[v].state = "none"
      /\ purged = {} /\ paused = FALSE /\ saves # 0
      BY DEF Init, Idle
<1>2. /\ Apart /\ Restarts /\ Held /\ HeldApart /\ Attended /\ Off /\ Told /\ Settings
      /\ Served /\ OneWalk /\ Wakes
      BY <1>1, ManagerAssumption DEF Apart, Restarts, Held, HeldApart, Attended, Off, Told,
         Settings, Served, OneWalk, Wakes, Waiting, Walking, Ready, Woken
<1>3. /\ Knows /\ Covers /\ Spares /\ Renews /\ Found /\ Followed /\ EventsKept
      /\ PurgedIfRemoved
      BY <1>1 DEF Knows, Covers, Spares, Renews, Found, Followed, EventsKept,
                  PurgedIfRemoved,
         Walking, Dropping, Woken
<1>   QED
      BY <1>2, <1>3 DEF RInv

\* A refresh goes on.
LEMMA RefreshKeeps == ASSUME IInv, RInv, NEW t \in Task, GoOn(t) PROVE RInv'
<1>1. ASSUME NEW b \in Binding,
             Pass(t, b) \/ SpawnNew(t, b) \/ BeginRestart(t, b) \/ BeginDrop(t, b)
      PROVE  RInv'
      BY <1>1, PassKeeps, SpawnNewKeeps, BeginRestartKeeps, BeginDropKeeps
<1>2. CASE EndRestart(t)
  <2>1. CASE roster[task[t].at] # task[t].engine
        BY <1>2, <2>1, OvertakenKeeps
  <2>2. CASE roster[task[t].at] = task[t].engine /\ Wanted(task[t].at)
        BY <1>2, <2>2, ReplacedKeeps
  <2>3. CASE roster[task[t].at] = task[t].engine /\ ~Wanted(task[t].at)
        BY <1>2, <2>3, SwitchedOffKeeps
  <2>   QED
        BY <2>1, <2>2, <2>3
<1>3. CASE EndLoop(t) \/ EndDrop(t) \/ Erased(t) \/ End(t)
      BY <1>3, EndLoopKeeps, EndDropKeeps, ErasedKeeps, EndKeeps
<1>   QED
      BY <1>1, <1>2, <1>3 DEF GoOn

\* Every step, and none.
LEMMA NextKeeps == ASSUME IInv, RInv, [Next]_vars PROVE RInv'
<1>  USE DEF settingVars, engineVars, eventVars, histVars
<1>1. ASSUME NEW t \in Task, GoOn(t) PROVE RInv'
      BY <1>1, RefreshKeeps
<1>2. CASE Saved
  <2>1. CASE manager = "up"
        BY <1>2, <2>1, SavedKeeps
  <2>2. CASE manager # "up"
        BY <1>2, <2>2, NothingKeeps DEF Saved
  <2>   QED
        BY <2>1, <2>2
<1>3. CASE Synced
  <2>1. saves \in Nat
        BY DEF IInv, TypeOK
  <2>   QED
        BY <1>3, <2>1, NothingKeeps DEF Synced
<1>4. CASE User
  <2>1. ASSUME NEW b \in Binding, SwitchOff(b) \/ SwitchOn(b) \/ Remove(b) \/ Add(b)
        PROVE  RInv'
        BY <2>1, SwitchOffKeeps, SwitchOnKeeps, RemoveKeeps, AddKeeps
  <2>   QED
        BY <1>4, <2>1, PauseKeeps, ResumeKeeps, EditServerKeeps, RemoveServerKeeps DEF User
<1>5. ASSUME NEW v \in Event, (\E b \in Binding : Dispatch(v, b)) \/ Deliver(v) PROVE RInv'
      BY <1>5, DispatchKeeps, DeliverKeeps
<1>6. ASSUME NEW e \in Engine, LocalPhaseEnds(e) PROVE RInv'
      BY <1>6, PhaseEndKeeps
<1>7. CASE Unload
      BY <1>7, UnloadKeeps
<1>8. CASE Unloaded
  <2>1. manager # "up" /\ manager' # "up"
        BY <1>8 DEF Unloaded
  <2>   QED
        BY <1>8, <2>1, NothingKeeps DEF Unloaded
<1>9. CASE UNCHANGED vars
      BY <1>9, NothingKeeps DEF vars
<1>   QED
      BY <1>1, <1>2, <1>3, <1>4, <1>5, <1>6, <1>7, <1>8, <1>9 DEF Next

\* RInv holds in every behaviour (IInv, of EngineManagerProofs, beside it).
THEOREM RosterInvariant == Spec => []RInv
<1>1. IInv /\ RInv /\ [Next]_vars => RInv'
      BY NextKeeps
<1>   QED
      BY <1>1, RosterInit, InvariantHolds, PTL DEF Spec

-----------------------------------------------------------------------------
\* Paused, no engine connects; resumed, and nothing under way, none stays
\* behind: then no engine is waited for, so that all are on (Attended), and
\* no refresh is left to tell one that is off (Told).
THEOREM PauseHoldsAlways == Spec => []PauseHolds
<1>1. IInv /\ RInv => PauseHolds
  <2>  SUFFICES ASSUME IInv, RInv PROVE PauseHolds
       OBVIOUS
  <2>s. Shaped
        BY ShapesHold
  <2>1. paused => \A e \in Rostered : phase[e] = "on" => off[e]
        BY DEF RInv, Off, Rostered
  <2>2. Settled /\ ~paused => \A e \in Rostered : ~off[e]
        BY <2>s DEF RInv, Attended, Told, Settled, Running, Rostered, Waiting, Shaped
  <2>   QED
        BY <2>1, <2>2 DEF PauseHolds
<1>   QED
      BY <1>1, RosterInvariant, InvariantHolds, PTL

\* No binding that is still in the settings is erased (refreshFromSettings, known).
THEOREM PurgedIfRemovedAlways == Spec => []PurgedIfRemoved
<1>1. RInv => PurgedIfRemoved
      BY DEF RInv, PurgedIfRemoved
<1>   QED
      BY <1>1, RosterInvariant, PTL

\* No vault event of a binding that stays on is lost (dispatchVaultEvent).
THEOREM EventsKeptAlways == Spec => []EventsKept
<1>1. RInv => EventsKept
      BY DEF RInv, EventsKept
<1>   QED
      BY <1>1, RosterInvariant, PTL

\* Nothing under way, every binding that is on has an engine on the present
\* address, which is on (Provided, Attended), and no other has one (Cleared).
THEOREM RosterFollowsAlways == Spec => []RosterFollowsInTime
<1>1. IInv /\ RInv => RosterFollowsInTime
  <2>  SUFFICES ASSUME IInv, RInv, ~hasty, Settled, NEW b \in Binding
                PROVE  IF setting[b] = "on" /\ addr # 0
                       THEN roster[b] # None /\ phase[roster[b]] = "on" /\ addrOf[roster[b]] = addr
                       ELSE roster[b] = None
       BY DEF RosterFollowsInTime, RosterFollows
  <2>s. Shaped
        BY ShapesHold
  <2>1. /\ \A t \in Task : task[t].pc = "idle"
        /\ manager = "up" /\ saves = 0
        BY DEF Settled, Running
  <2>2. Attended /\ Restarts /\ Followed
        BY DEF RInv
  <2>3. restart[b] = None
        BY <2>1, <2>2, <2>s DEF Restarts, Shaped
  <2>4. CASE Wanted(b)
        BY <2>1, <2>2, <2>3, <2>4, <2>s DEF Followed, Provided, Walking, Attended, Waiting,
               Wanted
  <2>5. CASE ~Wanted(b)
        BY <2>1, <2>2, <2>5 DEF Followed, Cleared, Walking, Dropping, Waiting, Wanted
  <2>   QED
        BY <2>4, <2>5 DEF Wanted
<1>   QED
      BY <1>1, RosterInvariant, InvariantHolds, PTL
=============================================================================
