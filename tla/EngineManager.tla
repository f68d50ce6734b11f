---------------------------- MODULE EngineManager ----------------------------
(***************************************************************************)
(* The roster of sync engines (engine-manager.ts): one engine for every    *)
(* binding switched on in the settings, spawned, restarted and dropped by  *)
(* refreshes that run side by side, each over several awaits, while the    *)
(* user edits the settings, sync is paused and resumed, vault events come  *)
(* and the plugin unloads.                                                 *)
(*                                                                         *)
(* JavaScript runs what an answer wakes to its next await before the next  *)
(* event: a step of the outside world (the user, a write that ends, a      *)
(* vault event) happens only when no refresh can go on (Turn).             *)
(*                                                                         *)
(* Abstractions.                                                           *)
(*  - A refresh under way, not the binding, is what a restart is known by.  *)
(*  - All bindings are on one server; its address and key are a number,    *)
(*    0 once the server is removed.                                        *)
(*  - An engine is on, stopping (its stop() waits for a local phase) or    *)
(*    stopped; that it works, paused or not, is all that is left of it.    *)
(*    start() does not wait for anything: spawn is one step.               *)
(*  - Statuses and their listeners are left out, but for a binding that    *)
(*    has synced, which saves the settings and so begins a refresh.        *)
(***************************************************************************)
EXTENDS Naturals

CONSTANTS
    Binding,
    Bound,          \* the sets of bindings the settings may have at first
    Engine,         \* enough names for the engines alive at once
    Task,           \* bound: the refreshes under way at once
    Event,          \* bound: the vault events
    None,
    MaxSaves,       \* bound: the saves under way when a binding's sync begins one
    MaxChanges      \* bound: changes of the settings, pauses and resumes

ASSUME ManagerAssumption ==
    /\ None \notin Engine \cup Task \cup Binding
    /\ Bound \subseteq SUBSET Binding
    /\ MaxSaves \in Nat /\ MaxChanges \in Nat

VARIABLES
    \* The settings, and what the user does.
    setting,    \* of each binding: see Setting
    addr,       \* the server's address and key
    saves,      \* saveData calls under way, each with a refresh after it
    changes,    \* how many changes there were
    \* The manager.
    manager,    \* up, stopping (the plugin unloads) or down
    paused,
    roster,     \* engines: the engine of each binding
    restart,    \* restarts: the refresh that replaces the binding's engine
    leaving,    \* the engines stop() waits for
    task,       \* the refreshes: see Refresh
    \* The engines.
    phase, addrOf, off,
    \* Vault events.
    event,      \* what becomes of each: see Dispatched
    \* History.
    excused,    \* events whose binding did not stay on with a server, or plugin loaded
    hasty,      \* the settings changed in a way a refresh under way missed
    purged      \* bindings whose local state was erased

settingVars == <<setting, addr, saves, changes>>
engineVars  == <<phase, addrOf, off>>
eventVars   == <<event, excused>>
histVars    == <<hasty, purged>>
vars == <<settingVars, manager, paused, roster, restart, leaving, task, engineVars,
          eventVars, histVars>>

Setting == {"absent", "on", "off", "removed"}
Known == {b \in Binding : setting[b] \in {"on", "off"}}

\* ghost: bindings whose entry in the array this refresh walks has been
\* replaced in the settings, and still says on.
Refresh == [pc : {"idle", "loop", "restarting", "drop", "dropping", "purging"},
            todo : SUBSET Binding, desired : SUBSET Binding, known : SUBSET Binding,
            ghost : SUBSET Binding, addr : Nat, resume : BOOLEAN,
            at : Binding \cup {None}, engine : Engine \cup {None}]
Idle == [pc |-> "idle", todo |-> {}, desired |-> {}, known |-> {}, ghost |-> {},
         addr |-> 0, resume |-> FALSE, at |-> None, engine |-> None]

Dispatched == [state : {"none", "waiting", "taken", "lost"},
               binding : Binding \cup {None}, wait : Task \cup {None}]

Running == {t \in Task : task[t].pc # "idle"}
Rostered == {roster[b] : b \in Binding} \ {None}

Init ==
    /\ \E S \in Bound : setting = [b \in Binding |-> IF b \in S THEN "on" ELSE "absent"]
    /\ addr = 1 /\ saves = 1 /\ changes = 0
    /\ manager = "up" /\ paused = FALSE
    /\ roster = [b \in Binding |-> None]
    /\ restart = [b \in Binding |-> None]
    /\ leaving = {}
    /\ task = [t \in Task |-> Idle]
    /\ phase = [e \in Engine |-> "stopped"]
    /\ addrOf = [e \in Engine |-> 0]
    /\ off = [e \in Engine |-> FALSE]
    /\ event = [v \in Event |-> [state |-> "none", binding |-> None, wait |-> None]]
    /\ excused = {} /\ hasty = FALSE /\ purged = {}

-----------------------------------------------------------------------------
\* A refresh that waits for nothing any more.
CanGoOn(t) ==
    \/ task[t].pc \in {"loop", "drop"}
    \/ /\ task[t].pc \in {"restarting", "dropping"}
       /\ \A e \in Engine : e = task[t].engine => phase[e] = "stopped"

Woken(v) ==
    event[v].state = "waiting" /\ restart[event[v].binding] # event[v].wait

AllLeft == \A e \in leaving : phase[e] = "stopped"

Turn ==
    /\ \A t \in Task : ~CanGoOn(t)
    /\ \A v \in Event : ~Woken(v)
    /\ ~(manager = "stopping" /\ AllLeft)

\* SyncEngine.stop: at once, but for a local phase under way.
Stopping(S) ==
    \E busy \in SUBSET {e \in S : phase[e] = "on"} :
       phase' = [e \in Engine |-> IF e \in busy THEN "stopping"
                                  ELSE IF e \in S /\ phase[e] = "on" THEN "stopped"
                                  ELSE phase[e]]

Unused == {e \in Engine : /\ phase[e] = "stopped" /\ e \notin Rostered \cup leaving
                          /\ \A t \in Task : task[t].engine # e}

\* Mutant: the pause is forgotten.
SpawnConnected(b, a) ==
    \E e \in Unused :
       /\ roster' = [roster EXCEPT ![b] = e]
       /\ phase' = [phase EXCEPT ![e] = "on"]
       /\ addrOf' = [addrOf EXCEPT ![e] = a]
       /\ off' = [off EXCEPT ![e] = FALSE]

\* spawn: nothing once the plugin unloads, and paused while sync is.
Spawn(b, a) ==
    \E e \in Unused :
       /\ roster' = [roster EXCEPT ![b] = e]
       /\ phase' = [phase EXCEPT ![e] = "on"]
       /\ addrOf' = [addrOf EXCEPT ![e] = a]
       /\ off' = [off EXCEPT ![e] = paused]

Go(t, fields) == task' = [task EXCEPT ![t] = fields]

-----------------------------------------------------------------------------
(***************************************************************************)
(* A refresh: refreshFromSettings.                                         *)
(***************************************************************************)

\* Mutant: a binding switched off is taken for one removed.
BeginOnly(t, resume) ==
    /\ task[t].pc = "idle"
    /\ Go(t, [Idle EXCEPT !.pc = "loop", !.todo = Known, !.addr = addr, !.resume = resume,
                          !.known = {b \in Known : setting[b] = "on"}])

\* What it reads of the settings before its first await.
Begin(t, resume) ==
    /\ task[t].pc = "idle"
    /\ Go(t, [Idle EXCEPT !.pc = "loop", !.todo = Known, !.known = Known, !.addr = addr,
                          !.resume = resume])

\* Whether the refresh finds binding b on.
Wants(t, b) == (setting[b] = "on" \/ b \in task[t].ghost) /\ task[t].addr # 0

\* Nothing to do for b: off, or its engine there as it should be, or being
\* replaced by another refresh.
Pass(t, b) ==
    /\ task[t].pc = "loop" /\ b \in task[t].todo
    /\ Wants(t, b) =>
          \/ roster[b] = None /\ manager # "up"
          \/ /\ roster[b] # None
             /\ addrOf[roster[b]] = task[t].addr \/ restart[b] # None
    /\ Go(t, [task[t] EXCEPT !.todo = @ \ {b},
                             !.desired = IF Wants(t, b) THEN @ \cup {b} ELSE @])
    /\ UNCHANGED <<settingVars, manager, paused, roster, restart, leaving, engineVars,
                   eventVars, histVars>>

\* Mutant: while the plugin unloads too.
SpawnLate(t, b) ==
    /\ task[t].pc = "loop" /\ b \in task[t].todo
    /\ Wants(t, b) /\ roster[b] = None
    /\ Spawn(b, task[t].addr)
    /\ Go(t, [task[t] EXCEPT !.todo = @ \ {b}, !.desired = @ \cup {b}])
    /\ UNCHANGED <<settingVars, manager, paused, restart, leaving, eventVars, histVars>>

SpawnNew(t, b) ==
    /\ task[t].pc = "loop" /\ b \in task[t].todo
    /\ Wants(t, b) /\ roster[b] = None /\ manager = "up"
    /\ Spawn(b, task[t].addr)
    /\ Go(t, [task[t] EXCEPT !.todo = @ \ {b}, !.desired = @ \cup {b}])
    /\ UNCHANGED <<settingVars, manager, paused, restart, leaving, eventVars, histVars>>

\* restartEngine, up to where it waits for the old engine.
BeginRestart(t, b) ==
    /\ task[t].pc = "loop" /\ b \in task[t].todo
    /\ Wants(t, b) /\ roster[b] # None /\ restart[b] = None
    /\ addrOf[roster[b]] # task[t].addr
    /\ restart' = [restart EXCEPT ![b] = t]
    /\ Stopping({roster[b]})
    /\ Go(t, [task[t] EXCEPT !.pc = "restarting", !.at = b, !.engine = roster[b],
                             !.todo = @ \ {b}, !.desired = @ \cup {b}])
    /\ UNCHANGED <<settingVars, manager, paused, roster, leaving, addrOf, off, eventVars, histVars>>

\* Mutant: the new engine gets the address the refresh began with.
EndRestartStale(t) ==
    /\ task[t].pc = "restarting" /\ CanGoOn(t)
    /\ LET b == task[t].at IN
          /\ restart' = [restart EXCEPT ![b] = None]
          /\ IF roster[b] # task[t].engine
             THEN UNCHANGED <<roster, engineVars>>
             ELSE IF setting[b] = "on" /\ addr # 0
             THEN Spawn(b, task[t].addr)
             ELSE roster' = [roster EXCEPT ![b] = None] /\ UNCHANGED engineVars
    /\ Go(t, [task[t] EXCEPT !.pc = "loop", !.at = None, !.engine = None])
    /\ UNCHANGED <<settingVars, manager, paused, leaving, eventVars, histVars>>

\* replaceEngine goes on: unless the engine was dropped meanwhile, a new one
\* by the settings as they are now.
EndRestart(t) ==
    /\ task[t].pc = "restarting" /\ CanGoOn(t)
    /\ LET b == task[t].at IN
          /\ restart' = [restart EXCEPT ![b] = None]
          /\ IF roster[b] # task[t].engine
             THEN UNCHANGED <<roster, engineVars>>
             ELSE IF setting[b] = "on" /\ addr # 0
             THEN Spawn(b, addr)
             ELSE roster' = [roster EXCEPT ![b] = None] /\ UNCHANGED engineVars
    /\ Go(t, [task[t] EXCEPT !.pc = "loop", !.at = None, !.engine = None])
    /\ UNCHANGED <<settingVars, manager, paused, leaving, eventVars, histVars>>

\* The bindings are through: the engines of the others are to go.
EndLoop(t) ==
    /\ task[t].pc = "loop" /\ task[t].todo = {}
    /\ Go(t, [Idle EXCEPT !.pc = "drop", !.known = task[t].known, !.resume = task[t].resume,
                          !.todo = {b \in Binding : roster[b] # None} \ task[t].desired])
    /\ UNCHANGED <<settingVars, manager, paused, roster, restart, leaving, engineVars,
                   eventVars, histVars>>

\* dropEngine, up to where it waits for the engine.
BeginDrop(t, b) ==
    /\ task[t].pc = "drop" /\ b \in task[t].todo
    /\ Stopping({roster[b]} \ {None})
    /\ Go(t, [task[t] EXCEPT !.pc = "dropping", !.at = b, !.engine = roster[b],
                             !.todo = @ \ {b}])
    /\ UNCHANGED <<settingVars, manager, paused, roster, restart, leaving, addrOf, off,
                   eventVars, histVars>>

\* Dropped, b is erased if the refresh did not find it in the settings: from
\* the operation log at once, from IndexedDB over an await.
Dropped(t, b) ==
    LET purge == b \notin task[t].known IN
    /\ purged' = IF purge THEN purged \cup {b} ELSE purged
    /\ Go(t, [task[t] EXCEPT !.pc = IF purge THEN "purging" ELSE "drop",
                             !.at = None, !.engine = None])

\* Mutant: whatever engine the binding has by now is forgotten.
EndDropAny(t) ==
    /\ task[t].pc = "dropping" /\ CanGoOn(t)
    /\ LET b == task[t].at IN
          /\ roster' = [roster EXCEPT ![b] = None]
          /\ Dropped(t, b)
    /\ UNCHANGED <<settingVars, manager, paused, restart, leaving, engineVars, eventVars, hasty>>

\* dropEngine goes on: the engine is forgotten, unless a new one is in its
\* place, and a removed binding's local state erased.
EndDrop(t) ==
    /\ task[t].pc = "dropping" /\ CanGoOn(t)
    /\ LET b == task[t].at IN
          /\ roster' = [roster EXCEPT ![b] = IF @ = task[t].engine THEN None ELSE @]
          /\ Dropped(t, b)
    /\ UNCHANGED <<settingVars, manager, paused, restart, leaving, engineVars, eventVars, hasty>>

\* docManager.purgeBinding answers, or fails.
Erased(t) ==
    /\ Turn /\ task[t].pc = "purging"
    /\ Go(t, [task[t] EXCEPT !.pc = "drop"])
    /\ UNCHANGED <<settingVars, manager, paused, roster, restart, leaving, engineVars,
                   eventVars, histVars>>

\* The end; of resume()'s refresh, every engine connects again.
End(t) ==
    /\ task[t].pc = "drop" /\ task[t].todo = {}
    /\ Go(t, Idle)
    /\ off' = [e \in Engine |->
                  IF task[t].resume /\ ~paused /\ manager = "up" /\ e \in Rostered /\ phase[e] = "on"
                  THEN FALSE ELSE off[e]]
    /\ UNCHANGED <<settingVars, manager, paused, roster, restart, leaving, phase, addrOf,
                   eventVars, histVars>>

-----------------------------------------------------------------------------
(***************************************************************************)
(* Refreshes begin.                                                        *)
(***************************************************************************)

\* The settings are saved; a plugin that unloads begins no refresh.
Saved ==
    /\ Turn /\ saves > 0
    /\ saves' = saves - 1
    /\ IF manager = "up" THEN \E t \in Task : Begin(t, FALSE) ELSE UNCHANGED task
    /\ UNCHANGED <<setting, addr, changes, manager, paused, roster, restart, leaving,
                   engineVars, eventVars, histVars>>

\* A binding has synced: onBindingSynced saves the settings.
Synced ==
    /\ Turn /\ manager = "up" /\ saves < MaxSaves
    /\ \E b \in Known : roster[b] # None /\ phase[roster[b]] = "on" /\ ~off[roster[b]]
    /\ saves' = saves + 1
    /\ UNCHANGED <<setting, addr, changes, manager, paused, roster, restart, leaving, task,
                   engineVars, eventVars, histVars>>

Change ==
    /\ Turn /\ manager = "up" /\ changes < MaxChanges
    /\ changes' = changes + 1

\* Every engine closes its connection.
Pause ==
    /\ Change /\ ~paused
    /\ paused' = TRUE
    /\ off' = [e \in Engine |-> IF e \in Rostered /\ phase[e] = "on" THEN TRUE ELSE off[e]]
    /\ UNCHANGED <<setting, addr, saves, manager, roster, restart, leaving, task, phase,
                   addrOf, eventVars, histVars>>

\* resume, up to its refresh.
Resume ==
    /\ Change /\ paused
    /\ paused' = FALSE
    /\ \E t \in Task : Begin(t, TRUE)
    /\ UNCHANGED <<setting, addr, saves, manager, roster, restart, leaving, engineVars,
                   eventVars, histVars>>

-----------------------------------------------------------------------------
(***************************************************************************)
(* The user edits the settings; each change is saved (settings/tab.ts).    *)
(***************************************************************************)

Edit ==
    /\ Change
    /\ saves' = saves + 1
    /\ UNCHANGED <<manager, paused, roster, restart, leaving, engineVars, purged>>

\* The events under way for a binding that does not stay on.
Excuse(S) ==
    excused' = excused \cup {v \in Event : event[v].state = "waiting" /\ event[v].binding \in S}

\* The entries of S are replaced or gone: a refresh under way has the old ones.
Haunt(S) ==
    LET seen(t) == {b \in S \cap task[t].todo : setting[b] = "on"}
        walking == {t \in Task : task[t].pc \in {"loop", "restarting"}} IN
    /\ task' = [t \in Task |-> IF t \in walking THEN [task[t] EXCEPT !.ghost = @ \cup seen(t)]
                               ELSE task[t]]
    /\ hasty' = (hasty \/ \E t \in walking : seen(t) # {})

\* The toggle changes the entry in place.
SwitchOff(b) ==
    /\ Edit /\ setting[b] = "on"
    /\ setting' = [setting EXCEPT ![b] = "off"]
    /\ Excuse({b})
    /\ UNCHANGED <<addr, task, event, hasty>>

\* A binding that is on from now on: a refresh under way may have passed it.
Late == hasty' = (hasty \/ Running # {})

SwitchOn(b) ==
    /\ Edit /\ setting[b] = "off"
    /\ Late
    /\ setting' = [setting EXCEPT ![b] = "on"]
    /\ UNCHANGED <<addr, task, eventVars>>

Remove(b) ==
    /\ Edit /\ b \in Known
    /\ setting' = [setting EXCEPT ![b] = "removed"]
    /\ Haunt({b})
    /\ Excuse({b})
    /\ UNCHANGED <<addr, event>>

\* bindingAddBlock: one per vault.
Add(b) ==
    /\ Edit /\ Known = {} /\ setting[b] = "absent" /\ addr # 0
    /\ Late
    /\ setting' = [setting EXCEPT ![b] = "on"]
    /\ UNCHANGED <<addr, task, eventVars>>

EditServer ==
    /\ Edit /\ addr # 0
    /\ addr' = addr + 1
    /\ UNCHANGED <<setting, task, eventVars, hasty>>

\* Its bindings are kept, switched off.
RemoveServer ==
    /\ Edit /\ addr # 0
    /\ addr' = 0
    /\ setting' = [b \in Binding |-> IF setting[b] = "on" THEN "off" ELSE setting[b]]
    /\ Haunt(Binding)
    /\ Excuse(Binding)
    /\ UNCHANGED event

-----------------------------------------------------------------------------
(***************************************************************************)
(* Vault events, engines that stop, and the plugin's unload.               *)
(***************************************************************************)

\* An event comes to engine e, which drops it if it stops.
Reached(e) == [state |-> IF e # None /\ phase[e] = "on" THEN "taken" ELSE "lost",
               binding |-> None, wait |-> None]

\* Mutant: the event does not wait for a restart.
DispatchAtOnce(v, b) ==
    /\ Turn /\ manager = "up" /\ event[v].state = "none"
    /\ setting[b] = "on" /\ roster[b] # None
    /\ event' = [event EXCEPT ![v] = Reached(roster[b])]
    /\ excused' = IF addr = 0 THEN excused \cup {v} ELSE excused
    /\ UNCHANGED <<settingVars, manager, paused, roster, restart, leaving, task, engineVars,
                   histVars>>

\* dispatchVaultEvent, for a binding with an engine: to it, or to the new one
\* once a restart is over.
Dispatch(v, b) ==
    /\ Turn /\ manager = "up" /\ event[v].state = "none"
    /\ setting[b] = "on" /\ roster[b] # None
    /\ event' = [event EXCEPT ![v] =
          IF restart[b] # None
          THEN [state |-> "waiting", binding |-> b, wait |-> restart[b]]
          ELSE Reached(roster[b])]
    /\ excused' = IF addr = 0 THEN excused \cup {v} ELSE excused
    /\ UNCHANGED <<settingVars, manager, paused, roster, restart, leaving, task, engineVars,
                   histVars>>

\* The restart it waited for is over.
Deliver(v) ==
    /\ Woken(v)
    /\ event' = [event EXCEPT ![v] = Reached(roster[event[v].binding])]
    /\ UNCHANGED <<settingVars, manager, paused, roster, restart, leaving, task, engineVars,
                   excused, histVars>>

\* The local phase an engine's stop() waited for ends.
LocalPhaseEnds(e) ==
    /\ Turn /\ phase[e] = "stopping"
    /\ phase' = [phase EXCEPT ![e] = "stopped"]
    /\ UNCHANGED <<settingVars, manager, paused, roster, restart, leaving, task, addrOf, off,
                   eventVars, histVars>>

\* stop, up to where it waits for the engines.
Unload ==
    /\ Turn /\ manager = "up"
    /\ manager' = "stopping"
    /\ leaving' = Rostered
    /\ Stopping(Rostered)
    /\ roster' = [b \in Binding |-> None]
    /\ Excuse(Binding)
    /\ UNCHANGED <<settingVars, paused, restart, task, addrOf, off, event, histVars>>

\* They have stopped; the plugin closes its operation log.
Unloaded ==
    /\ manager = "stopping" /\ AllLeft
    /\ manager' = "down"
    /\ leaving' = {}
    /\ UNCHANGED <<settingVars, paused, roster, restart, task, engineVars, eventVars, histVars>>

-----------------------------------------------------------------------------
GoOn(t) ==
    \/ \E b \in Binding : Pass(t, b) \/ SpawnNew(t, b) \/ BeginRestart(t, b) \/ BeginDrop(t, b)
    \/ EndRestart(t) \/ EndLoop(t) \/ EndDrop(t) \/ Erased(t) \/ End(t)

User ==
    \/ Pause \/ Resume \/ EditServer \/ RemoveServer
    \/ \E b \in Binding : SwitchOff(b) \/ SwitchOn(b) \/ Remove(b) \/ Add(b)

Next ==
    \/ \E t \in Task : GoOn(t)
    \/ Saved \/ Synced \/ User
    \/ \E v \in Event : (\E b \in Binding : Dispatch(v, b)) \/ Deliver(v)
    \/ \E e \in Engine : LocalPhaseEnds(e)
    \/ Unload \/ Unloaded

Spec == Init /\ [][Next]_vars

-----------------------------------------------------------------------------
(***************************************************************************)
(* Properties.                                                             *)
(***************************************************************************)

\* The types of the variables.
TypeOK ==
    /\ setting \in [Binding -> Setting] /\ addr \in Nat /\ saves \in Nat /\ changes \in Nat
    /\ manager \in {"up", "stopping", "down"} /\ paused \in BOOLEAN
    /\ roster \in [Binding -> Engine \cup {None}]
    /\ restart \in [Binding -> Task \cup {None}]
    /\ leaving \subseteq Engine
    /\ task \in [Task -> Refresh]
    /\ phase \in [Engine -> {"on", "stopping", "stopped"}]
    /\ addrOf \in [Engine -> Nat] /\ off \in [Engine -> BOOLEAN]
    /\ event \in [Event -> Dispatched] /\ excused \subseteq Event
    /\ hasty \in BOOLEAN /\ purged \subseteq Binding

\* Every engine that has not stopped is in the roster, so that the next
\* refresh, a pause or the unload reaches it; one forgotten "would run on
\* with nothing to stop it".  With a roster of one engine a binding, no
\* binding has two at work on its files.
NoneAtLarge ==
    \A e \in Engine : phase[e] # "stopped" => e \in Rostered \cup leaving

\* When the plugin closes the operation log, every engine has written for the
\* last time, and none is started again (stop, spawn).
DownIsDown == manager = "down" => \A e \in Engine : phase[e] = "stopped"

\* The inductive invariant behind the two: once the plugin unloads the roster
\* stays empty, and stop() waits only while it unloads; a restart has an engine
\* it waits for, so that it spawns none into an empty roster.
RosterEmptied == manager # "up" => Rostered = {}
LeftInTime == manager # "stopping" => leaving = {}
RestartHasEngine ==
    \A t \in Task : /\ task[t].pc = "restarting" => task[t].engine # None
                    /\ task[t].pc \in {"restarting", "dropping"} => task[t].at # None
IInv == TypeOK /\ NoneAtLarge /\ RosterEmptied /\ LeftInTime /\ RestartHasEngine

\* Nothing under way: every binding that is on has an engine on the server's
\* present address, and no other has one (refreshFromSettings).
Settled == Running = {} /\ saves = 0 /\ manager = "up"
RosterFollows ==
    Settled =>
       \A b \in Binding :
          IF setting[b] = "on" /\ addr # 0
          THEN roster[b] # None /\ phase[roster[b]] = "on" /\ addrOf[roster[b]] = addr
          ELSE roster[b] = None

\* So it is as long as no refresh under way missed a change of the settings:
\* with restarts, drops, removals and edits of the server side by side.
RosterFollowsInTime == hasty \/ RosterFollows

\* Paused, no engine connects, one spawned or replaced meanwhile included; and
\* sync resumed, none stays behind.
PauseHolds ==
    /\ paused => \A e \in Rostered : phase[e] = "on" => off[e]
    /\ Settled /\ ~paused => \A e \in Rostered : ~off[e]

\* A vault event of a binding that stays on, its server there, reaches an
\* engine, through a restart too (dispatchVaultEvent).
EventsKept == hasty \/ \A v \in Event : event[v].state = "lost" => v \in excused

\* A binding in the settings, on or off, never loses its local state
\* (refreshFromSettings, known; dropEngine).
PurgedIfRemoved == hasty \/ \A b \in purged : setting[b] = "removed"
=============================================================================
