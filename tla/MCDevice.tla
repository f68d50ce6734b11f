------------------------------ MODULE MCDevice ------------------------------
(***************************************************************************)
(* Three parts of the engine's dealings with this device on small          *)
(* instances, one of them in each behaviour: the names of the files, with  *)
(* two names, three changes here or two here and two of a teammate's; what *)
(* the watchers tell, with two names and three operations; and the file of *)
(* the log, with two archives, six lines and two failures.                 *)
(***************************************************************************)
EXTENDS FileNames, Watchers, LogFile

MCName  == {"a", "b"}
MCSpare == {"a+", "b+", "c+"}
MCBusy  == {<<3, 0>>, <<2, 2>>}

VARIABLE part
dvars == <<vars, wvars, lvars, part>>

\* A part that is not looked at stays as it begins.
NamesAtRest    == Init /\ ~link /\ made = 0 /\ theirs = 0
WatchersAtRest == WatchersInit /\ \A p \in Path : file[p] = 0

DeviceInit ==
    \/ part = "names"    /\ Init        /\ WatchersAtRest /\ LogFileInit
    \/ part = "watchers" /\ NamesAtRest /\ WatchersInit   /\ LogFileInit
    \/ part = "log"      /\ NamesAtRest /\ WatchersAtRest /\ LogFileInit

DeviceNext ==
    /\ UNCHANGED part
    /\ \/ part = "names"    /\ Next         /\ UNCHANGED <<wvars, lvars>>
       \/ part = "watchers" /\ WatchersNext /\ UNCHANGED <<vars, lvars>>
       \/ part = "log"      /\ LogFileNext  /\ UNCHANGED <<vars, wvars>>

DeviceSpec == DeviceInit /\ [][DeviceNext]_dvars
=============================================================================
