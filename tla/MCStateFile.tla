---------------------------- MODULE MCStateFile ----------------------------
(***************************************************************************)
(* StateFile on small instances: three changes and two starts, with one    *)
(* crash and two failed storage calls, or a hand-over at its worst.        *)
(***************************************************************************)
EXTENDS StateFile

World(changes_, crashes_, fails_, slow_, late_) ==
    [changes |-> changes_, crashes |-> crashes_, fails |-> fails_, slow |-> slow_, late |-> late_]

MCWorlds   == {World(3, 0, 0, FALSE, FALSE), World(3, 1, 2, FALSE, FALSE),
               World(2, 0, 0, TRUE, TRUE)}
MCOverlap  == {World(3, 0, 0, FALSE, TRUE)}
MCCrash    == {World(3, 1, 0, FALSE, FALSE)}
=============================================================================
