------------------------------ MODULE MCJoins ------------------------------
(***************************************************************************)
(* What a join brings, on small instances, one part in each behaviour: the *)
(* documents of two notes under two names, the operations of the catch-up, *)
(* with a file of three names, and the versions of an attachment.          *)
(***************************************************************************)
EXTENDS DocStores, CatchUp, Attachments

\* How many renames, joins, crashes, edits, edits of teammates, notes made, deletes.
Notes(r, j, c, e, m, k, d) ==
    [rename |-> r, join |-> j, crash |-> c, edit |-> e, mate |-> m, make |-> k, delete |-> d]

MCBudgets == {Notes(1, 1, 0, 1, 1, 0, 0), Notes(0, 1, 0, 1, 0, 1, 1), Notes(1, 1, 0, 0, 0, 1, 1),
              Notes(1, 1, 1, 1, 0, 1, 0), Notes(0, 2, 0, 1, 0, 1, 0)}

\* How many renames, changes of other files, renames of a teammate's, drops, crashes, refusals.
Operations(r, o, m, d, c, f) ==
    [rename |-> r, change |-> o, mate |-> m, drop |-> d, crash |-> c, refuse |-> f]

MCAllowances == {Operations(1, 0, 1, 1, 1, 0), Operations(0, 1, 1, 1, 1, 0),
                 Operations(1, 0, 1, 1, 0, 1), Operations(2, 0, 0, 1, 0, 0),
                 Operations(0, 0, 2, 1, 0, 0), Operations(0, 0, 2, 0, 0, 1)}

\* How many saves, saves of a teammate's, drops, crashes.
Versions(s, t, d, c) == [save |-> s, theirs |-> t, drop |-> d, crash |-> c]

MCTurns == {Versions(1, 1, 1, 0), Versions(1, 1, 0, 1), Versions(2, 0, 1, 0), Versions(2, 0, 0, 1)}

VARIABLE part
joinVars == <<storeVars, cvars, avars, part>>

\* A part that is not looked at stays as it begins.
StoresAtRest ==
    /\ StoresInit /\ left = Notes(0, 2, 0, 1, 0, 1, 0)
    /\ \A m \in Name : store[m].owner = None
    /\ Cardinality({m \in Name : store[m] # NoStore}) = 1
CatchUpAtRest == CatchUpInit /\ allowed = Operations(2, 0, 0, 1, 0, 0)

VersionsAtRest == AttachmentsInit /\ budget = Versions(2, 0, 1, 0)

JoinsInit ==
    \/ part = "documents"  /\ StoresInit   /\ CatchUpAtRest /\ VersionsAtRest
    \/ part = "operations" /\ StoresAtRest /\ CatchUpInit   /\ VersionsAtRest
    \/ part = "versions"   /\ StoresAtRest /\ CatchUpAtRest /\ AttachmentsInit

JoinsNext ==
    /\ UNCHANGED part
    /\ \/ part = "documents"  /\ StoresNext      /\ UNCHANGED <<cvars, avars>>
       \/ part = "operations" /\ CatchUpNext     /\ UNCHANGED <<storeVars, avars>>
       \/ part = "versions"   /\ AttachmentsNext /\ UNCHANGED <<storeVars, cvars>>

JoinsSpec == JoinsInit /\ [][JoinsNext]_joinVars

TypesOK == StoresTypeOK /\ CatchUpTypeOK /\ AttachmentsTypeOK
=============================================================================
