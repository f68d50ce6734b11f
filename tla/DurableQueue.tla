---------------------------- MODULE DurableQueue ----------------------------
(***************************************************************************)
(* What the queue of file changes promises, with none of the protocol.     *)
(*                                                                         *)
(* A change is new until it is recorded on this device's disk.  From then  *)
(* on it is accepted, and it can end in two ways only: the server applies  *)
(* it, or it is given up - and it is given up only after somebody who may  *)
(* do so has refused it (the server for good, or this device because the   *)
(* disk no longer bears the change out).  Nothing leaves either end.       *)
(*                                                                         *)
(* OpDelivery implements this specification.                               *)
(***************************************************************************)
CONSTANT Change

VARIABLES
    status,     \* what has become of each change
    refused     \* the changes somebody refused

vars == <<status, refused>>

Status == {"new", "accepted", "applied", "givenup"}

TypeOK ==
    /\ status \in [Change -> Status]
    /\ refused \subseteq Change

Init ==
    /\ status = [c \in Change |-> "new"]
    /\ refused = {}

\* One write of the document records the changes of "in" and takes those of
\* "out" off the disk.
Write(in, out) ==
    /\ \A c \in in : status[c] = "new"
    /\ \A c \in out : status[c] = "accepted" /\ c \in refused
    /\ status' = [c \in Change |-> IF c \in in THEN "accepted"
                                   ELSE IF c \in out THEN "givenup"
                                   ELSE status[c]]
    /\ UNCHANGED refused

Apply(c) ==
    /\ status[c] = "accepted"
    /\ status' = [status EXCEPT ![c] = "applied"]
    /\ UNCHANGED refused

Refuse(S) ==
    /\ refused' = refused \cup S
    /\ UNCHANGED status

Next ==
    \/ \E in, out \in SUBSET Change : Write(in, out)
    \/ \E c \in Change : Apply(c)
    \/ \E S \in SUBSET Change : Refuse(S)

Spec == Init /\ [][Next]_vars
=============================================================================
