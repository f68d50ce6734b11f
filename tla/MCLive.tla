------------------------------- MODULE MCLive -------------------------------
(***************************************************************************)
(* OpDelivery where an operation is refused "busy" at worst, and where in  *)
(* some of the behaviours the drain may find that it cannot upload what a  *)
(* queued one needs.  What the upload of a live change that fails does to  *)
(* the order is in the run "upload".                                       *)
(***************************************************************************)
EXTENDS OpDelivery

CONSTANTS c1, c2

VARIABLE uploads      \* whether the uploads of the drain may fail
livevars == <<vars, uploads>>

LiveUploadFails(c) == stage[c] = "none" /\ MayEmit(c) /\ stage'[c] = "queued"

LiveStep ==
    /\ Next /\ UNCHANGED uploads
    /\ \A c \in Change : ~LiveUploadFails(c) /\ (ReplayFails(c) => uploads)

LiveSpec == Init /\ uploads \in BOOLEAN /\ [][LiveStep]_livevars /\ Fairness

\* A change once on disk is applied in the end, when nothing but "busy", lost
\* connections and crashes comes between.
DeliveredUnhurt == ~uploads => Delivered
=============================================================================
