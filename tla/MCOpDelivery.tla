---------------------------- MODULE MCOpDelivery ----------------------------
(***************************************************************************)
(* OpDelivery on small instances: two or three changes, one of which may   *)
(* answer a question, and a bounded number of connections and crashes.     *)
(***************************************************************************)
EXTENDS OpDelivery, TLC

CONSTANTS c1, c2, c3

Symmetry == Permutations(Change)
=============================================================================
