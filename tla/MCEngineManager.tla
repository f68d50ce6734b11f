-------------------------- MODULE MCEngineManager --------------------------
(***************************************************************************)
(* EngineManager on small instances: one or two bindings, two refreshes    *)
(* at once and a bounded number of changes of the settings.                *)
(***************************************************************************)
EXTENDS EngineManager, TLC

CONSTANTS b1, b2, e1, e2, e3, e4, t1, t2, v1

Symmetry == Permutations(Engine) \cup Permutations(Task)
=============================================================================
