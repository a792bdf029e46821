------------------------------ MODULE MCExpansion ------------------------------
(***************************************************************************)
(* Instances of Expansion: a client that decodes replies and one that does *)
(* not, asked in this order.                                               *)
(***************************************************************************)
EXTENDS Expansion, TLC

CONSTANTS polar, stripe

TwoClients == <<polar, stripe>>

\* Children are interchangeable, and so are the callers of run_health_cycle.
ChildCycleSymmetry == Permutations(Children) \cup Permutations(Cycles)
===============================================================================
