---------------------------- MODULE MCFrozenPaths ----------------------------
(***************************************************************************)
(* Instances of FrozenPaths: two frozen files, read in the order of        *)
(* FROZEN_PATHS.                                                           *)
(***************************************************************************)
EXTENDS FrozenPaths, TLC

CONSTANTS prompt, rungs

\* The jobs are interchangeable.
JobSymmetry == Permutations(Jobs)

FileOrder == <<prompt, rungs>>
===============================================================================
