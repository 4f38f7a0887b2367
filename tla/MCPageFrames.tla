---------------------------- MODULE MCPageFrames ----------------------------
(***************************************************************************)
(* PageFrames for TLC.  Tasks are interchangeable: nothing compares them   *)
(* but for equality.                                                       *)
(***************************************************************************)
EXTENDS PageFrames, TLC

Symmetry == Permutations(Tasks)
=============================================================================
