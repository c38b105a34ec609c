------------------------------ MODULE MCRegions ------------------------------
(***************************************************************************)
(* Model-checking instance of Regions.                                     *)
(***************************************************************************)
EXTENDS Regions, TLC

Symmetry == Permutations(Block)
==============================================================================
