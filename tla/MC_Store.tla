------------------------------ MODULE MC_Store ------------------------------
(* A store of three node offsets, two names and two value lengths.         *)
EXTENDS Store, TLC

CONSTANTS n1, n2, v1, v2, none

MCIds == 1 .. 3
MCNames == {n1, n2}
MCVals == {v1, v2}
(* Names and lengths are only compared for equality, so permuting either   *)
(* maps behaviours to behaviours.                                          *)
MCSymmetry == Permutations(MCNames) \cup Permutations(MCVals)
=============================================================================
