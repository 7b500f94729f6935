---------------------------- MODULE MCPointInTime ----------------------------
(* Instances of PointInTime for TLC.  Headline numbers are only compared for  *)
(* equality, so they may be permuted.                                         *)
EXTENDS PointInTime, TLC

CONSTANTS v1, v2

Symmetry == Permutations(Values)
==============================================================================
