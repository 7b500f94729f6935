---------------------------- MODULE MCPersistence ----------------------------
(* Instances of Persistence for TLC: one contract, two files.  Notes are only *)
(* compared for equality, so they may be permuted.                            *)
EXTENDS Persistence, TLC

CONSTANTS c1, n1, n2

Symmetry == Permutations(Notes)

MCPnLs == {-1, 0, 2}
==============================================================================
