---------------------------- MODULE MCChainHold ----------------------------
(* Two or three commands of a round; they are interchangeable, so the runs *)
(* of safety properties may use symmetry.                                  *)
EXTENDS ChainHold, TLC

CONSTANTS c1, c2, c3

Symmetry == Permutations(Cmds)
=============================================================================
