------------------------------ MODULE MCBCache ------------------------------
(* BCache on a small instance.                                             *)
EXTENDS BCache, TLC

BlockSymmetry == Permutations(Blocks)
=============================================================================
