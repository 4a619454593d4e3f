-------------------------- MODULE MCPostmarketBatch --------------------------
(* Instances of PostmarketBatch for TLC.                                   *)
EXTENDS PostmarketBatch, TLC

CONSTANTS j1, j2

Sym == Permutations(Jobs)
=============================================================================
