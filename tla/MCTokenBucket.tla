--------------------------- MODULE MCTokenBucket ----------------------------
(* Callers are alike.                                                      *)
EXTENDS TokenBucket, TLC

CONSTANTS t1, t2, t3

Swap == Permutations(Callers)
=============================================================================
