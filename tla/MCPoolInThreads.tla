--------------------------- MODULE MCPoolInThreads ---------------------------
(* Three threads, one of which runs main().                                  *)
EXTENDS PoolInThreads, TLC

CONSTANTS m, t1, t2

MCThreads == {m, t1, t2}
MCSymmetry == Permutations(MCThreads \ {m})

=============================================================================
