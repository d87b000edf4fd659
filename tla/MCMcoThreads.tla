---------------------------- MODULE MCMcoThreads ----------------------------
(* Two threads and three routines, any of which may have a private stack.   *)
EXTENDS McoThreads, TLC

CONSTANTS t1, t2, a, b, c

MCThreads == {t1, t2}
MCCoroutines == {a, b, c}
MCSymmetry == Permutations(MCThreads) \cup Permutations(MCCoroutines)

=============================================================================
