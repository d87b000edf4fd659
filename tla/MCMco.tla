-------------------------------- MODULE MCMco --------------------------------
(* Small instances of Mco for TLC.                                           *)
EXTENDS Mco, TLC

CONSTANTS a, b, c

MCCoroutines == {a, b, c}
MCNone == {}
MCAncestor == {"ancestor"}

(* The routines are interchangeable; no property names one of them.          *)
MCSymmetry == Permutations(MCCoroutines)

=============================================================================
