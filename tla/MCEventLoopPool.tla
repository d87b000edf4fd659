--------------------------- MODULE MCEventLoopPool ---------------------------
(* Six loops; l5 and l6 are made by the same thread.                         *)
EXTENDS EventLoopPool, TLC

CONSTANTS l1, l2, l3, l4, l5, l6

MCLoops == {l1, l2, l3, l4, l5, l6}
MCTids == 1 .. 5
MCTidOf == l1 :> 1 @@ l2 :> 2 @@ l3 :> 3 @@ l4 :> 4 @@ l5 :> 5 @@ l6 :> 5

=============================================================================
