------------------------------- MODULE MCServer -------------------------------
(* Small instances of Server for TLC.                                        *)
EXTENDS Server

CONSTANTS m, w1, w2, c1, c2

MCAlone == {m}
MCOneWorker == {m, w1}
MCTwoWorkers == {m, w1, w2}
MCNobody == {}
MCPair == {c1, c2}
MCOneClient == {c1}

=============================================================================
