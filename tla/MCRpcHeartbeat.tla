--------------------------- MODULE MCRpcHeartbeat ---------------------------
EXTENDS RpcHeartbeat, TLC

CONSTANTS w1, w2

\* Two worker processes.
MCWorkers == {w1, w2}

\* Workers are interchangeable: nothing in the server depends on which
\* process holds which session.
MCSymmetry == Permutations(MCWorkers)

\* One tick is a second; a worker may declare 1 s (below MIN), 3 s, or
\* 6 s (above MAX).
MCDeclared == {1000, 3000, 6000}
=============================================================================
