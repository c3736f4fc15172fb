--------------------------- MODULE MCDepthCache ----------------------------
EXTENDS DepthCache, TLC

CONSTANTS r1, r2, bad

\* Two parameter lists the handler accepts (they differ in market, limit
\* or interval) and one it refuses.
MCRequests == {r1, r2}
MCInvalid  == {bad}

\* The accepted requests are interchangeable.
MCSymmetry == Permutations(MCRequests)
=============================================================================
