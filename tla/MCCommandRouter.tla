--------------------------- MODULE MCCommandRouter ---------------------------
EXTENDS CommandRouter

CONSTANTS p1, p2, b1, u1, q1
=============================================================================
