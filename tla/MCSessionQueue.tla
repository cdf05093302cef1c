--------------------------- MODULE MCSessionQueue ---------------------------
EXTENDS SessionQueue
CONSTANTS p1, p2, p3, r1, r2

MCPrompts   == {p1, p2, p3}
MCReactions == {r1, r2}
=============================================================================
