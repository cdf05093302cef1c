---------------------------- MODULE MCSessionMap ----------------------------
EXTENDS SessionMap
CONSTANTS p1, p2, x1

TwoPrompts   == {p1, p2}
OneReaction  == {x1}
=============================================================================
