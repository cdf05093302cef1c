---------------------------- MODULE MCTurnStream ----------------------------
EXTENDS TurnStream
CONSTANTS p1, p2, r1

OnePrompt  == {p1}
TwoPrompts == {p1, p2}
OneReaction == {r1}
=============================================================================
