--------------------------- MODULE MCGameSession ---------------------------
EXTENDS GameSession, TLC

CONSTANTS a, b, c
TwoKeys   == {a, b}
ThreeKeys == {a, b, c}
Symmetry  == Permutations(ThreeKeys)
=============================================================================
