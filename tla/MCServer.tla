------------------------------ MODULE MCServer ------------------------------
EXTENDS Server, TLC

CONSTANTS a, b
OneKey   == {a}
TwoKeys  == {a, b}
Symmetry == Permutations(TwoKeys)
=============================================================================
