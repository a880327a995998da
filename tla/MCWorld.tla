------------------------------- MODULE MCWorld -------------------------------
EXTENDS World

CONSTANTS a, b

Symmetry == Permutations(Keys)

Foe(k, t) == [kind |-> k, at |-> t]
ThreeLevels ==
    << << [enemies |-> <<Foe("mob", 1)>>, duration |-> 1] >>,
       << [enemies |-> <<Foe("boss1", 0)>>, duration |-> 3] >>,
       << [enemies |-> <<Foe("mob", 1)>>, duration |-> 1] >> >>
=============================================================================
