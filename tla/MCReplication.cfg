CONSTANTS
  a = a
  b = b
  Keys = {a, b}
  Tags = {"Boss_1"}
  MaxNum = 1
  MaxJoins = 2
  MaxFaults = 1
  MaxHits = 1
SPECIFICATION Spec
INVARIANTS TypeOK NewcomersMissNothing GhostsHaveACause LatecomersSeeTheSameKinds HitsAreToldOnce
PROPERTIES GhostsVanish
CHECK_DEADLOCK FALSE
