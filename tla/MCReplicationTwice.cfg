CONSTANTS
  a = a
  b = b
  Keys = {a}
  Tags = {"Boss_1"}
  MaxNum = 1
  MaxJoins = 1
  MaxFaults = 0
  MaxHits = 0
SPECIFICATION Spec
INVARIANTS NoEntityIsShownTwice
CHECK_DEADLOCK FALSE
