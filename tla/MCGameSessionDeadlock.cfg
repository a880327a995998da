CONSTANTS
  a = a
  b = b
  c = c
  Keys <- TwoKeys
  MaxPlayers = 2
  InitialLives = 1
  MaxId = 2
SPECIFICATION FairSpec
PROPERTIES LoopKeepsTurning
CHECK_DEADLOCK FALSE
