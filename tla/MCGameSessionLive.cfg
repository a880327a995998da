CONSTANTS
  a = a
  b = b
  c = c
  Keys <- TwoKeys
  MaxPlayers = 2
  InitialLives = 1
  MaxId = 2
SPECIFICATION FairSpec
PROPERTIES SilentClientsLeave EmptyRoomsEnd
CHECK_DEADLOCK FALSE
