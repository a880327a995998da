CONSTANTS
  a = a
  b = b
  c = c
  Keys <- ThreeKeys
  MaxPlayers = 2
  InitialLives = 1
  MaxId = 3
SPECIFICATION Spec
SYMMETRY Symmetry
INVARIANTS TypeOK AtMostMaxPlayers UniqueIds AvatarsAreOwned LobbyCountSettles RosterIsComplete AtMostOneStranded
PROPERTIES OverIsFinal RoomSpec
CHECK_DEADLOCK FALSE
