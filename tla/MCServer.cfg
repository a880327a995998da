CONSTANTS
  a = a
  b = b
  Keys <- TwoKeys
  MaxPlayers = 1
  MaxRoom = 2
SPECIFICATION Spec
SYMMETRY Symmetry
INVARIANTS TypeOK HandlersSessionLives RoutesLeadToSessions RemovalHitsTheEnded NoRoomCreatedTwice CreatedRoomsHaveTheirRules
CHECK_DEADLOCK FALSE
