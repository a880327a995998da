CONSTANTS
  a = a
  b = b
  Keys <- OneKey
  MaxPlayers = 1
  MaxRoom = 2
SPECIFICATION Spec
PROPERTIES LastSeenIsTrue
CHECK_DEADLOCK FALSE
