CONSTANTS
  a = a
  b = b
  Keys <- OneKey
  MaxPlayers = 1
  MaxRoom = 2
SPECIFICATION FairSpec
PROPERTIES UnreachedMembersLeave
CHECK_DEADLOCK FALSE
