CONSTANTS
  Rooms = {1, 2}
  Names = {"arena"}
  MaxPlayers = 2
  MaxId = 4
  MaxOthers <- OthersIn
  MaxCopies = 5
  MaxAsks = 3
  MaxWire = 2
  Ending = {2}
CONSTRAINT Followed
SPECIFICATION Spec
INVARIANTS TypeOK IdentityIsOwn  OneJoinPerCreation
PROPERTIES AskedIsAnswered
CHECK_DEADLOCK FALSE
