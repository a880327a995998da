CONSTANTS
  Ids = {1, 2}
  r1 = r1
  r2 = r2
  Rooms = {r1, r2}
  Points = {1, 2}
  KeyCodes = {"space", "x"}
  FirstKey = "space"
  Modes = 2
  MaxScores = 1
  Names = {"plain", "odd"}
  OddNames = {"odd"}
  Misread <- ReadAsPlain
  MaxJoins = 2
  MaxGames = 2
SYMMETRY RoomsAlike
CONSTRAINT Apart
SPECIFICATION Spec
INVARIANTS TypeOK ScreensTellTheTruth ScoresArePlayed
PROPERTIES ScoresStay
CHECK_DEADLOCK FALSE
