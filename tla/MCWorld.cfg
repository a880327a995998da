CONSTANTS
  a = a
  b = b
  Keys = {a, b}
  MaxPlayers = 2
  MaxId = 2
  MaxEntities = 5
  InitialLives = 2
  PlayerHealth = 2
  BossHits = 1
  ShieldTime = 1
  FriendlyFire = TRUE
  WarningTime = 2
  MaxTimer = 3
  Levels <- ThreeLevels
SPECIFICATION Spec
INVARIANTS TypeOK OneHitPerShot ShieldsAreTimed PointsAddUp SpawnsGoOn
PROPERTIES BossesAreAnnounced RoomSpec
SYMMETRY Symmetry
CHECK_DEADLOCK FALSE
