SPECIFICATION AllSpec
CONSTANTS
  Zones = {z1, z2}
  MaxAnomalies = 3
  RecoveryTicks = 3
  HalfOpenTicks = 5
  Circuits = {1}
  Sizes = {30, 80}
  Fractions = {3, 5}
  HalfLife = 9
  MaxAge = 20
  Temperatures = {18, 35}
  MaxChecks = 2
  Ratios = {103, 109, 114, 119, 125}
  HistoryMax = 3
  Window = 2
  Cooldown = 2
  Sealable = {"A", "B", "C"}
  ThreatLimit = 10
  MaxKeys = 10
  KeptKeys = 5
  RackCounts = {0, 2, 7, 8, 9}
  ZoneLists <- TwoFacilities
  Gpus = {1, 2}
  MaxErrors = 3
  Sensors = {1}
  Levels = {0, 100, 107, 120}
  WindowSize = 3
  MinWindow = 2
  DriftLimit = 10
  Custom <- SomePlaybooks
  MaxExecutions = 2
INVARIANTS TypeOK TypesOK ReportsAreTrue
PROPERTIES OpensOnStreak OpenEnds AlarmsAreAnswered
