SPECIFICATION FairSpec
CONSTANTS
  Zones = {z1, z2}
  MaxAnomalies = 3
  RecoveryTicks = 2
  FusionDefs <- ManifestModes
  FirstMode <- FullMode
  MaxFindings = 1
INVARIANTS TypeOK BreakerConsistent
PROPERTIES HeldIsIsolated BreakerRecovers StaleThreatAnswered
