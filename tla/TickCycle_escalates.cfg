SPECIFICATION Spec
CONSTANTS
  Zones = {z1}
  MaxAnomalies = 3
  RecoveryTicks = 3
  FusionDefs <- ManifestModes
  FirstMode <- FullMode
  MaxFindings = 5
PROPERTIES ThreatEscalates
