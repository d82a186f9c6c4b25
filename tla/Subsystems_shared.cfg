SPECIFICATION AllSpec
CONSTANTS
  c1 = c1
  c2 = c2
  NoCaller = NoCaller
  Names <- TwoNames
  Domains <- OneName
  Siblings <- OneName
  Callers = {c1, c2}
  Monitors = {c1, c2}
  MaxBindings = 3
  Runners = {c1, c2}
  MaxDuration = 2
  LoopTicks = 4
  Threads = {c1, c2}
  MaxBuffer = 2
  PerThread = 2
  Capacity = 2
  Rate = 1
  Probed <- Probes
  Answering <- EndpointOf
  MaxTime = 4
  GateTicks = 1
  Manifests <- SomeManifests
  Complete <- File
  Durations = {0, 1, 2}
  MaxReports = 5
  LifeTicks = 3
  MaxRecords = 5
SYMMETRY Alike
INVARIANTS TypesOK HealthIsEvidence RunsEndAsAsked EventsKept RateIsBounded
PROPERTIES WorkingBindingKept OnlyRecoveryTakesNames
