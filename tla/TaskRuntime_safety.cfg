CONSTANTS
  t1 = t1  t2 = t2  t3 = t3
  p1 = p1  p2 = p2  s1 = s1
  NoTask = NoTask  NoPiston = NoPiston  NoSubsystem = NoSubsystem  NoWorker = NoWorker
  Tasks = {t1, t2, t3}
  Pistons = {p1, p2}
  Subsystems = {s1}
  Workers = {w1, w2}
  Priority <- ThreePriorities
  MaxRetries <- ThreeRetries
  Matches <- MixedMatches
  SubsystemRef <- TwoRefs
  MaxConcurrent <- OneEach
  MaxBatch = 2
SPECIFICATION Spec
INVARIANTS TypeOK SlotAccounting OnePlace RetryBudget
PROPERTY ImplementsLedger
