CONSTANTS
  t1 = t1  t2 = t2  p1 = p1
  NoTask = NoTask  NoPiston = NoPiston  NoSubsystem = NoSubsystem  NoWorker = NoWorker
  Tasks = {t1, t2}
  Pistons = {p1}
  Subsystems = {}
  Workers = {w1, w2}
  Priority <- TwoPriorities
  MaxRetries <- OneRetry
  Matches <- AllMatch
  SubsystemRef <- OneRef
  MaxConcurrent <- OneEach
  MaxBatch = 1
  MaxStarts = 2
SPECIFICATION OpenSpec
INVARIANTS WaitingIsQueued CountersInBounds
