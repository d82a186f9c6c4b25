SPECIFICATION AllSpec
CONSTANTS
  p1 = p1
  p2 = p2
  sha1 = sha1
  sha2 = sha2
  Processes = {p1, p2}
  MaxHot = 2
  MaxLines = 2
  MaxTicks = 4
  MaxTorn = 1
  MaxSeconds = 1
  Sidecars = {s1, s2}
  Keys = {k1, k2}
  MaxUpdates = 4
  Manifested = {m}
  Specs = {1, 2}
  MaxAudit = 2
  MaxVerified = 3
  Leaves = {l, leaf}
  Shas = {sha1, sha2}
  Receipts = {1, 2}
  Ttl = 1
  MaxTime = 2
  MaxGrants = 1
  Names = {a, b}
  Repositories = {r, s, t}
  MaxNumber = 2
  Devices = {gpu, switch}
  Versions = {1, 2}
  Combinations = {old, new}
  Gpus = {h100, h200}
  MaxPatches = 3
  MaxRecords = 3
  MaxRuns = 1
INVARIANTS TypesOK LossIsAccounted TicksOnceInOrder UpdatesKept AttestedIsGenuine
  PublishedIsTested RollbackUndoes
PROPERTIES RestartRecoversTail VerdictStands
SYMMETRY Alike
