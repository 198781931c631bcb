SPECIFICATION Spec
CONSTANTS
  w1 = w1
  w2 = w2
  p1 = p1
  p2 = p2
  f1 = f1
  f2 = f2
  f3 = f3
  Workers = {w1, w2}
  Procs = {p1, p2}
  ProcOf <- SeparateProcesses
  MaxBatches = 3
  Files = {f1, f2}
  MaxFiles = 2
  MaxRetries = 0
  MaxCrashes = 0
  MaxClears = 1
INVARIANTS
  AtMostOneActive
  ServedRowsMatch
  SerializedReplacement
  SupersededHasNewer
PROPERTIES
  ActivationMovesForward
SYMMETRY FileSymmetry
