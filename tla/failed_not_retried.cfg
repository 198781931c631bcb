SPECIFICATION Spec
CONSTANTS
  w1 = w1
  w2 = w2
  p1 = p1
  p2 = p2
  f1 = f1
  f2 = f2
  f3 = f3
  Workers = {w1, w2}
  Procs = {p1, p2}
  ProcOf <- SeparateProcesses
  MaxBatches = 1
  Files = {f1}
  MaxFiles = 1
  MaxRetries = 3
  MaxCrashes = 0
  MaxClears = 1
INVARIANTS
  FailedIsRetried
