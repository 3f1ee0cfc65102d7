SPECIFICATION LiveSpec
CONSTANTS
  c1 = c1
  c2 = c2
  s1 = s1
  w1 = w1
  w2 = w2
  k1 = k1
  k2 = k2
  r0 = r0
  r1 = r1
  r2 = r2
  Proc = {c1, s1}
  Server = {s1}
  Worker = {w1, w2}
  ProcOf <- CommandAndServer
  Key = {k1}
  Result = {r2}
  Batches <- MCBatches
  Cols <- MCCols
  Faults = {"schema", "select", "scan", "drop", "delete", "create", "insert", "record", "purge", "crash"}
  None = None
INVARIANTS
  VisibleIsWhole
PROPERTIES
  EveryRequestEnds
  WriteLockReleased
