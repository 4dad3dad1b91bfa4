SPECIFICATION Spec
CONSTANTS
  r1 = r1
  r2 = r2
  r3 = r3
  r4 = r4
  p1 = p1
  p2 = p2
  a = a
  b = b
  Free = Free
  Requests <- ThreeRequests
  Procs <- TwoProcs
  NParts = 2
  Data <- OneDatum
  ChunkSize = 2
  MaxFaults = 1
  Slow = TRUE
  Ordered = FALSE
INVARIANTS
  TypeOK
  OnceChargedAndNamed
  NothingLeftHeld
SYMMETRY Symmetry
CHECK_DEADLOCK FALSE
