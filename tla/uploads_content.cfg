SPECIFICATION Spec
CONSTANTS
  r1 = r1
  r2 = r2
  r3 = r3
  r4 = r4
  p1 = p1
  p2 = p2
  a = a
  b = b
  Free = Free
  Requests <- FourRequests
  Procs <- OneProc
  NParts = 3
  Data <- TwoData
  ChunkSize = 2
  MaxFaults = 1
  Slow = FALSE
  Ordered = TRUE

  
PROPERTIES
  CompletionCoversParts
SYMMETRY Symmetry
CHECK_DEADLOCK FALSE
