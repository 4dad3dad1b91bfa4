SPECIFICATION Spec
CONSTANTS
  k1 = k1
  k2 = k2
  c1 = c1
  c2 = c2
  x1 = x1
  r1 = r1
  r2 = r2
  r3 = r3
  None = None
  Keys <- TwoKeys
  Contents <- TwoContents
  Shared <- OneShared
  Multiparts <- OneMultipart
  Requests <- ThreeRequests
  MaxFaults = 0
INVARIANTS
  DeletionSparesOtherNames
SYMMETRY Symmetry
CHECK_DEADLOCK FALSE
