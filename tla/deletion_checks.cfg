SPECIFICATION FairSpec
CONSTANTS
  c1 = c1
  c2 = c2
  c3 = c3
  w1 = w1
  w2 = w2
  Calls <- TwoCalls
  Checks <- TwoChecks
  Renewed <- OnlyCredits
  MaxRows = 2
  MaxFaults = 2
INVARIANTS
  TypeOK
  ErasureFollowsRequest
PROPERTIES
  DeletionEnds
CHECK_DEADLOCK FALSE
