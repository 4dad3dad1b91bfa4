SPECIFICATION FairSpec
CONSTANTS
  u1 = u1
  u2 = u2
  folder = folder
  h1 = h1
  h2 = h2
  a = a
  f = f
  Uploads <- BothUploads
  Objects <- OneObject
  ObjectOf <- SameFolder
  Cids <- BothCids
  Content <- Trees
  Recorded <- OneObject
  Handlers <- TwoHandlers
  BatchSize = 2
  MaxQueued = 1
  MaxFaults = 1
INVARIANTS
  TypeOK
  NoNodeLost
  NoDuplicateNode
PROPERTIES
  PublishedNodesKept
  UploadsArrive
CHECK_DEADLOCK FALSE
