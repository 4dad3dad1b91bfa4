SPECIFICATION FairSpec
CONSTANTS
  f = f
  a = a
  w1 = w1
  Cids <- TwoCids
  Rows <- FolderAndFile
  Workers <- OneWorker
  BatchSize = 2
  MaxFaults = 1
INVARIANTS
  TypeOK
  NoneUnrecoverable
  RowsTellTruth
  OwnNodesArchived
PROPERTIES
  ObjectsEnd
CHECK_DEADLOCK FALSE
