SPECIFICATION FairSpec
CONSTANTS
  s1 = s1
  s2 = s2
  t1 = t1
  t2 = t2
  Accounts <- TwoAccounts
  Calls <- OneCall
  Priority <- Prefer
  Depth = 1
  Slots = 2
  Turns = 2
  MaxFaults = 2
INVARIANTS
  TypeOK
  PublishedIsDurable
  NoncesSound
PROPERTIES
  EventuallyPublished
CHECK_DEADLOCK FALSE
