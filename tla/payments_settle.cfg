SPECIFICATION FairSpec
CONSTANTS
  i1 = i1
  u1 = u1
  t1 = t1
  t2 = t2
  c1 = c1
  c2 = c2
  w1 = w1
  w2 = w2
  k1 = k1
  k2 = k2
  NoTx = NoTx
  NoRow = NoRow
  NoCall = NoCall
  Intents <- OneIntent
  Users <- OneUser
  Txs <- OneTx
  Prices <- OnePrice
  Amounts <- TwoAmounts
  Calls <- OneCall
  Watchers <- OneWatcher
  Ticks <- OneTick
  MaxRetries = 1
  MaxFaults = 2
PROPERTIES
  PaymentsSettle
CHECK_DEADLOCK FALSE
