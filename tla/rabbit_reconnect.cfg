SPECIFICATION DriverFairSpec
CONSTANTS
  k1 = k1
  k2 = k2
  Ticks <- TwoTicks
  MaxChannels = 6
  MaxConsumers = 6
  MaxRetries = 1
  MaxLosses = 2
INVARIANTS
  DriverTypeOK
  NoStrayConsumer
PROPERTIES
  ReaderReturns
