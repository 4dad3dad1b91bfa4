SPECIFICATION Spec
CONSTANTS
  c1 = c1
  c2 = c2
  p1 = p1
  p2 = p2
  Charges <- TwoCharges
  Sizes <- OneThree
  Purchases <- TwoPurchases
  Amounts <- OneTwo
  Cap = 3
  FreeLimits <- One
  MaxUpdates = 1
  MaxMonths = 1
  MaxFaults = 1
INVARIANTS
  TypeOK
  ChargesBalance
  CapHeld
PROPERTIES
  DrawsKeepRules
  LedgerKept
SYMMETRY Symmetry
CHECK_DEADLOCK FALSE
