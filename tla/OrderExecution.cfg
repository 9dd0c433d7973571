CONSTANTS
  Key = {k1}
  Body = {b1, b2}
  Flow = {f1, f2}
  Qty = 1
  DriftLimit = 0
  MaxRequests = 2
  MaxFaults = 1
  MaxCrashes = 1
  Qtys = {1, 2}
  Market <- FallAndRise
  Quotes = {8, 16, 30}
  StopPct = 20
  TakePct = 50
  MaxHold = 2
  MaxOrders = 2
  MaxFills = 4
  MaxLost = 1
  MaxExternal = 1
SPECIFICATION OrdersSpec
SYMMETRY Symmetry
INVARIANTS
  TypeOK
  RecordedBeforeSent
  OneOrderPerKey
  TerminalStatusIsTrue
  HaltedIsUnsent
  BasisIsOfTheLot
  OrderlyFillsAreVerified
  LossIsStopped
