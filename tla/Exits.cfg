CONSTANTS
  Entries <- Buys
  MaxOrders = 3
  MaxShares = 1
  MaxFaults = 1
SPECIFICATION FairSpec
INVARIANTS
  OneCloseAtATime
  AgentNeverOversells
PROPERTIES
  StopLossIsEvaluated
