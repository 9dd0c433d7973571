CONSTANTS
  Symbols = {"listed", "unlisted"}
  Restricted = {}
  MaxNotional = 15
  MaxPositionPct = 60
  MaxTotalPct = 60
  DailyLossLimit <- LossLimit
  MaxDayTrades = 3
  SanityPct = 10
  PdtFloor = 55
  Requests = {r1}
  Orders <- Asked
  Unlisted = {"unlisted"}
  Prices = {10, 11}
  Worlds <- Holdings
  Cash = 60
  Amounts = {5}
  Percents = {100}
  Trades <- Others
  MaxMoves = 1
  MaxTrades = 1
  MaxWithdrawals = 1
SPECIFICATION Spec
PROPERTIES
  LimitsHold
  WindDownShrinks
  WithdrawalIsNoLoss
  ClosingIsNotBlocked
CHECK_DEADLOCK FALSE
