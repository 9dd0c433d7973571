CONSTANTS
  claude = claude
  local = local
  fallback = fallback
  stock = stock
  coin = coin
  None = None
  Provider = {claude, local, fallback}
  Default = claude
  Fallback = fallback
  Wanted = {local}
  ReadOnly = {fallback}
  ErrorThreshold = 1
  Session = {s1, s2}
  Symbol = {stock, coin}
  Crypto = {coin}
  Number = {100}
  Claimed = {101}
  Order <- Proposed
  Reading = {"get_quote", "get_news", "get_positions"}
  Failing = {"get_news"}
  Holdings <- Portfolios
  Vendor <- Vendors
  Configured = {"anthropic", "local"}
  Watchlists <- Selections
  Closes <- Traded
  Tolerance = 1
  MaxTurns = 2
  MaxCalls = 2
  MaxEvents = 1
  MaxSwitches = 1
SPECIFICATION Spec
SYMMETRY Symmetry
INVARIANTS
  EvidenceIsOwn
  OneProvider
  LogTellsTheOrders
CHECK_DEADLOCK FALSE
