SPECIFICATION Spec
CONSTANTS
  s1 = s1
  s2 = s2
  Symbols = {s1, s2}
  Prices <- MCPrices
  Candles <- MCCandles
  Accounts <- MCAccounts
  Cfg <- TrailGiveback
  Equity = 100
  Pnl <- MCPnl
  Outcomes = {"filled"}
  MaxTrades = 2
  MaxFaults = 0
  NoBars = NoBars
  NoTrade = NoTrade
INVARIANTS BooksMatchBroker FlatWhenToldToFlatten
PROPERTIES ForceCloseHonoured DayEndsFlat ImplementsCircuitBreaker
