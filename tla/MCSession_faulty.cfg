SPECIFICATION Spec
CONSTANTS
  s1 = s1
  s2 = s2
  Symbols = {s1, s2}
  Prices <- FlatPrices
  Candles <- FlatCandles
  Accounts <- MCAccounts
  Cfg <- TrailStop
  Equity = 100
  Pnl <- MCPnl
  Outcomes = {"filled", "doubled", "ended", "refused", "unanswered"}
  MaxTrades = 2
  MaxFaults = 1
  NoBars = NoBars
  NoTrade = NoTrade
INVARIANTS TypeOK ExitAccounting
PROPERTIES DayCompletes BuysInTime
