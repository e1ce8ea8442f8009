SPECIFICATION Spec
CONSTANTS
  s1 = s1
  s2 = s2
  Symbols = {s1}
  Prices <- MCPrices
  Candles <- MCCandles
  Accounts <- MCAccounts
  Cfg <- TrailGiveback
  Equity = 100
  Pnl <- MCPnl
  Outcomes = {"filled", "ended"}
  MaxTrades = 2
  MaxFaults = 1
  NoBars = NoBars
  NoTrade = NoTrade
INVARIANT FlattenSellsAll
