SPECIFICATION Spec
CONSTANTS
  Equity = 100
  Pnl <- MCPnl
  Cfg <- GivebackCfg
  MaxTrades = 1
INVARIANTS ArmedAboveTarget BracketedWhileArmed
PROPERTY HaltLatch
