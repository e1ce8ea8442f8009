SPECIFICATION Spec
CONSTANTS
  w1 = w1
  w2 = w2
  Workers = {w1, w2}
  Loop = Loop
  InitialRows <- FreshRows
  Patches <- MCPatches
  BaseCfg <- MCBase
  MaxFaults = 1
  NoRow = NoRow
  Bad = Bad
  Idle = Idle
  NoConn = NoConn
  NoCfg = NoCfg
INVARIANTS TypeOK RequestKept TradeRiskWithinDay AcceptedIsKept
PROPERTY ScanHonoured
