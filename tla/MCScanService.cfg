SPECIFICATION Spec
CONSTANTS
  N = 3
  Quotes <- MCQuotes
  Floats <- MCFloats
  Cfg <- MCCfg
  HasKey = TRUE
  DayLength = 4
  Open = 1
  Hours = 3
  Days = 2
  MaxScans = 2
INVARIANTS ActiveAreTheMovers RolesAgree
PROPERTIES AskedOnce RankedFresh
CHECK_DEADLOCK FALSE
