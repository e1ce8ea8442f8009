SPECIFICATION Spec
CONSTANTS
  Grace = 3
  Interval = 2
  LastEvent = 2
  LastFault = 8
  MaxTime = 10
  MaxFaults = 3
INVARIANTS StopsInTime AllowedIsBacked DashboardAgrees
PROPERTY EndedIsBlocked
CHECK_DEADLOCK FALSE
