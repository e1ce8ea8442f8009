SPECIFICATION Spec
CONSTANTS
  Launched = {p1, p2}
  MaxChecks = 2
  MaxInstalls = 2
  MaxWrong = 0
  MaxInflight = 1
  MaxFaults = 3
INVARIANT CollectedIsValid
PROPERTIES SettingsSurvive BotComesBack BotIsReachable
CHECK_DEADLOCK FALSE
