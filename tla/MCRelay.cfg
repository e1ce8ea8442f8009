SPECIFICATION Spec
CONSTANTS
  c1 = c1
  c2 = c2
  b1 = b1
  b2 = b2
  a1 = a1
  a2 = a2
  w1 = w1
  r1 = r1
  Conns = {c1, c2}
  Bots = {b1, b2}
  Accounts = {a1, a2}
  Clients = {w1}
  Requests = {r1}
  NoBot = NoBot
  NoCall = NoCall
  NoOne = NoOne
INVARIANTS RoutesInverse AccountIndex SubscribersScoped PendingCalls
PROPERTIES ImplementsRpcService LostBotsLeave
CHECK_DEADLOCK FALSE
