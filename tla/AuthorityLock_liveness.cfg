SPECIFICATION ProgressSpec
CONSTANTS
  Requests = {r1, r2}
  Wallets = {w1}
  Server = server
  Nobody = nobody
  Slots = {1, 2}
  MaxMargin = 1
  MaxChanges = 0
  Handlers = {"close", "transferIn", "transferOut", "details"}
  LIMIT = 3
  MaxChecks = 5
  MaxRefreshes = 2
INVARIANTS OvershootIsTheOverlap
PROPERTIES EveryRequestAnswered ChecksEnd
