SPECIFICATION Spec
CONSTANTS
  Requests = {r1, r2}
  Wallets = {w1, w2}
  Server = server
  Nobody = nobody
  Slots = {1}
  MaxMargin = 0
  MaxChanges = 0
  Handlers = {"positions", "isolatedBalance"}
INVARIANTS PositionsReadOwnMargin
