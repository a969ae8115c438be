SPECIFICATION WorkerSpec
CONSTANTS
  Requests = {r1, r2}
  Wallets = {w1, w2}
  Server = server
  Nobody = nobody
  Slots = {1, 2}
  MaxMargin = 1
  MaxChanges = 0
  Handlers = {"open", "close", "depositSol", "details", "positions"}
  Listed <- Perps
  Traded = {0, 2}
  Orders <- PerpOrders
  Closers = {c1, c2}
  Whole = Whole
  CloseSizes = {Whole, 0, 1}
  Length = 2
  MaxBase = 2
  MaxFunds = 1
  MaxMoves = 3
  MaxBegun = 2
  Mints = {"sol", "usdc"}
  Holdings = 2
  Native = "sol"
  MaxTransfers = 1
SYMMETRY WorkerSymmetry
INVARIANTS TypeOK ActsForItsOwnWallet RestoredAtRest InstructionsForOwnWallet
  LockedReadsOwnMargin MissingAccountIsCreated CloseKeepsItsOrder
  DetailsTellTheAccount ShownCanBeClosed
  BalancesAddUp
PROPERTIES ClosesOnlyReduce
