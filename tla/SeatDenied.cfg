\* A seat bought, read behind the chain.
SPECIFICATION Spec
CONSTANTS
  None = None
  p = p
  q = q
  w = w
  v = v
  Pool = {p}
  Wallet = {w}
  InitialRecord <- OnSale
  Seats = 2
  Validity = 1
  Lag = 1
  BatchCeiling = 1
  Poor = {}
  Does = {"buy"}
  MaxRound = 3
  MaxCalls = 0
  MaxTasks = 2
INVARIANT
  SeatNotDenied
CHECK_DEADLOCK FALSE
