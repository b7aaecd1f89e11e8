\* One pool under refund, and two wallets that take turns on the page.
SPECIFICATION Spec
CONSTANTS
  None = None
  p = p
  q = q
  w = w
  v = v
  Pool = {p}
  Wallet = {w, v}
  InitialRecord <- Shared
  Seats = 2
  Validity = 1
  Lag = 1
  BatchCeiling = 1
  Poor = {}
  Does = {"act", "browse", "connect"}
  MaxRound = 2
  MaxCalls = 1
  MaxTasks = 2
INVARIANTS
  LockHolds
  PollsWhileOwed
PROPERTY ReleaseShowsCall
CHECK_DEADLOCK FALSE
