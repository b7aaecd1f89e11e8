\* A refund call nobody sees confirm, under a network that answers in the end.
SPECIFICATION FairSpec
CONSTANTS
  None = None
  p = p
  q = q
  w = w
  v = v
  Pool = {q}
  Wallet = {w}
  InitialRecord <- Refunding
  Seats = 2
  Validity = 1
  Lag = 0
  BatchCeiling = 1
  Poor = {w}
  Does = {"act"}
  MaxRound = 3
  MaxCalls = 1
  MaxTasks = 2
PROPERTY
  UnconfirmedReleased
CHECK_DEADLOCK FALSE
