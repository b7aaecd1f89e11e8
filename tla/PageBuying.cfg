\* A last seat bought, from a page that browses two pools while its wallet
\* comes and goes.
SPECIFICATION Spec
CONSTANTS
  None = None
  p = p
  q = q
  w = w
  v = v
  Pool = {p, q}
  Wallet = {w}
  InitialRecord <- OnSale
  Seats = 2
  Validity = 1
  Lag = 0
  BatchCeiling = 1
  Poor = {}
  Does = {"buy", "browse", "find", "connect", "disconnect"}
  MaxRound = 3
  MaxCalls = 0
  MaxTasks = 2
INVARIANTS
  ReadingIsOfScreen
  SpinnerHasReader
  ScreenFollowsUrl
  OneQuestionAtATime
CHECK_DEADLOCK FALSE
