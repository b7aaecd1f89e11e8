\* Two shells and two runs among all the scripts' command lines, two
\* agreements, two payers, one of whom loses and regains the holding as the
\* treasury does, two clock ticks.
SPECIFICATION SpecOperators
CONSTANTS
  op1 = op1
  p1 = p1
  p2 = p2
  p3 = p3
  ben = ben
  ver = ver
  h1 = h1
  h2 = h2
  c1 = c1
  c2 = c2
  s1 = s1
  s2 = s2
  App = App
  ZeroAddress = ZeroAddress
  ZeroHash = ZeroHash
  Account <- MCAccount
  Hash = {h1, h2}
  Operators = {op1}
  Payers = {p1, p2}
  Fickle = {p2, ben}
  Offers = {}
  Payments <- Transfers
  Funds = 2
  Funding = 0
  MinFees = {1}
  InitialFee = 1
  BoxFlat = 2
  SeatMbr = 1
  SeatsCeiling = 2
  BatchCeiling = 1
  MaxAgreements = 2
  MaxTime = 2
  SharePrice = 1
  Seats = 2
  Margin = 1
  Drift = 1
  Shell = {s1, s2}
  Scenes <- MCScenes
  Network = "testnet"
  MeasuredCeiling = 2
  Day = 2
  Minute = 1
  DefaultDays = 1
  VerifyAttempts = 2
  Bundle <- MCBundle
  Keys <- MCKeys
  Treasury = ben
  Verifier = ver
CHECK_DEADLOCK FALSE
INVARIANTS
  OnePoolUnlessRaced
  CallsRefusedOnlyIf
  DrainKnowsItsWay
  LinkKept
