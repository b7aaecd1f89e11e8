\* Two agreements, the minimum fee rising between create_agreement and close.
SPECIFICATION LedgerSpec
CONSTANTS
  op1 = op1
  p1 = p1
  p2 = p2
  p3 = p3
  ben = ben
  ver = ver
  h1 = h1
  App = App
  ZeroAddress = ZeroAddress
  ZeroHash = ZeroHash
  Account <- MCAccount
  Hash = {h1}
  Operators = {op1}
  Payers = {p1, p2}
  Fickle = {p1, ben}
  Offers <- PairOffers
  Payments <- MCPayments
  Funds = 3
  Funding = 0
  MinFees = {1, 2}
  InitialFee = 1
  BoxFlat = 2
  SeatMbr = 1
  SeatsCeiling = 2
  BatchCeiling = 2
  MaxAgreements = 2
  MaxTime = 1
INVARIANTS
  OwnDeposit
