\* Two agreements at two prices sharing the application account, holdings lost
\* and regained, while the protocol raises its minimum fee: calls that cannot
\* pay their inner transactions abort as a whole.
SPECIFICATION Spec
CONSTANTS
  op1 = op1
  p1 = p1
  p2 = p2
  p3 = p3
  ben = ben
  ver = ver
  h1 = h1
  App = App
  ZeroAddress = ZeroAddress
  ZeroHash = ZeroHash
  Account <- MCAccount
  Hash = {h1}
  Operators = {op1}
  Payers = {p1, p2}
  Fickle = {p1, p2, ben}
  Offers <- PairOffers
  Payments <- MCPayments
  Funds = 3
  Funding = 1
  MinFees = {1, 2}
  InitialFee = 1
  BoxFlat = 2
  SeatMbr = 1
  SeatsCeiling = 2
  BatchCeiling = 2
  MaxAgreements = 2
  MaxTime = 1
PROPERTIES
  KeepsPromise
INVARIANTS
  Conserved
