\* One agreement of up to three seats, decided on by every client, the
\* beneficiary and two payers losing and regaining their holding, two admins,
\* batches of two.
SPECIFICATION FairSpec
CONSTANTS
  op1 = op1
  p1 = p1
  p2 = p2
  p3 = p3
  ben = ben
  ver = ver
  h1 = h1
  App = App
  ZeroAddress = ZeroAddress
  ZeroHash = ZeroHash
  Account <- MCAccount
  Hash = {h1}
  Operators = {op1, ver}
  Payers = {p1, p2, p3}
  Fickle = {p1, p2, ben}
  Offers <- PoolOffers
  Payments <- MCPayments
  Funds = 2
  Funding = 0
  MinFees = {1}
  InitialFee = 1
  BoxFlat = 2
  SeatMbr = 1
  SeatsCeiling = 3
  BatchCeiling = 2
  MaxAgreements = 1
  MaxTime = 2
  SharePrice = 1
  Seats = 3
  Margin = 1
  Drift = 1
INVARIANTS
  TypeOK
  ReleaseOrExpire
  NoTrappedShare
  Accounting
  ButtonsAreRight
  ExpireGuardExact
  SoldIsJoinable
PROPERTIES
  ClosedOwesNobody
  EveryAgreementDecided
  EveryPayerRefunded
