\* One conversation with a server that is restarted with good and bad settings,
\* two pools of two seats, and another buyer beside it.
SPECIFICATION SpecSettlement
CONSTANTS
  a = a
  b = b
  f = f
  App = App
  Garbage = Garbage
  Account = {a, b, f}
  Client = {a}
  FeePayer = f
  Pool = {1, 2}
  Price <- MCPrice
  Seats <- MCSeats
  Deadline <- MCDeadline
  Funds = 2
  Groups <- MCGroups
  Rivals <- MCRivals
  Direct <- MCDirect
  Handmade <- MCHandmade
  Inputs <- MCInputs
  Env <- MCEnv
  MaxTime = 1
  Drift = 1
INVARIANTS
  OneTransferOneSeat
  SettledHoldsSeat
PROPERTIES
  NothingStranded
  OfferIsPayable
  ReceiptFailsOnlyIf
