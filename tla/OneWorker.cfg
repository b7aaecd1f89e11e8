\* One worker that may crash, time out and lose ids to the operator's scripts.
SPECIFICATION Spec
CONSTANTS
  Process = {w1}
  Request = {r1, r2}
  Source = {s1}
  PerMinute = 2
  Minute = 1
  File = {f1, f2}
  Nobody = Nobody
  Outsider = Outsider
  Window = 1
  MaxUnfunded = 2
  MaxAgreements = 2
  MaxTime = 1
  Faults = {"crash", "timeout", "elsewhere"}
SYMMETRY Interchangeable
INVARIANTS
  TypeOK
  OrphanIsFindable
  OneQuotePerFile
  QuoteIsReal
  ChargedHoldsJob
  StuckJobOwesNobody
PROPERTY LiveQuoteIsTaken
CHECK_DEADLOCK FALSE
