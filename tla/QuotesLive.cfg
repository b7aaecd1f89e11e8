\* Every request is answered although calls fail, groups linger and the worker dies.
SPECIFICATION FairSpec
CONSTANTS
  Process = {w1}
  Request = {r1, r2}
  Source = {s1, s2}
  PerMinute = 1
  Minute = 2
  File = {f1}
  Nobody = Nobody
  Outsider = Outsider
  Window = 1
  MaxUnfunded = 1
  MaxAgreements = 2
  MaxTime = 2
  Faults = {"crash", "timeout", "late"}
INVARIANT CeilingHolds
PROPERTIES
  EveryRequestAnswered
  LimitedOnlyIf
CHECK_DEADLOCK FALSE
