\* A create group is confirmed after the worker stopped waiting for it.
SPECIFICATION Spec
CONSTANTS
  Process = {w1}
  Request = {r1, r2}
  Source = {s1}
  PerMinute = 2
  Minute = 1
  File = {f1, f2}
  Nobody = Nobody
  Outsider = Outsider
  Window = 1
  MaxUnfunded = 1
  MaxAgreements = 2
  MaxTime = 1
  Faults = {"timeout", "late"}
SYMMETRY Interchangeable
INVARIANT OrphanIsFindable
CHECK_DEADLOCK FALSE
