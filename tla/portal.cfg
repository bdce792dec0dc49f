SPECIFICATION Spec
CONSTANTS
  Process = {p1, p2, p3}
  u1 = u1
  User = {u1}
  First = First
  None = None
  Request <- MCRequest
  Opening <- MCOpening
  RetryLimit = 3
  MaxFaults = 1
  MaxWindow = 1
SYMMETRY Symmetry
CHECK_DEADLOCK FALSE
INVARIANTS
  TypeOK
  NeverStranded
  ResetLinkUsedOnce
  LockedForCause
  NobodyThrownOut
