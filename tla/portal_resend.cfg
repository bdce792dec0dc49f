SPECIFICATION Spec
CONSTANTS
  Process = {p1, p2, p3}
  u1 = u1
  User = {u1}
  First = First
  None = None
  Request <- MCInvitations
  Opening <- MCOpening
  RetryLimit = 3
  MaxFaults = 0
  MaxWindow = 1
SYMMETRY Symmetry
CHECK_DEADLOCK FALSE
INVARIANTS
  InvitationArrives
