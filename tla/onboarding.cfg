SPECIFICATION Spec
CONSTANTS
  o1 = o1
  o2 = o2
  e1 = e1
  e2 = e2
  e3 = e3
  g1 = g1
  g2 = g2
  g3 = g3
  g4 = g4
  r1 = r1
  Process = {p1, p2, p3}
  First = First
  None = None
  Office = {o1, o2}
  Email = {e1, e2, e3}
  Code = {g1, g2, g3, g4}
  Ref = {r1}
  Request <- MCRequest
  Prefix <- MCPrefix
  OpeningCustomers <- MCCustomers
  OpeningLedgers <- MCLedgers
  PoolSize = 2
  NumberSpace = 10
SYMMETRY Symmetry
CHECK_DEADLOCK FALSE
INVARIANTS
  TypeOK
  AllOrNothing
  NumbersStayClose
  StuckOnlyOnThePool
