SPECIFICATION Spec
CONSTANTS
  a1 = a1
  l0 = l0  l1 = l1  l2 = l2
  r1 = r1  r2 = r2
  Account = {a1}
  Lien = {l0, l1, l2}
  LienAccount <- MCLienAccount
  LienAmount <- MCLienAmount
  LienRef <- MCLienRef
  LienExpires = {l0, l1}
  OpeningBook <- MCOpeningBook
  OpeningHold <- NothingHeld
  OpeningLiens = {}
  BigDP = 0
  BatchSize = 1
  MaxStalled = 1
  MaxFaults = 2
INVARIANTS TypeOK
PROPERTIES NeverVoidedEarly ImplementsAtomicBank LiftedUnlessStuck
