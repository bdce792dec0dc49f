SPECIFICATION Spec
CONSTANTS
  p1 = p1  p2 = p2  p3 = p3
  a1 = a1  a2 = a2  aLoan = aLoan  aGone = aGone
  gControl = gControl  gFee = gFee
  l0 = l0  l1 = l1  l2 = l2
  r1 = r1  r2 = r2  r3 = r3
  None = None
  Proc = {p1, p2, p3}
  Account <- MCAccount
  Gl <- MCGl
  Known <- MCKnown
  ControlGl <- MCControlGl
  FeeGl <- MCFeeGl
  LoanAccount <- MCLoanAccount
  DirectGls <- MCDirectGls
  Lien <- MCLien
  LienAccount <- MCLienAccount
  LienAmount <- MCLienAmount
  LienRef <- MCLienRef
  LienExpires <- MCLienExpires
  Ref <- MCRef
  MaxItems = 3
  BigDP = 0
  FkDeferred = TRUE
  Request <- CoreRequests
  OpeningRow <- MCOpeningRow
  OpeningLiens <- MCOpeningLiens
INVARIANTS TypeOK Solvent HoldsMatchLiens JournalsBalance ControlReconciled OnePostingPerReference SnapshotsCurrent LocksHeld
PROPERTIES ImplementsAtomicBank RequestsAnswered
