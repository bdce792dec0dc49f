SPECIFICATION Spec
CONSTANTS
  p1 = p1  p2 = p2  p3 = p3  p4 = p4
  n1 = n1  n2 = n2  a1 = a1  a2 = a2
  gControl = gControl  gLoan = gLoan  gFee = gFee
  r1 = r1  r2 = r2
  None = None
  Proc = {p1, p2, p3}
  Loan = {n1, n2}
  Account <- MCAccount
  Gl <- MCGl
  Known = {a1, a2, gControl, gLoan, gFee}
  ControlGl <- MCControlGl
  FeeGl <- MCFeeGl
  LoanAccount = {}
  DirectGls = {gLoan, gFee}
  Lien = {}
  LienAccount <- NoLegs
  LienAmount <- NoLegs
  LienRef <- NoLegs
  LienExpires = {}
  Ref = {r1, r2}
  MaxItems = 100
  BigDP = 0
  FkDeferred = TRUE
  Request <- LifecycleRequests
  LoanRef <- MCLoanRef
  Owned = {a1, a2}
  OpeningRow <- MCOpeningRow
  OpeningDetail <- MCOpeningDetail
  OpeningAccount <- MCOpeningAccount
PROPERTIES
  OnlyPendingLoansChange
