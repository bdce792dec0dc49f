SPECIFICATION Spec
CONSTANTS
  w1 = w1  w2 = w2
  n1 = n1  n2 = n2  a1 = a1  a2 = a2
  gControl = gControl  gLoan = gLoan  gIncome = gIncome  gClosed = gClosed
  None = None
  Loan = {n1, n2}
  Worker = {w1, w2}
  Account <- MCAccount
  Gl <- MCGl
  Known = {a1, gControl, gLoan, gIncome}
  ControlGl <- MCControlGl
  FeeGl <- MCFeeGl
  LoanAccount = {}
  DirectGls = {gLoan, gIncome}
  Lien = {}
  LienAccount <- NoLegs
  LienAmount <- NoLegs
  LienRef <- NoLegs
  LienExpires = {}
  Ref = {}
  MaxItems = 100
  BigDP = 0
  FkDeferred = TRUE
  Instalment <- MCInstalment
  Principal <- MCPrincipal
  Strategy <- MCStrategy
  PayFrom <- MCPayFrom
  LoanGl <- MCLoanGl
  IncomeGl <- MCIncomeGl
  LoanFeeGl <- MCLoanFeeGl
  OpeningRow <- MCOpeningRow
  ServedCrons = {"HandleLienExpiration", "HandleLoanRepayment"}
  MaxStalled = 1
  Change <- MCChange
  LastDay = 1
  MaxChanges = 1
  MaxFaults = 1
INVARIANTS
  TypeOK
  BooksAgree
  CollectedInOrder
  ClosedMeansPaid
PROPERTIES
  RestrictionHonoured
  ImplementsDebtLedger
