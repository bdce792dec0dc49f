SPECIFICATION Spec
CONSTANTS
  w1 = w1  w2 = w2
  n1 = n1  n2 = n2  a1 = a1  a2 = a2
  gControl = gControl  gLoan = gLoan  gIncome = gIncome  gClosed = gClosed
  None = None
  Loan = {n1, n2}
  Worker = {w1}
  Account <- DueAccount
  Gl <- DueGl
  Known = {a1, gControl, gLoan, gClosed}
  ControlGl <- DueControlGl
  FeeGl <- DueFeeGl
  LoanAccount = {}
  DirectGls = {gLoan}
  Lien = {}
  LienAccount <- NoLegs
  LienAmount <- NoLegs
  LienRef <- NoLegs
  LienExpires = {}
  Ref = {}
  MaxItems = 100
  BigDP = 0
  FkDeferred = TRUE
  Instalment <- DueInstalment
  Principal <- DuePrincipal
  Strategy <- DueStrategy
  PayFrom <- DuePayFrom
  LoanGl <- DueLoanGl
  IncomeGl <- DueIncomeGl
  LoanFeeGl <- DueLoanFeeGl
  OpeningRow <- DueOpeningRow
  ServedCrons = {"HandleLienExpiration", "HandleLoanRepayment"}
  MaxStalled = 1
  Change <- DueChange
  LastDay = 1
  MaxChanges = 1
  MaxFaults = 2
INVARIANTS
  BooksAgree
PROPERTIES
  DueIsCollected
