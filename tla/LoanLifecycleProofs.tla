------------------------- MODULE LoanLifecycleProofs -------------------------
(***************************************************************************)
(* For any loans, requests and amounts: what a loan is paid by are terms   *)
(* it had while it was approved, and it is paid once, however approvals,   *)
(* updates, undos and disbursements of it overlap; to everybody else the   *)
(* payment is one step; and requests deadlock only where the orders in     *)
(* which they lock their rows cross.                                       *)
(***************************************************************************)
EXTENDS LoanLifecycle, SumTheorems, FiniteSetTheorems, SequenceTheorems, TLAPS

-----------------------------------------------------------------------------
(* The inductive invariant.                                                  *)

(* The reference of the payment of a loan. *)
Payment(l) == <<LoanRef[l], "", "">>

Working(p) == pc[p] = "work" => job[p] \in Request /\ seen[p] \in Seen

(* A disbursement is built from terms the loan had while it was approved, holds the loan's
   details from its first statement on, and pays only if nobody has paid. *)
Disbursing(p) ==
  LET l == job[p].loan  to == PayTo(job[p], seen[p].detail)
      d == DetailRow(l)  sh == Share(PayFrom(job[p], seen[p].detail))  a == AccountOf(l) IN
  pc[p] = "work" /\ Kind(p) = "disburse" =>
    /\ to \in Account /\ sh \in Shares
    /\ [loan |-> l, terms |-> TermsOf(seen[p].detail)] \in approvedTerms
    /\ todo[p] \in {<<d, to, sh, a>>, <<to, sh, a>>, <<sh, a>>, <<a>>, <<>>}
    /\ todo[p] \in {<<to, sh, a>>, <<sh, a>>, <<a>>, <<>>} => owner[d] = p
    /\ todo[p] \in {<<a>>, <<>>} => Payment(l) \notin transactions

PaidOnce ==
  \A l \in Loan : PaymentsOf(l) # {} \/ SchedulesOf(l) # {} => Payment(l) \in transactions

(* disburseLoan pays by terms it read before its transaction and checks only the
   status again: still they are terms the loan had at some time while approved. *)
OnlyApprovedTermsPaid ==
  \A s \in schedules : [loan |-> s.loan, terms |-> s.terms] \in approvedTerms

Core == TypeOK /\ \A p \in Proc : Working(p) /\ Disbursing(p)
IInv ==
  /\ Core
  /\ Approved(detail) \subseteq approvedTerms
  /\ PaidOnce /\ DisbursedOnce /\ OnlyApprovedTermsPaid

-----------------------------------------------------------------------------
(* Amounts and rows.                                                         *)

(* A rounded amount is a whole number. *)
LEMMA HalfEvenType ==
  ASSUME NEW n \in Int, NEW d \in Nat \ {0}
  PROVE  HalfEven(n, d) \in Int
  <1>1. n \div d \in Int
    OBVIOUS
  <1> QED
    BY <1>1 DEF HalfEven

(* A fee is an amount. *)
LEMMA UpfrontFeeType ==
  ASSUME NEW d \in LoanDetail
  PROVE  UpfrontFee(d) \in Nat
  <1>1. d.principal \in Nat /\ d.charge \in Nat
    BY DEF LoanDetail
  <1>2. d.principal * d.charge \in Nat /\ 10000 * d.charge \in Nat
    BY <1>1
  <1> QED
    BY <1>2 DEF UpfrontFee, FeeFor, FeeUnit

(* The terms of a loan. *)
LEMMA TermsType ==
  ASSUME NEW d \in LoanDetail
  PROVE  TermsOf(d) \in Terms
  BY DEF LoanDetail, TermsOf, Terms

(* What a request names. *)
LEMMA RequestType ==
  ASSUME NEW r \in Request
  PROVE  /\ r.loan \in Loan
         /\ r.kind \in ReviewKinds \cup {"update", "disburse"}
         /\ r.kind = "update" => IsUpdate(r)
         /\ r.kind = "disburse" => IsDisbursement(r)
  BY LoanRequestAssumption DEF ReviewKinds

(* The rows of a loan. *)
LEMMA RowType ==
  ASSUME NEW l \in Loan
  PROVE  DetailRow(l) \in Row /\ AccountOf(l) \in Row
  BY DEF Row

(* The claims of a loan's rows and of a reference are claims, and no row is a reference. *)
LEMMA ClaimType ==
  /\ Row \subseteq Claim /\ Shares \subseteq Claim
  /\ Row \cap Shares = {}
  /\ \A a \in Account, l \in Loan : a # DetailRow(l) /\ a # AccountOf(l)
  /\ \A l, k \in Loan : DetailRow(l) # AccountOf(k)
<1>1. \A a \in Account : Share(a) \notin Account
  BY LoanAssumption DEF Share
<1>2. \A a \in Account, l \in Loan : Share(a) # DetailRow(l) /\ Share(a) # AccountOf(l)
  BY DEF Share, DetailRow, AccountOf
<1>3. \A a \in Account, l \in Loan : a # DetailRow(l) /\ a # AccountOf(l)
  BY LoanAssumption DEF DetailRow, AccountOf
<1>4. \A l, k \in Loan : DetailRow(l) # AccountOf(k)
  BY DEF DetailRow, AccountOf
<1>5. Row \cap Shares = {}
  BY <1>1, <1>2 DEF Row, Shares
<1> QED BY <1>3, <1>4, <1>5 DEF Claim

(* The accounts an update refers to. *)
LEMMA SharesOfType ==
  ASSUME NEW x \in Account \cup {None}
  PROVE  SharesOf(x) \in Seq(Shares)
<1>1. CASE x = None
  BY <1>1 DEF SharesOf
<1>2. CASE x # None
  <2>1. Share(x) \in Shares
    BY <1>2 DEF Shares
  <2> HIDE DEF Share
  <2>2. <<Share(x)>> \in Seq(Shares)
    BY <2>1
  <2> QED BY <1>2, <2>2 DEF SharesOf
<1> QED BY <1>1, <1>2

(* An update locks the loan's account if it changes it, the loan's details, and then only shares. *)
LEMMA UpdatePlanIs ==
  ASSUME NEW r \in Request, r.kind = "update", NEW d, NEW a
  PROVE  \E refs \in Seq(Shares) :
           UpdatePlan(d, a, r) = <<a>> \o (<<d>> \o refs) \/ UpdatePlan(d, a, r) = <<d>> \o refs
<1>1. r.payTo \in Account \cup {None} /\ r.payFrom \in Account \cup {None}
  BY RequestType DEF IsUpdate
<1>2. SharesOf(r.payTo) \in Seq(Shares) /\ SharesOf(r.payFrom) \in Seq(Shares)
  BY <1>1, SharesOfType
<1>3. SharesOf(r.payTo) \o SharesOf(r.payFrom) \in Seq(Shares)
  BY <1>2, ConcatProperties
<1> QED BY <1>3 DEF UpdatePlan

(* The plan of a request names what may be claimed. *)
LEMMA PlanType ==
  ASSUME NEW r \in Request, NEW s \in Seen,
         r.kind = "disburse" => PayTo(r, s.detail) \in Account /\ PayFrom(r, s.detail) \in Account
  PROVE  Plan(r, s) \in Seq(Claim)
  <1> DEFINE d == DetailRow(r.loan)  a == AccountOf(r.loan)  to == PayTo(r, s.detail)
             sh == Share(PayFrom(r, s.detail))
  <1>1. d \in Claim /\ a \in Claim
    BY RequestType, RowType, ClaimType
  <1>2. r.kind = "disburse" => to \in Claim /\ sh \in Claim
    BY DEF Row, Claim, Shares
  <1> HIDE DEF d, a, to, sh
  <1>3. <<a>> \in Seq(Claim) /\ <<d>> \in Seq(Claim) /\ <<a, d>> \in Seq(Claim) /\ <<d, a>> \in Seq(Claim)
    BY <1>1
  <1>4. r.kind = "disburse" => <<d, to, sh, a>> \in Seq(Claim)
    BY <1>1, <1>2
  <1>5. CASE r.kind = "update"
    <2>1. PICK refs \in Seq(Shares) :
            UpdatePlan(d, a, r) = <<a>> \o (<<d>> \o refs) \/ UpdatePlan(d, a, r) = <<d>> \o refs
      BY <1>5, UpdatePlanIs
    <2>2. refs \in Seq(Claim)
      BY <2>1, ClaimType
    <2>3. <<d>> \o refs \in Seq(Claim)
      BY <1>3, <2>2, ConcatProperties
    <2>4. <<a>> \o (<<d>> \o refs) \in Seq(Claim)
      BY <1>3, <2>3, ConcatProperties
    <2> QED BY <1>5, <2>1, <2>3, <2>4 DEF Plan, d, a
  <1>6. ApprovalPlan(d, a, s) \in Seq(Claim)
    BY <1>3 DEF ApprovalPlan
  <1>7. CASE r.kind # "update"
    BY <1>3, <1>4, <1>6, <1>7, RequestType DEF Plan, ReviewKinds, d, a, to, sh
  <1> QED BY <1>5, <1>7

-----------------------------------------------------------------------------
(* The posting of a disbursement.                                            *)

(* Its only party is the account that is paid: the other legs are ledgers. *)
LEMMA PaymentParties ==
  ASSUME NEW r \in Request, r.kind = "disburse", NEW s \in Seen, PayTo(r, s.detail) \in Account
  PROVE  LET pl == PayloadOf(r, s) IN
         /\ DebitAccounts(pl) = {}
         /\ Parties(pl) = {PayTo(r, s.detail)}
  <1> DEFINE pl == PayloadOf(r, s)  to == PayTo(r, s.detail)
             fees == IF HasUpfrontFee(s.detail) /\ FeeGlFor(r, s.detail) # None
                     THEN {FeeGlFor(r, s.detail)} ELSE {}
  <1>1. s.account.gl \in Gl /\ s.detail.feeGl \in Gl \cup {None}
    BY DEF Seen, LoanDetail, LoanAccountRow
  <1>2. r.feeGl \in Gl \cup {None}
    BY RequestType DEF IsDisbursement
  <1>3. fees \subseteq Gl
    BY <1>1, <1>2 DEF FeeGlFor, Given
  <1>4. DOMAIN pl.debits = {s.account.gl} /\ DOMAIN pl.credits = {to} \cup fees
    BY DEF PayloadOf
  <1>5. DebitIds(pl) = {s.account.gl} /\ CreditIds(pl) = {to} \cup fees
    <2>1. pl.operationType = "none"
      BY DEF PayloadOf
    <2> QED
      BY <1>4, <2>1 DEF DebitIds, CreditIds, CustomerSide
  <1> HIDE DEF pl, to, fees
  <1>6. DebitAccounts(pl) = {}
    BY <1>1, <1>5, TenantAssumption DEF DebitAccounts
  <1>7. CreditAccounts(pl) = {to}
    BY <1>3, <1>5, TenantAssumption DEF CreditAccounts, to
  <1> QED
    BY <1>6, <1>7 DEF Parties, pl, to

(* Its reference is the loan's own. *)
LEMMA PaymentRefs ==
  ASSUME NEW r \in Request, r.kind = "disburse", NEW s \in Seen, PayTo(r, s.detail) \in Account
  PROVE  LET pl == PayloadOf(r, s) IN
         /\ TransactionRefs(pl) = {Payment(r.loan)}
         /\ DisbursementRefs(pl) = {Payment(r.loan), <<LoanRef[r.loan], "DEB", "">>}
         /\ JournalOf(pl).reference = LoanRef[r.loan]
  <1> DEFINE pl == PayloadOf(r, s)
  <1>1. pl.referenceNumber = LoanRef[r.loan]
    BY DEF PayloadOf
  <1>2. Cardinality(Parties(pl)) = 1
    BY PaymentParties, FS_Singleton
  <1>3. TransactionRefs(pl) = {Payment(r.loan)}
    BY <1>1, <1>2 DEF TransactionRefs, HasTransactionId, IsSingleAccountToGl, Payment
  <1> QED
    BY <1>1, <1>3 DEF DisbursementRefs, JournalOf

(* It adds a whole number to the balance of the account. *)
LEMMA PaymentType ==
  ASSUME NEW r \in Request, r.kind = "disburse", NEW s \in Seen, PayTo(r, s.detail) \in Account,
         NEW row \in AccountRow
  PROVE  NewBookBalance(PayloadOf(r, s), PayTo(r, s.detail), row) \in Int
  <1> DEFINE pl == PayloadOf(r, s)  to == PayTo(r, s.detail)
             n == FeeUnit * s.detail.principal - UpfrontFee(s.detail)
  <1>1. s.detail \in LoanDetail /\ s.account.gl \in Gl
    BY DEF Seen, LoanAccountRow
  <1>2. n \in Int
    <2>1. s.detail.principal \in Nat
      BY <1>1 DEF LoanDetail
    <2> QED
      BY <1>1, <2>1, UpfrontFeeType DEF FeeUnit
  <1>3. HalfEven(n, FeeUnit) \in Int
    BY <1>2, HalfEvenType DEF FeeUnit
  <1>4. to \notin DOMAIN pl.customerAccounts /\ to \notin DOMAIN pl.debits
    BY <1>1, TenantAssumption DEF PayloadOf, NoLegs
  <1>5. pl.credits[to] = HalfEven(n, FeeUnit)
    BY DEF PayloadOf
  <1>6. AmountOf(pl, to) \in Int
    BY <1>3, <1>4, <1>5 DEF AmountOf
  <1>7. row.bookBalance \in Int
    BY DEF AccountRow
  <1>8. to \notin DebitAccounts(pl)
    BY PaymentParties
  <1> HIDE DEF pl, to, n
  <1> QED
    BY <1>6, <1>7, <1>8 DEF NewBookBalance, pl, to

(* A posting that goes through found its reference free. *)
LEMMA PostedIsFree ==
  ASSUME NEW pl, NEW rows, NEW taken, Verdict(pl, rows, taken) = "ok"
  PROVE  TransactionRefs(pl) \cap taken = {}
  BY DEF Verdict, ReferenceFree

(* How a posting ends. *)
LEMMA VerdictType ==
  ASSUME NEW pl, NEW rows, NEW taken
  PROVE  Verdict(pl, rows, taken) \in {"ok", "threw", "failed"}
  BY DEF Verdict

-----------------------------------------------------------------------------
(* What a step leaves of the other requests.                                 *)

(* The steps that end a request. *)
Ends(p) ==
  \/ RejectDisbursement(p) \/ RollBack(p) \/ DeadlockVictim(p) \/ Crash(p)
  \/ ApproveLoan(p) \/ DeclineLoan(p) \/ UndoApproval(p) \/ ActivateAccount(p)
  \/ UpdateLoanDetails(p) \/ DisburseLoan(p)

(* The steps that take a request one claim further. *)
Moves(p) == Lock(p) \/ ShareKey(p) \/ UndoMisses(p)

(* A step is one of a request, or nobody's. *)
LEMMA NextIs ==
  ASSUME [Next]_vars
  PROVE  \/ \E p \in Proc, r \in Request : Start(p, r)
         \/ \E p \in Proc, r \in Request : Refuse(p, r)
         \/ \E p \in Proc : Moves(p) \/ Ends(p)
         \/ UNCHANGED vars
  BY DEF Next, Work, Moves, Ends, AllAnswered

(* Every request that ends, ends its transaction. *)
LEMMA EndsFinish ==
  ASSUME NEW p \in Proc, Ends(p)
  PROVE  /\ pc[p] = "work"
         /\ \E answer \in {"ok", "threw", "failed", "lost"} : Finish(p, answer)
  <1>1. CASE RejectDisbursement(p)
    BY <1>1 DEF RejectDisbursement, AtClaim
  <1>2. CASE RollBack(p)
    BY <1>2, VerdictType DEF RollBack, PostingFails, AtClaim
  <1>3. CASE DeadlockVictim(p)
    BY <1>3 DEF DeadlockVictim, InWaitCircle, WaitCircle, Waits
  <1>4. CASE Crash(p)
    BY <1>4 DEF Crash
  <1>5. CASE ApproveLoan(p) \/ DeclineLoan(p) \/ UndoApproval(p)
    BY <1>5 DEF ApproveLoan, DeclineLoan, UndoApproval, Committing
  <1>6. CASE ActivateAccount(p) \/ UpdateLoanDetails(p) \/ DisburseLoan(p)
    BY <1>6 DEF ActivateAccount, UpdateLoanDetails, DisburseLoan, Committing
  <1> QED
    BY <1>1, <1>2, <1>3, <1>4, <1>5, <1>6 DEF Ends

(* What a request that ends leaves behind. *)
LEMMA FinishType ==
  ASSUME TypeOK, NEW p \in Proc, NEW answer \in {"ok", "threw", "failed", "lost"}, Finish(p, answer)
  PROVE  /\ owner' \in [Row -> Proc \cup {None}]
         /\ sharing' \in [Proc -> SUBSET Account]
         /\ pc' \in [Proc -> {"idle", "work", "done"}]
         /\ job' \in [Proc -> Request \cup {None}]
         /\ seen' \in [Proc -> Seen \cup {None}]
         /\ todo' \in [Proc -> Seq(Claim)]
         /\ res' \in [Proc -> {"none", "ok", "refused", "threw", "failed", "lost"}]
         /\ pc'[p] = "done"
         /\ \A q \in Proc : q # p =>
              /\ pc'[q] = pc[q] /\ job'[q] = job[q] /\ seen'[q] = seen[q] /\ todo'[q] = todo[q]
              /\ \A row \in Row : owner[row] = q => owner'[row] = q
  <1>1. \A row \in Row : owner'[row] = IF owner[row] = p THEN None ELSE owner[row]
    BY DEF Finish
  <1>2. owner' \in [Row -> Proc \cup {None}] /\ sharing' \in [Proc -> SUBSET Account]
    BY DEF Finish, TypeOK
  <1>3. todo' \in [Proc -> Seq(Claim)]
    <2>1. <<>> \in Seq(Claim)
      OBVIOUS
    <2> QED
      BY <2>1 DEF Finish, TypeOK
  <1>4. /\ pc' \in [Proc -> {"idle", "work", "done"}]
        /\ job' \in [Proc -> Request \cup {None}]
        /\ seen' \in [Proc -> Seen \cup {None}]
    BY DEF Finish, TypeOK
  <1>5. res' \in [Proc -> {"none", "ok", "refused", "threw", "failed", "lost"}]
    BY DEF Finish, TypeOK
  <1>6. pc'[p] = "done"
    BY DEF Finish, TypeOK
  <1>7. \A q \in Proc : q # p =>
          pc'[q] = pc[q] /\ job'[q] = job[q] /\ seen'[q] = seen[q] /\ todo'[q] = todo[q]
    BY DEF Finish, TypeOK
  <1> QED
    BY <1>1, <1>2, <1>3, <1>4, <1>5, <1>6, <1>7

(* What a payment is made with once its rows are locked. *)
LEMMA PaymentIs ==
  ASSUME IInv, NEW p \in Proc, DisburseLoan(p)
  PROVE  LET r == job[p]  s == seen[p]  to == PayTo(r, s.detail) IN
         /\ r \in Request /\ r.kind = "disburse" /\ r.loan \in Loan /\ s \in Seen /\ to \in Account
         /\ Parties(Payload(p)) = {to}
         /\ TransactionRefs(Payload(p)) = {Payment(r.loan)}
         /\ DisbursementRefs(Payload(p)) = {Payment(r.loan), <<LoanRef[r.loan], "DEB", "">>}
         /\ JournalOf(Payload(p)).reference = LoanRef[r.loan]
         /\ Payment(r.loan) \notin transactions
         /\ owner[DetailRow(r.loan)] = p
         /\ [loan |-> r.loan, terms |-> TermsOf(s.detail)] \in approvedTerms
  <1>1. pc[p] = "work" /\ todo[p] = <<>> /\ job[p].kind = "disburse"
    BY DEF DisburseLoan, Committing, Kind
  <1>2. job[p] \in Request /\ seen[p] \in Seen /\ job[p].loan \in Loan
    BY <1>1, RequestType DEF IInv, Core, Working
  <1>3. /\ PayTo(job[p], seen[p].detail) \in Account
        /\ Payment(job[p].loan) \notin transactions
        /\ owner[DetailRow(job[p].loan)] = p
        /\ [loan |-> job[p].loan, terms |-> TermsOf(seen[p].detail)] \in approvedTerms
    BY <1>1 DEF IInv, Core, Disbursing, Kind
  <1> QED
    BY <1>1, <1>2, <1>3, PaymentParties, PaymentRefs DEF Payload

-----------------------------------------------------------------------------
(* Types.                                                                    *)

(* The rows of the loans a request changes. *)
Changes(p) ==
  ApproveLoan(p) \/ DeclineLoan(p) \/ UndoApproval(p) \/ ActivateAccount(p)
    \/ UpdateLoanDetails(p) \/ DisburseLoan(p)

(* A change of a loan is well formed. *)
LEMMA ChangeType ==
  ASSUME IInv, NEW p \in Proc, Changes(p)
  PROVE  /\ detail' \in [Loan -> LoanDetail]
         /\ account' \in [Loan -> LoanAccountRow]
         /\ approvedTerms \subseteq approvedTerms'
         /\ Approved(detail') \subseteq approvedTerms'
         /\ \A t \in approvedTerms' : t.loan \in Loan /\ t.terms \in Terms
  <1> DEFINE r == job[p]  l == job[p].loan  s == seen[p]
  <1>1. pc[p] = "work" /\ r \in Request /\ l \in Loan /\ s \in Seen
    BY RequestType DEF Changes, ApproveLoan, DeclineLoan, UndoApproval, ActivateAccount,
       UpdateLoanDetails, DisburseLoan, Committing, IInv, Core, Working
  <1>2. /\ detail \in [Loan -> LoanDetail] /\ account \in [Loan -> LoanAccountRow]
        /\ detail[l] \in LoanDetail /\ account[l] \in LoanAccountRow
        /\ s.detail \in LoanDetail /\ s.account \in LoanAccountRow
    BY <1>1 DEF IInv, Core, TypeOK, Seen
  <1>3. ASSUME NEW row \in LoanDetail, SetDetail(l, row)
        PROVE  /\ detail' \in [Loan -> LoanDetail]
               /\ approvedTerms \subseteq approvedTerms'
               /\ Approved(detail') \subseteq approvedTerms'
               /\ \A t \in approvedTerms' : t.loan \in Loan /\ t.terms \in Terms
    <2>1. detail' = [detail EXCEPT ![l] = row] /\ detail' \in [Loan -> LoanDetail]
      BY <1>2, <1>3 DEF SetDetail
    <2>2. approvedTerms' = approvedTerms \cup Approved(detail')
      BY <1>3, <2>1 DEF SetDetail
    <2>3. \A t \in Approved(detail') : t.loan \in Loan /\ t.terms \in Terms
      BY <2>1, TermsType DEF Approved
    <2> QED
      BY <2>1, <2>2, <2>3 DEF IInv, Core, TypeOK
  <1>4. ASSUME NEW status \in LoanStatus
        PROVE  [detail[l] EXCEPT !.status = status] \in LoanDetail
    BY <1>2 DEF LoanDetail
  <1>5. CASE ApproveLoan(p)
    <2>1. [detail[l] EXCEPT !.status = "approved"] \in LoanDetail
      BY <1>4 DEF LoanStatus
    <2>2. [account[l] EXCEPT !.status = IF s.account.status = "pending" THEN "active" ELSE @]
            \in LoanAccountRow
      BY <1>2 DEF LoanAccountRow
    <2>3. account' \in [Loan -> LoanAccountRow]
      BY <1>2, <1>5, <2>2 DEF ApproveLoan
    <2> QED
      BY <1>3, <1>5, <2>1, <2>3 DEF ApproveLoan
  <1>6. CASE DeclineLoan(p)
    <2>1. [detail[l] EXCEPT !.status = "declined"] \in LoanDetail
      BY <1>4 DEF LoanStatus
    <2>2. [account[l] EXCEPT !.status = "rejected"] \in LoanAccountRow
      BY <1>2 DEF LoanAccountRow
    <2>3. account' \in [Loan -> LoanAccountRow]
      BY <1>2, <1>6, <2>2 DEF DeclineLoan
    <2> QED
      BY <1>3, <1>6, <2>1, <2>3 DEF DeclineLoan
  <1>7. CASE UndoApproval(p)
    <2>1. [detail[l] EXCEPT !.status = "pending"] \in LoanDetail
      BY <1>4 DEF LoanStatus
    <2>2. [account[l] EXCEPT !.status = "pending"] \in LoanAccountRow
      BY <1>2 DEF LoanAccountRow
    <2>3. account' \in [Loan -> LoanAccountRow]
      BY <1>2, <1>7, <2>2 DEF UndoApproval
    <2>4. \E row \in LoanDetail : SetDetail(l, row)
      BY <1>2, <1>7, <2>1 DEF UndoApproval
    <2> QED
      BY <1>3, <2>3, <2>4
  <1>8. CASE ActivateAccount(p)
    <2>1. [account[l] EXCEPT !.status = "active"] \in LoanAccountRow
      BY <1>2 DEF LoanAccountRow
    <2>2. account' \in [Loan -> LoanAccountRow]
      BY <1>2, <1>8, <2>1 DEF ActivateAccount
    <2> QED
      BY <1>2, <1>8, <2>2 DEF ActivateAccount, IInv, Core, TypeOK
  <1>9. CASE UpdateLoanDetails(p)
    <2>1. IsUpdate(r)
      BY <1>1, <1>9, RequestType DEF UpdateLoanDetails, Committing, Kind
    <2>2. UpdatedDetail(r, detail[l], s.detail) \in LoanDetail
      <3>1. /\ Given(r.principal, detail[l].principal) \in Nat
            /\ Given(r.principal, detail[l].outstanding) \in Nat
            /\ Given(r.charge, detail[l].charge) \in Nat
        BY <1>2, <2>1 DEF LoanDetail, IsUpdate, Given
      <3>2. /\ Given(r.chargeType, detail[l].chargeType) \in ChargeType
            /\ Given(r.chargeTime, detail[l].chargeTime) \in ChargeTime
        BY <1>2, <2>1 DEF LoanDetail, IsUpdate, Given
      <3>3. /\ Given(r.payTo, detail[l].payTo) \in Account \cup {None}
            /\ Given(r.payFrom, detail[l].payFrom) \in Account \cup {None}
            /\ Given(r.feeGl, s.detail.feeGl) \in Gl \cup {None}
        BY <1>2, <2>1 DEF LoanDetail, IsUpdate, Given
      <3> HIDE DEF r, l, s
      <3> QED
        BY <1>2, <3>1, <3>2, <3>3 DEF UpdatedDetail, LoanDetail
    <2>3. [account[l] EXCEPT !.gl = Given(r.gl, @)] \in LoanAccountRow
      BY <1>2, <2>1 DEF LoanAccountRow, IsUpdate, Given
    <2>4. account' \in [Loan -> LoanAccountRow]
      BY <1>2, <1>9, <2>3 DEF UpdateLoanDetails
    <2> QED
      BY <1>3, <1>9, <2>2, <2>4 DEF UpdateLoanDetails
  <1>10. CASE DisburseLoan(p)
    <2>1. IsDisbursement(r)
      BY <1>1, <1>10, RequestType DEF DisburseLoan, Committing, Kind
    <2>2. DisbursedDetail(r, detail[l], s.detail) \in LoanDetail
      <3>1. /\ PayTo(r, s.detail) \in Account \cup {None}
            /\ PayFrom(r, s.detail) \in Account \cup {None}
            /\ FeeGlFor(r, s.detail) \in Gl \cup {None}
        BY <1>2, <2>1 DEF LoanDetail, IsDisbursement, PayTo, PayFrom, FeeGlFor, Given
      <3> HIDE DEF r, l, s
      <3> QED
        BY <1>2, <3>1 DEF DisbursedDetail, LoanDetail, LoanStatus
    <2>3. LoanBook(s.detail, detail[l]) \in Int
      BY <1>2 DEF LoanBook, LoanDetail
    <2>4. account' = [account EXCEPT ![l] = [account[l] EXCEPT !.status = "active",
                                                          !.book = LoanBook(s.detail, detail[l])]]
      BY <1>2, <1>10 DEF DisburseLoan
    <2>5. account' \in [Loan -> LoanAccountRow]
      BY <1>2, <2>3, <2>4 DEF LoanAccountRow
    <2> QED
      BY <1>3, <1>10, <2>2, <2>5 DEF DisburseLoan
  <1> QED
    BY <1>5, <1>6, <1>7, <1>8, <1>9, <1>10 DEF Changes

(* What a request reads when it starts, and what its plan is. *)
LEMMA StartIs ==
  ASSUME TypeOK, NEW p \in Proc, NEW r \in Request, Start(p, r)
  PROVE  LET s == [detail |-> detail[r.loan], account |-> account[r.loan]] IN
         /\ s \in Seen
         /\ r.kind = "disburse" =>
              /\ PayTo(r, s.detail) \in Account /\ PayFrom(r, s.detail) \in Account
              /\ s.detail.status = "approved"
         /\ Plan(r, s) \in Seq(Claim)
         /\ job'[p] = r /\ seen'[p] = s /\ todo'[p] = Plan(r, s)
         /\ \A q \in Proc : q # p =>
              pc'[q] = pc[q] /\ job'[q] = job[q] /\ seen'[q] = seen[q] /\ todo'[q] = todo[q]
  <1> DEFINE s == [detail |-> detail[r.loan], account |-> account[r.loan]]
  <1>1. r.loan \in Loan
    BY RequestType
  <1>2. s \in Seen
    BY <1>1 DEF TypeOK, Seen
  <1>3. Allowed(r, s, accts)
    BY DEF Start
  <1>4. r.kind = "disburse" =>
          /\ PayTo(r, s.detail) \in Account /\ PayFrom(r, s.detail) \in Account
          /\ s.detail.status = "approved"
    <2>1. r.kind = "disburse" => DisbursementAllowed(r, s, accts)
      BY <1>3 DEF Allowed
    <2>2. Owned \subseteq Account
      BY LoanAssumption
    <2> QED
      BY <2>1, <2>2 DEF DisbursementAllowed, ApprovedWhenRead
  <1>5. Plan(r, s) \in Seq(Claim)
    BY <1>2, <1>4, PlanType
  <1>6. /\ job'[p] = r /\ seen'[p] = s /\ todo'[p] = Plan(r, s)
        /\ \A q \in Proc : q # p =>
             pc'[q] = pc[q] /\ job'[q] = job[q] /\ seen'[q] = seen[q] /\ todo'[q] = todo[q]
    BY DEF Start, TypeOK
  <1> QED
    BY <1>2, <1>4, <1>5, <1>6

(* The rest of a plan is a plan. *)
LEMMA RestType ==
  ASSUME TypeOK, NEW p \in Proc, todo[p] # <<>>
  PROVE  [todo EXCEPT ![p] = Tail(@)] \in [Proc -> Seq(Claim)]
  <1>1. todo[p] \in Seq(Claim)
    BY DEF TypeOK
  <1>2. Tail(todo[p]) \in Seq(Claim)
    BY <1>1, HeadTailProperties
  <1> QED
    BY <1>2 DEF TypeOK

(* A move settles the first claim that is left, and changes nothing else but the locks. *)
LEMMA MoveIs ==
  ASSUME TypeOK, NEW p \in Proc, Moves(p)
  PROVE  /\ pc[p] = "work" /\ todo[p] # <<>>
         /\ todo' = [todo EXCEPT ![p] = Tail(todo[p])] /\ todo' \in [Proc -> Seq(Claim)]
         /\ owner' \in [Row -> Proc \cup {None}] /\ sharing' \in [Proc -> SUBSET Account]
         /\ UNCHANGED <<loans, bank, pc, job, seen, res>>
         /\ \A q \in Proc, row \in Row : owner[row] = q => owner'[row] = q
<1>1. pc[p] = "work" /\ todo[p] # <<>> /\ Proceeds(p)
  BY DEF Moves, Lock, ShareKey, UndoMisses, Misses, AtClaim
<1>2. owner' \in [Row -> Proc \cup {None}] /\ \A q \in Proc, row \in Row : owner[row] = q => owner'[row] = q
  <2>1. CASE Lock(p)
    <3>1. PICK row \in Row : LockBlockers(p, row) = {} /\ owner' = [owner EXCEPT ![row] = p]
      BY <2>1 DEF Lock
    <3>2. owner[row] = None /\ None \notin Proc
      BY <3>1, LoanAssumption DEF LockBlockers
    <3> QED BY <3>1, <3>2 DEF TypeOK
  <2>2. CASE ShareKey(p) \/ UndoMisses(p)
    BY <2>2 DEF ShareKey, UndoMisses, TypeOK
  <2> QED BY <2>1, <2>2 DEF Moves
<1>3. sharing' \in [Proc -> SUBSET Account]
  <2>1. CASE ShareKey(p)
    BY <2>1 DEF ShareKey, TypeOK
  <2>2. CASE Lock(p) \/ UndoMisses(p)
    BY <2>2 DEF Lock, UndoMisses, TypeOK
  <2> QED BY <2>1, <2>2 DEF Moves
<1>4. todo' \in [Proc -> Seq(Claim)]
  BY <1>1, RestType DEF Proceeds
<1> QED BY <1>1, <1>2, <1>3, <1>4 DEF Proceeds

(* A disbursement that moves is not turned down at its claim. *)
LEMMA MoveAllowed ==
  ASSUME TypeOK, NEW p \in Proc, Moves(p), Kind(p) = "disburse"
  PROVE  /\ ~Rejects(p, Head(todo[p]))
         /\ Head(todo[p]) \in Row => owner' = [owner EXCEPT ![Head(todo[p])] = p]
<1>1. CASE Lock(p)
  BY <1>1 DEF Lock, AtClaim
<1>2. CASE ShareKey(p)
  <2>1. Head(todo[p]) \in Shares /\ ~Rejects(p, Head(todo[p]))
    BY <1>2 DEF ShareKey, AtClaim, Shares
  <2> QED BY <2>1, ClaimType
<1>3. CASE UndoMisses(p)
  BY <1>3 DEF UndoMisses, Misses
<1> QED BY <1>1, <1>2, <1>3 DEF Moves

(* The requests that end without writing anything but their answer. *)
LEMMA EndsWithout ==
  ASSUME NEW p \in Proc, Ends(p), ~Changes(p)
  PROVE  UNCHANGED <<loans, bank>>
  BY DEF Ends, Changes, RejectDisbursement, RollBack, DeadlockVictim, Crash

(* The changes that are not payments leave the bank and the schedules alone. *)
LEMMA ChangesWithout ==
  ASSUME NEW p \in Proc, Changes(p), ~DisburseLoan(p)
  PROVE  UNCHANGED <<bank, schedules>>
  BY DEF Changes, ApproveLoan, DeclineLoan, UndoApproval, ActivateAccount, UpdateLoanDetails, bank

(* A payment is well formed. *)
LEMMA PaymentKeepsTypes ==
  ASSUME IInv, NEW p \in Proc, DisburseLoan(p)
  PROVE  /\ accts' \in [Account -> AccountRow]
         /\ \A j \in journals' : j.id \in Proc
         /\ \A s \in schedules' : s.by \in Proc /\ s.loan \in Loan /\ s.terms \in Terms
  <1> DEFINE r == job[p]  s == seen[p]  to == PayTo(r, s.detail)
  <1>1. r \in Request /\ r.kind = "disburse" /\ r.loan \in Loan /\ s \in Seen /\ to \in Account
    BY PaymentIs
  <1>2. Parties(Payload(p)) = {to}
    BY PaymentIs
  <1>3. accts \in [Account -> AccountRow]
    BY DEF IInv, Core, TypeOK
  <1>4. NewBookBalance(Payload(p), to, accts[to]) \in Int
    BY <1>1, <1>3, PaymentType DEF Payload
  <1>5. \A a \in Account :
          accts'[a] = IF a = to
                      THEN [accts[a] EXCEPT !.bookBalance = NewBookBalance(Payload(p), to, accts[to])]
                      ELSE accts[a]
    BY <1>2 DEF DisburseLoan
  <1>6. \A a \in Account : accts'[a] \in AccountRow
    <2>1. TAKE a \in Account
    <2>2. CASE a = to
      <3> DEFINE n == NewBookBalance(Payload(p), to, accts[to])
      <3>1. accts'[a] = [accts[a] EXCEPT !.bookBalance = n] /\ n \in Int
        BY <1>4, <1>5, <2>2
      <3> HIDE DEF n
      <3> QED
        BY <1>3, <3>1 DEF AccountRow
    <2> QED
      BY <1>3, <1>5, <2>2
  <1>7. accts' = [a \in Account |-> accts'[a]]
    BY DEF DisburseLoan
  <1>8. accts' \in [Account -> AccountRow]
    BY <1>6, <1>7
  <1>9. \A j \in journals' : j.id \in Proc
    BY DEF DisburseLoan, IInv, Core, TypeOK
  <1>10. schedules' = schedules \cup {[by |-> p, loan |-> r.loan, terms |-> TermsOf(s.detail)]}
    BY DEF DisburseLoan
  <1>11. TermsOf(s.detail) \in Terms
    BY <1>1, TermsType DEF Seen
  <1> HIDE DEF r, s
  <1>12. \A t \in schedules' : t.by \in Proc /\ t.loan \in Loan /\ t.terms \in Terms
    BY <1>1, <1>10, <1>11 DEF IInv, Core, TypeOK
  <1> QED
    BY <1>8, <1>9, <1>12

(* Every step keeps the types. *)
LEMMA NextTypeOK ==
  ASSUME IInv, [Next]_vars
  PROVE  TypeOK'
  <1>1. TypeOK
    BY DEF IInv, Core
  <1>2. ASSUME NEW p \in Proc, NEW r \in Request, Start(p, r)
        PROVE  TypeOK'
    <2> DEFINE s == [detail |-> detail[r.loan], account |-> account[r.loan]]
    <2>1. s \in Seen /\ Plan(r, s) \in Seq(Claim)
      BY <1>1, <1>2, StartIs
    <2>2. /\ job' = [job EXCEPT ![p] = r] /\ seen' = [seen EXCEPT ![p] = s]
          /\ todo' = [todo EXCEPT ![p] = Plan(r, s)] /\ pc' = [pc EXCEPT ![p] = "work"]
          /\ UNCHANGED <<loans, bank, owner, sharing, res>>
      BY <1>2 DEF Start
    <2> HIDE DEF s
    <2> QED
      BY <1>1, <2>1, <2>2 DEF TypeOK, loans, bank
  <1>3. ASSUME NEW p \in Proc, NEW r \in Request, Refuse(p, r)
        PROVE  TypeOK'
    BY <1>1, <1>3 DEF Refuse, TypeOK, loans, bank
  <1>4. ASSUME NEW p \in Proc, Moves(p)
        PROVE  TypeOK'
    <2>1. /\ todo' \in [Proc -> Seq(Claim)]
          /\ owner' \in [Row -> Proc \cup {None}] /\ sharing' \in [Proc -> SUBSET Account]
          /\ UNCHANGED <<loans, bank, pc, job, seen, res>>
      BY <1>1, <1>4, MoveIs
    <2> QED
      BY <1>1, <2>1 DEF TypeOK, loans, bank
  <1>6. ASSUME NEW p \in Proc, Ends(p)
        PROVE  TypeOK'
    <2>1. PICK answer \in {"ok", "threw", "failed", "lost"} : Finish(p, answer)
      BY <1>6, EndsFinish
    <2>2. /\ owner' \in [Row -> Proc \cup {None}]
          /\ sharing' \in [Proc -> SUBSET Account]
          /\ pc' \in [Proc -> {"idle", "work", "done"}]
          /\ job' \in [Proc -> Request \cup {None}]
          /\ seen' \in [Proc -> Seen \cup {None}]
          /\ todo' \in [Proc -> Seq(Claim)]
          /\ res' \in [Proc -> {"none", "ok", "refused", "threw", "failed", "lost"}]
      BY <1>1, <2>1, FinishType
    <2>3. CASE ~Changes(p)
      BY <1>1, <1>6, <2>2, <2>3, EndsWithout DEF TypeOK, loans, bank
    <2>4. CASE Changes(p)
      <3>1. /\ detail' \in [Loan -> LoanDetail]
            /\ account' \in [Loan -> LoanAccountRow]
            /\ \A t \in approvedTerms' : t.loan \in Loan /\ t.terms \in Terms
        BY <2>4, ChangeType
      <3>2. /\ accts' \in [Account -> AccountRow]
            /\ \A j \in journals' : j.id \in Proc
            /\ \A s \in schedules' : s.by \in Proc /\ s.loan \in Loan /\ s.terms \in Terms
        <4>1. CASE DisburseLoan(p)
          BY <4>1, PaymentKeepsTypes
        <4>2. CASE ~DisburseLoan(p)
          BY <1>1, <2>4, <4>2, ChangesWithout DEF TypeOK, bank
        <4> QED
          BY <4>1, <4>2
      <3> QED
        BY <2>2, <3>1, <3>2 DEF TypeOK
    <2> QED
      BY <2>3, <2>4
  <1>7. CASE UNCHANGED vars
    BY <1>1, <1>7 DEF vars, TypeOK
  <1> QED
    BY <1>2, <1>3, <1>4, <1>6, <1>7, NextIs

-----------------------------------------------------------------------------
(* Requests at work.                                                         *)

(* The rest of a disbursement's plan. *)
LEMMA RestOfPlan ==
  ASSUME NEW d, NEW to, NEW sh, NEW a
  PROVE  /\ Head(<<d, to, sh, a>>) = d /\ Tail(<<d, to, sh, a>>) = <<to, sh, a>>
         /\ Head(<<to, sh, a>>) = to /\ Tail(<<to, sh, a>>) = <<sh, a>>
         /\ Head(<<sh, a>>) = sh /\ Tail(<<sh, a>>) = <<a>>
         /\ Head(<<a>>) = a /\ Tail(<<a>>) = <<>>
  OBVIOUS

(* Plans of different lengths are different. *)
LEMMA PlansDiffer ==
  ASSUME NEW d, NEW to, NEW sh, NEW a
  PROVE  /\ <<d, to, sh, a>> \notin {<<to, sh, a>>, <<sh, a>>, <<a>>, <<>>}
         /\ <<to, sh, a>> \notin {<<a>>, <<>>} /\ <<sh, a>> \notin {<<a>>, <<>>} /\ <<a>> # <<>>
  OBVIOUS

(* What a request read stays with it. *)
LEMMA WorkingKept ==
  ASSUME IInv, [Next]_vars, NEW q \in Proc
  PROVE  Working(q)'
  <1>1. TypeOK /\ Working(q)
    BY DEF IInv, Core
  <1>2. ASSUME NEW p \in Proc, NEW r \in Request, Start(p, r)
        PROVE  Working(q)'
    <2>1. q # p => pc'[q] = pc[q] /\ job'[q] = job[q] /\ seen'[q] = seen[q]
      BY <1>1, <1>2, StartIs
    <2> DEFINE s == [detail |-> detail[r.loan], account |-> account[r.loan]]
    <2>2. s \in Seen /\ job'[p] = r /\ seen'[p] = s
      BY <1>1, <1>2, StartIs
    <2> HIDE DEF s
    <2>3. job'[p] \in Request /\ seen'[p] \in Seen
      BY <2>2
    <2>4. CASE q = p
      BY <2>3, <2>4 DEF Working
    <2>5. CASE q # p
      BY <1>1, <2>1, <2>5 DEF Working
    <2> QED
      BY <2>4, <2>5
  <1>3. ASSUME NEW p \in Proc, NEW r \in Request, Refuse(p, r)
        PROVE  Working(q)'
    BY <1>1, <1>3 DEF Refuse, Working, TypeOK
  <1>4. ASSUME NEW p \in Proc, Moves(p)
        PROVE  Working(q)'
    <2>1. UNCHANGED <<pc, job, seen>>
      BY <1>1, <1>4, MoveIs
    <2> QED
      BY <1>1, <2>1 DEF Working
  <1>6. ASSUME NEW p \in Proc, Ends(p)
        PROVE  Working(q)'
    <2>1. PICK answer \in {"ok", "threw", "failed", "lost"} : Finish(p, answer)
      BY <1>6, EndsFinish
    <2>2. /\ pc'[p] = "done"
          /\ q # p => pc'[q] = pc[q] /\ job'[q] = job[q] /\ seen'[q] = seen[q]
      BY <1>1, <2>1, FinishType
    <2> QED
      BY <1>1, <2>2 DEF Working
  <1>7. CASE UNCHANGED vars
    BY <1>1, <1>7 DEF vars, Working
  <1> QED
    BY <1>2, <1>3, <1>4, <1>6, <1>7, NextIs

(* The terms that were approved stay in the history. *)
LEMMA HistoryGrows ==
  ASSUME IInv, [Next]_vars
  PROVE  approvedTerms \subseteq approvedTerms'
  <1>1. TypeOK
    BY DEF IInv, Core
  <1>2. ASSUME NEW p \in Proc, Moves(p)
        PROVE  approvedTerms' = approvedTerms
    BY <1>1, <1>2, MoveIs DEF loans
  <1>3. ASSUME NEW p \in Proc, Ends(p)
        PROVE  approvedTerms \subseteq approvedTerms'
    <2>1. CASE ~Changes(p)
      BY <1>3, <2>1, EndsWithout DEF loans
    <2>2. CASE Changes(p)
      BY <2>2, ChangeType
    <2> QED
      BY <2>1, <2>2
  <1> QED
    BY <1>2, <1>3, NextIs DEF Start, Refuse, loans, vars

(* What a step of p means to a disbursement q of another process: its own state, its rows and
   the reference of its payment are left alone. *)
LEMMA OthersLeaveAlone ==
  ASSUME IInv, [Next]_vars, NEW p \in Proc, NEW q \in Proc, q # p,
         \/ \E r \in Request : Start(p, r) \/ Refuse(p, r)
         \/ Moves(p) \/ Ends(p)
  PROVE  /\ pc'[q] = pc[q] /\ job'[q] = job[q] /\ seen'[q] = seen[q] /\ todo'[q] = todo[q]
         /\ \A row \in Row : owner[row] = q => owner'[row] = q
         /\ \A l \in Loan : owner[DetailRow(l)] = q /\ Payment(l) \notin transactions
              => Payment(l) \notin transactions'
  <1>1. TypeOK
    BY DEF IInv, Core
  <1>2. ASSUME NEW r \in Request, Start(p, r)
        PROVE  /\ pc'[q] = pc[q] /\ job'[q] = job[q] /\ seen'[q] = seen[q] /\ todo'[q] = todo[q]
               /\ owner' = owner /\ transactions' = transactions
    BY <1>1, <1>2 DEF Start, TypeOK, bank
  <1>3. ASSUME NEW r \in Request, Refuse(p, r)
        PROVE  /\ pc'[q] = pc[q] /\ job'[q] = job[q] /\ seen'[q] = seen[q] /\ todo'[q] = todo[q]
               /\ owner' = owner /\ transactions' = transactions
    BY <1>1, <1>3 DEF Refuse, TypeOK, bank
  <1>4. ASSUME Moves(p)
        PROVE  /\ pc'[q] = pc[q] /\ job'[q] = job[q] /\ seen'[q] = seen[q] /\ todo'[q] = todo[q]
               /\ \A row \in Row : owner[row] = q => owner'[row] = q
               /\ transactions' = transactions
    BY <1>1, <1>4, MoveIs DEF TypeOK, bank
  <1>6. ASSUME Ends(p)
        PROVE  /\ pc'[q] = pc[q] /\ job'[q] = job[q] /\ seen'[q] = seen[q] /\ todo'[q] = todo[q]
               /\ \A row \in Row : owner[row] = q => owner'[row] = q
               /\ \A l \in Loan : owner[DetailRow(l)] = q /\ Payment(l) \notin transactions
                    => Payment(l) \notin transactions'
    <2>1. PICK answer \in {"ok", "threw", "failed", "lost"} : Finish(p, answer)
      BY <1>6, EndsFinish
    <2>2. /\ pc'[q] = pc[q] /\ job'[q] = job[q] /\ seen'[q] = seen[q] /\ todo'[q] = todo[q]
          /\ \A row \in Row : owner[row] = q => owner'[row] = q
      BY <1>1, <2>1, FinishType
    <2>3. CASE ~Changes(p)
      BY <1>6, <2>2, <2>3, EndsWithout DEF bank
    <2>4. CASE Changes(p) /\ ~DisburseLoan(p)
      BY <2>2, <2>4, ChangesWithout DEF bank
    <2>5. CASE DisburseLoan(p)
      <3>1. /\ DisbursementRefs(Payload(p))
                 = {Payment(job[p].loan), <<LoanRef[job[p].loan], "DEB", "">>}
            /\ owner[DetailRow(job[p].loan)] = p /\ job[p].loan \in Loan
        BY <2>5, PaymentIs
      <3>2. transactions' = transactions \cup DisbursementRefs(Payload(p))
        BY <2>5 DEF DisburseLoan
      <3>3. ASSUME NEW l \in Loan, owner[DetailRow(l)] = q, Payment(l) \notin transactions
            PROVE  Payment(l) \notin transactions'
        <4>1. l # job[p].loan
          BY <3>1, <3>3
        <4>2. LoanRef[l] # LoanRef[job[p].loan]
          BY <3>1, <4>1, LoanAssumption
        <4>3. Payment(l) \notin DisbursementRefs(Payload(p))
          BY <3>1, <4>2 DEF Payment
        <4> QED
          BY <3>2, <3>3, <4>3
      <3> QED
        BY <2>2, <3>3
    <2> QED
      BY <2>3, <2>4, <2>5
  <1> QED
    BY <1>2, <1>3, <1>4, <1>6

(* A disbursement starts on terms that are approved, with its whole plan ahead. *)
LEMMA StartDisburses ==
  ASSUME IInv, [Next]_vars, NEW p \in Proc, NEW r \in Request, Start(p, r)
  PROVE  Disbursing(p)'
  <1> DEFINE s  == [detail |-> detail[r.loan], account |-> account[r.loan]]
             to == PayTo(r, s.detail)  sh == Share(PayFrom(r, s.detail))
             d == DetailRow(r.loan)  a == AccountOf(r.loan)
  <1>1. TypeOK /\ r.loan \in Loan
    BY RequestType DEF IInv, Core
  <1>2. /\ r.kind = "disburse" => to \in Account /\ sh \in Shares /\ s.detail.status = "approved"
        /\ job'[p] = r /\ seen'[p] = s /\ todo'[p] = Plan(r, s)
    BY <1>1, StartIs DEF Shares
  <1>3. CASE r.kind # "disburse"
    BY <1>2, <1>3 DEF Disbursing, Kind
  <1>4. CASE r.kind = "disburse"
    <2>1. todo'[p] = <<d, to, sh, a>>
      BY <1>2, <1>4 DEF Plan
    <2>2. [loan |-> r.loan, terms |-> TermsOf(s.detail)] \in Approved(detail)
      BY <1>1, <1>2, <1>4 DEF Approved
    <2>3. [loan |-> r.loan, terms |-> TermsOf(s.detail)] \in approvedTerms'
      BY <2>2, HistoryGrows DEF IInv
    <2> HIDE DEF s, to, sh, d, a
    <2>4. todo'[p] \notin {<<to, sh, a>>, <<sh, a>>, <<a>>, <<>>}
      BY <2>1, PlansDiffer
    <2>5. to \in Account /\ sh \in Shares
      BY <1>2, <1>4
    <2>6. /\ PayTo(job'[p], seen'[p].detail) = to /\ Share(PayFrom(job'[p], seen'[p].detail)) = sh
          /\ DetailRow(job'[p].loan) = d /\ AccountOf(job'[p].loan) = a
      BY <1>2 DEF to, sh, d, a
    <2>7. [loan |-> job'[p].loan, terms |-> TermsOf(seen'[p].detail)] \in approvedTerms'
      BY <1>2, <2>3
    <2> HIDE <1>2
    <2> QED
      BY <2>1, <2>4, <2>5, <2>6, <2>7 DEF Disbursing
  <1> QED
    BY <1>3, <1>4

(* A disbursement locks the row of the loan's details first, and refers to the account it is
   repaid from only once its posting has gone through. *)
LEMMA MoveDisburses ==
  ASSUME IInv, [Next]_vars, NEW p \in Proc, Moves(p)
  PROVE  Disbursing(p)'
  <1> DEFINE l == job[p].loan  to == PayTo(job[p], seen[p].detail)
             d == DetailRow(l)  sh == Share(PayFrom(job[p], seen[p].detail))  a == AccountOf(l)
  <1>1. TypeOK /\ Working(p) /\ Disbursing(p)
    BY DEF IInv, Core
  <1>2. /\ pc[p] = "work" /\ todo[p] # <<>>
        /\ todo' = [todo EXCEPT ![p] = Tail(todo[p])]
        /\ UNCHANGED <<loans, bank, pc, job, seen, res>>
        /\ \A row \in Row : owner[row] = p => owner'[row] = p
    BY <1>1, MoveIs
  <1>3. SUFFICES ASSUME Kind(p) = "disburse"
                 PROVE  Disbursing(p)'
    BY <1>2 DEF Disbursing, Kind
  <1>4. job[p] \in Request /\ job[p].kind = "disburse" /\ seen[p] \in Seen /\ l \in Loan
    BY <1>1, <1>2, <1>3, RequestType DEF Working, Kind
  <1>5. d \in Row
    BY <1>4, RowType
  <1>6. /\ to \in Account /\ sh \in Shares
        /\ [loan |-> l, terms |-> TermsOf(seen[p].detail)] \in approvedTerms
        /\ todo[p] \in {<<d, to, sh, a>>, <<to, sh, a>>, <<sh, a>>, <<a>>, <<>>}
        /\ todo[p] \in {<<to, sh, a>>, <<sh, a>>, <<a>>, <<>>} => owner[d] = p
        /\ todo[p] \in {<<a>>, <<>>} => Payment(l) \notin transactions
    BY <1>1, <1>2, <1>3 DEF Disbursing
  <1>7. todo'[p] = Tail(todo[p]) /\ job'[p] = job[p] /\ seen'[p] = seen[p]
    BY <1>1, <1>2 DEF TypeOK
  <1>8. transactions' = transactions /\ approvedTerms' = approvedTerms
    BY <1>2 DEF loans, bank
  <1>9. owner[d] = p => owner'[d] = p
    BY <1>2, <1>5
  <1>10. ~Rejects(p, Head(todo[p])) /\ (Head(todo[p]) = d => owner'[d] = p)
    BY <1>1, <1>3, <1>5, MoveAllowed DEF TypeOK
  <1>11. sh \in Shares /\ ~Rejects(p, sh) => Payment(l) \notin transactions
    <2>1. SUFFICES ASSUME sh \in Shares, ~Rejects(p, sh)
                   PROVE  Payment(l) \notin transactions
      OBVIOUS
    <2>2. Posted(p)
      BY <1>3, <2>1 DEF Rejects
    <2>3. TransactionRefs(Payload(p)) \cap transactions = {}
      BY <2>2, PostedIsFree DEF Posted
    <2>4. TransactionRefs(Payload(p)) = {Payment(l)}
      BY <1>4, <1>6, PaymentRefs DEF Payload
    <2> QED BY <2>3, <2>4
  <1>12. /\ PayTo(job'[p], seen'[p].detail) = to /\ job'[p].loan = l
         /\ Share(PayFrom(job'[p], seen'[p].detail)) = sh
         /\ [loan |-> l, terms |-> TermsOf(seen'[p].detail)] \in approvedTerms'
    BY <1>6, <1>7, <1>8
  <1> HIDE DEF l, to, sh, d, a
  <1>13. /\ todo'[p] \in {<<to, sh, a>>, <<sh, a>>, <<a>>, <<>>}
         /\ owner'[d] = p
         /\ todo'[p] \in {<<a>>, <<>>} => Payment(l) \notin transactions
    <2>1. CASE todo[p] = <<d, to, sh, a>>
      <3>1. Head(todo[p]) = d /\ todo'[p] = <<to, sh, a>>
        BY <1>7, <2>1, RestOfPlan
      <3> QED
        BY <1>10, <3>1, PlansDiffer
    <2>2. CASE todo[p] = <<to, sh, a>>
      <3>1. todo'[p] = <<sh, a>>
        BY <1>7, <2>2, RestOfPlan
      <3> QED
        BY <1>6, <1>9, <2>2, <3>1, PlansDiffer
    <2>3. CASE todo[p] = <<sh, a>>
      <3>1. Head(todo[p]) = sh /\ todo'[p] = <<a>>
        BY <1>7, <2>3, RestOfPlan
      <3> QED
        BY <1>6, <1>9, <1>10, <1>11, <2>3, <3>1
    <2>4. CASE todo[p] = <<a>>
      <3>1. todo'[p] = <<>>
        BY <1>7, <2>4, RestOfPlan
      <3> QED
        BY <1>6, <1>9, <2>4, <3>1
    <2> QED
      BY <1>2, <1>6, <2>1, <2>2, <2>3, <2>4
  <1>14. DetailRow(l) = d /\ AccountOf(l) = a
    BY DEF d, a
  <1> QED
    BY <1>6, <1>8, <1>12, <1>13, <1>14 DEF Disbursing

(* Disbursements keep what they stand on. *)
LEMMA DisbursingKept ==
  ASSUME IInv, [Next]_vars, NEW q \in Proc
  PROVE  Disbursing(q)'
  <1>1. TypeOK /\ Disbursing(q) /\ Working(q)
    BY DEF IInv, Core
  <1>2. approvedTerms \subseteq approvedTerms'
    BY HistoryGrows
  <1>3. ASSUME NEW p \in Proc, p # q,
               \/ \E r \in Request : Start(p, r) \/ Refuse(p, r)
               \/ Moves(p) \/ Ends(p)
        PROVE  Disbursing(q)'
    <2>1. SUFFICES ASSUME pc'[q] = "work", job'[q].kind = "disburse"
                   PROVE  Disbursing(q)'
      BY DEF Disbursing, Kind
    <2>2. /\ pc'[q] = pc[q] /\ job'[q] = job[q] /\ seen'[q] = seen[q] /\ todo'[q] = todo[q]
          /\ \A row \in Row : owner[row] = q => owner'[row] = q
          /\ \A l \in Loan : owner[DetailRow(l)] = q /\ Payment(l) \notin transactions
               => Payment(l) \notin transactions'
      BY <1>3, OthersLeaveAlone
    <2> DEFINE l == job[q].loan  to == PayTo(job[q], seen[q].detail)
               d == DetailRow(l)  sh == Share(PayFrom(job[q], seen[q].detail))  a == AccountOf(l)
    <2>3. l \in Loan /\ d \in Row
      BY <1>1, <2>1, <2>2, RequestType, RowType DEF Working
    <2>4. /\ to \in Account /\ sh \in Shares
          /\ [loan |-> l, terms |-> TermsOf(seen[q].detail)] \in approvedTerms
          /\ todo[q] \in {<<d, to, sh, a>>, <<to, sh, a>>, <<sh, a>>, <<a>>, <<>>}
          /\ todo[q] \in {<<to, sh, a>>, <<sh, a>>, <<a>>, <<>>} => owner[d] = q
          /\ todo[q] \in {<<a>>, <<>>} => Payment(l) \notin transactions
      BY <1>1, <2>1, <2>2 DEF Disbursing, Kind
    <2>5. /\ todo[q] \in {<<to, sh, a>>, <<sh, a>>, <<a>>, <<>>} => owner'[d] = q
          /\ todo[q] \in {<<a>>, <<>>} => Payment(l) \notin transactions'
      BY <2>2, <2>3, <2>4
    <2>6. [loan |-> l, terms |-> TermsOf(seen[q].detail)] \in approvedTerms'
      BY <1>2, <2>4
    <2>7. /\ PayTo(job'[q], seen'[q].detail) = to /\ job'[q].loan = l /\ todo'[q] = todo[q]
          /\ Share(PayFrom(job'[q], seen'[q].detail)) = sh
      BY <2>2
    <2>8. [loan |-> l, terms |-> TermsOf(seen'[q].detail)] \in approvedTerms'
      BY <2>2, <2>6
    <2> HIDE DEF l, to, sh
    <2> QED
      BY <2>4, <2>5, <2>7, <2>8 DEF Disbursing
  <1>4. ASSUME NEW r \in Request, Start(q, r)
        PROVE  Disbursing(q)'
    BY <1>4, StartDisburses
  <1>5. ASSUME NEW r \in Request, Refuse(q, r)
        PROVE  Disbursing(q)'
    BY <1>1, <1>5 DEF Refuse, Disbursing, TypeOK
  <1>6. CASE Moves(q)
    BY <1>6, MoveDisburses
  <1>8. CASE Ends(q)
    <2>1. pc'[q] = "done"
      BY <1>1, <1>8, EndsFinish, FinishType
    <2> QED
      BY <2>1 DEF Disbursing
  <1>9. CASE UNCHANGED vars
    BY <1>1, <1>9 DEF vars, Disbursing, Kind
  <1> QED
    BY <1>3, <1>4, <1>5, <1>6, <1>8, <1>9, NextIs

-----------------------------------------------------------------------------
(* Payments.                                                                 *)

(* Only a payment writes journals, schedules or transactions, or calls a loan disbursed. *)
LEMMA OnlyPaymentsPay ==
  ASSUME IInv, [Next]_vars, \A p \in Proc : ~DisburseLoan(p)
  PROVE  /\ UNCHANGED <<journals, transactions, schedules>>
         /\ \A l \in Loan : detail'[l].status = "disbursed" => detail[l].status = "disbursed"
  <1>1. TypeOK
    BY DEF IInv, Core
  <1>2. ASSUME NEW p \in Proc, Changes(p)
        PROVE  \A l \in Loan : detail'[l].status = "disbursed" => detail[l].status = "disbursed"
    <2> DEFINE k == job[p].loan
    <2>1. k \in Loan
      BY <1>1, <1>2, RequestType DEF Changes, ApproveLoan, DeclineLoan, UndoApproval,
         ActivateAccount, UpdateLoanDetails, DisburseLoan, Committing, IInv, Core, Working
    <2>2. detail \in [Loan -> LoanDetail] /\ detail[k] \in LoanDetail
      BY <1>1, <2>1 DEF TypeOK
    <2>3. ASSUME NEW row, row.status = "disbursed" => detail[k].status = "disbursed",
                 detail' = [detail EXCEPT ![k] = row]
          PROVE  \A l \in Loan : detail'[l].status = "disbursed" => detail[l].status = "disbursed"
      BY <2>2, <2>3
    <2>4. \A status \in LoanStatus : [detail[k] EXCEPT !.status = status].status = status
      BY <2>2 DEF LoanDetail
    <2>5. CASE ApproveLoan(p)
      BY <2>3, <2>4, <2>5 DEF ApproveLoan, SetDetail, LoanStatus
    <2>6. CASE DeclineLoan(p)
      BY <2>3, <2>4, <2>6 DEF DeclineLoan, SetDetail, LoanStatus
    <2>7. CASE UndoApproval(p)
      <3>1. CASE owner[DetailRow(k)] = p
        BY <2>3, <2>4, <2>7, <3>1 DEF UndoApproval, SetDetail, LoanStatus
      <3>2. CASE owner[DetailRow(k)] # p
        BY <2>3, <2>7, <3>2 DEF UndoApproval, SetDetail
      <3> QED
        BY <3>1, <3>2
    <2>8. CASE ActivateAccount(p)
      BY <2>8 DEF ActivateAccount
    <2>9. CASE UpdateLoanDetails(p)
      <3> DEFINE row == UpdatedDetail(job[p], detail[k], seen[p].detail)
      <3>1. row.status = detail[k].status
        BY <2>2 DEF UpdatedDetail, LoanDetail
      <3>2. detail' = [detail EXCEPT ![k] = row]
        BY <2>9 DEF UpdateLoanDetails, SetDetail
      <3> HIDE DEF row
      <3> QED
        BY <2>3, <3>1, <3>2
    <2> QED
      BY <1>2, <2>5, <2>6, <2>7, <2>8, <2>9 DEF Changes
  <1>3. ASSUME NEW p \in Proc, Ends(p)
        PROVE  /\ UNCHANGED <<journals, transactions, schedules>>
               /\ \A l \in Loan : detail'[l].status = "disbursed" => detail[l].status = "disbursed"
    <2>1. CASE Changes(p)
      BY <1>2, <2>1, ChangesWithout DEF bank
    <2>2. CASE ~Changes(p)
      BY <1>3, <2>2, EndsWithout DEF bank, loans
    <2> QED
      BY <2>1, <2>2
  <1>4. ASSUME NEW p \in Proc, Moves(p)
        PROVE  UNCHANGED <<detail, journals, transactions, schedules>>
    BY <1>1, <1>4, MoveIs DEF bank, loans
  <1>6. ASSUME NEW p \in Proc, NEW r \in Request, Start(p, r) \/ Refuse(p, r)
        PROVE  UNCHANGED <<detail, journals, transactions, schedules>>
    BY <1>6 DEF Start, Refuse, bank, loans
  <1>7. CASE UNCHANGED vars
    BY <1>7 DEF vars
  <1> QED
    BY <1>3, <1>4, <1>6, <1>7, NextIs

(* A payment is the first of its loan. *)
LEMMA PaymentKeeps ==
  ASSUME IInv, [Next]_vars, NEW p \in Proc, DisburseLoan(p)
  PROVE  PaidOnce' /\ DisbursedOnce' /\ OnlyApprovedTermsPaid'
  <1>1. PICK k \in Loan :
          /\ k = job[p].loan
          /\ DisbursementRefs(Payload(p)) = {Payment(k), <<LoanRef[k], "DEB", "">>}
          /\ JournalOf(Payload(p)).reference = LoanRef[k]
          /\ Payment(k) \notin transactions
          /\ [loan |-> k, terms |-> TermsOf(seen[p].detail)] \in approvedTerms
    BY PaymentIs
  <1> DEFINE j == [id |-> p, entry |-> JournalOf(Payload(p))]
             s == [by |-> p, loan |-> k, terms |-> TermsOf(seen[p].detail)]
  <1>2. /\ journals' = journals \cup {j}
        /\ schedules' = schedules \cup {s}
        /\ transactions' = transactions \cup DisbursementRefs(Payload(p))
        /\ detail' = [detail EXCEPT ![k] = DisbursedDetail(job[p], detail[k], seen[p].detail)]
    BY <1>1 DEF DisburseLoan, SetDetail
  <1>3. /\ s.loan = k /\ s.terms = TermsOf(seen[p].detail)
        /\ j.entry.reference = LoanRef[k]
    BY <1>1
  <1> HIDE DEF j, s
  <1>4. PaymentsOf(k) = {} /\ SchedulesOf(k) = {}
    BY <1>1 DEF IInv, PaidOnce
  <1>5. PaymentsOf(k)' = {j} /\ SchedulesOf(k)' = {s}
    <2>1. \A x \in journals : x.entry.reference # LoanRef[k]
      BY <1>4 DEF PaymentsOf
    <2>2. \A x \in schedules : x.loan # k
      BY <1>4 DEF SchedulesOf
    <2> QED
      BY <1>2, <1>3, <2>1, <2>2 DEF PaymentsOf, SchedulesOf
  <1>6. Payment(k) \in transactions'
    BY <1>1, <1>2
  <1>7. ASSUME NEW l \in Loan, l # k
        PROVE  PaymentsOf(l)' = PaymentsOf(l) /\ SchedulesOf(l)' = SchedulesOf(l)
    <2>1. LoanRef[l] # LoanRef[k]
      BY <1>1, <1>7, LoanAssumption
    <2> QED
      BY <1>1, <1>2, <1>3, <1>7, <2>1 DEF PaymentsOf, SchedulesOf
  <1>8. PaidOnce'
    <2>1. ASSUME NEW l \in Loan, PaymentsOf(l)' # {} \/ SchedulesOf(l)' # {}
          PROVE  Payment(l) \in transactions'
      <3>1. CASE l = k
        BY <1>6, <3>1
      <3>2. CASE l # k
        BY <1>2, <1>7, <2>1, <3>2 DEF IInv, PaidOnce
      <3> QED
        BY <3>1, <3>2
    <2> QED
      BY <2>1 DEF PaidOnce, Payment
  <1>9. DisbursedOnce'
    <2>1. ASSUME NEW l \in Loan
          PROVE  /\ \A x, y \in PaymentsOf(l)' : x = y
                 /\ \A x, y \in SchedulesOf(l)' : x = y
                 /\ detail'[l].status = "disbursed" => PaymentsOf(l)' # {}
      <3>1. CASE l = k
        BY <1>5, <3>1
      <3>2. CASE l # k
        <4>1. detail'[l] = detail[l]
          BY <1>2, <3>2 DEF IInv, Core, TypeOK
        <4> QED
          BY <1>7, <3>2, <4>1 DEF IInv, DisbursedOnce
      <3> QED
        BY <3>1, <3>2
    <2> QED
      BY <2>1 DEF DisbursedOnce
  <1>10. OnlyApprovedTermsPaid'
    BY <1>1, <1>2, <1>3, HistoryGrows DEF IInv, OnlyApprovedTermsPaid
  <1> QED
    BY <1>8, <1>9, <1>10

(* What has been paid stays paid, and once. *)
LEMMA PaymentsKept ==
  ASSUME IInv, [Next]_vars
  PROVE  PaidOnce' /\ DisbursedOnce' /\ OnlyApprovedTermsPaid'
  <1>1. CASE \E p \in Proc : DisburseLoan(p)
    BY <1>1, PaymentKeeps
  <1>2. CASE ~\E p \in Proc : DisburseLoan(p)
    <2>1. /\ UNCHANGED <<journals, transactions, schedules>>
          /\ \A l \in Loan : detail'[l].status = "disbursed" => detail[l].status = "disbursed"
      BY <1>2, OnlyPaymentsPay
    <2>2. \A l \in Loan : PaymentsOf(l)' = PaymentsOf(l) /\ SchedulesOf(l)' = SchedulesOf(l)
      BY <2>1 DEF PaymentsOf, SchedulesOf
    <2>3. PaidOnce'
      BY <2>1, <2>2 DEF IInv, PaidOnce, Payment
    <2>4. DisbursedOnce'
      BY <2>1, <2>2 DEF IInv, DisbursedOnce
    <2>5. OnlyApprovedTermsPaid'
      BY <2>1, HistoryGrows DEF IInv, OnlyApprovedTermsPaid
    <2> QED
      BY <2>3, <2>4, <2>5
  <1> QED
    BY <1>1, <1>2

(* A loan that is approved has its terms in the history. *)
LEMMA ApprovedKept ==
  ASSUME IInv, [Next]_vars
  PROVE  Approved(detail') \subseteq approvedTerms'
  <1>1. TypeOK
    BY DEF IInv, Core
  <1>2. ASSUME NEW p \in Proc, Ends(p)
        PROVE  Approved(detail') \subseteq approvedTerms'
    <2>1. CASE Changes(p)
      BY <2>1, ChangeType
    <2>2. CASE ~Changes(p)
      BY <1>2, <2>2, EndsWithout DEF IInv, loans
    <2> QED
      BY <2>1, <2>2
  <1>3. ASSUME NEW p \in Proc, Moves(p)
        PROVE  Approved(detail') \subseteq approvedTerms'
    BY <1>1, <1>3, MoveIs DEF IInv, loans
  <1> QED
    BY <1>2, <1>3, NextIs DEF Start, Refuse, loans, vars, IInv

-----------------------------------------------------------------------------
(* The theorems.                                                             *)

(* The rows a tenant starts with satisfy the inductive invariant: no loan is paid yet. *)
LEMMA InitIInv ==
  ASSUME Init
  PROVE  IInv
  <1>1. TypeOK
    <2>1. \A t \in Approved(OpeningDetail) : t.loan \in Loan /\ t.terms \in Terms
      <3>1. OpeningDetail \in [Loan -> LoanDetail]
        BY LoanAssumption
      <3> QED
        BY <3>1, TermsType DEF Approved
    <2>2. <<>> \in Seq(Claim)
      OBVIOUS
    <2> QED
      BY <2>1, <2>2, LoanAssumption DEF Init, TypeOK
  <1>2. \A p \in Proc : Working(p) /\ Disbursing(p)
    BY DEF Init, Working, Disbursing
  <1>3. \A l \in Loan : detail[l].status # "disbursed"
    BY LoanAssumption DEF Init
  <1>4. PaidOnce /\ DisbursedOnce /\ OnlyApprovedTermsPaid
    BY <1>3 DEF Init, PaidOnce, DisbursedOnce, OnlyApprovedTermsPaid, PaymentsOf, SchedulesOf
  <1>5. Approved(detail) \subseteq approvedTerms
    BY DEF Init
  <1> QED
    BY <1>1, <1>2, <1>4, <1>5 DEF IInv, Core

(* Every step keeps the inductive invariant. *)
LEMMA NextIInv ==
  ASSUME IInv, [Next]_vars
  PROVE  IInv'
  <1>1. TypeOK'
    BY NextTypeOK
  <1>2. \A p \in Proc : Working(p)' /\ Disbursing(p)'
    BY WorkingKept, DisbursingKept
  <1>3. Approved(detail') \subseteq approvedTerms'
    BY ApprovedKept
  <1>4. PaidOnce' /\ DisbursedOnce' /\ OnlyApprovedTermsPaid'
    BY PaymentsKept
  <1> QED
    BY <1>1, <1>2, <1>3, <1>4 DEF IInv, Core

(* The inductive invariant holds. *)
LEMMA Invariance == Spec => []IInv
  <1>1. Init => IInv
    BY InitIInv
  <1>2. IInv /\ [Next]_vars => IInv'
    BY NextIInv
  <1> QED
    BY <1>1, <1>2, PTL DEF Spec

(* Whatever requests overlap, crash or are aborted, the rows of the loans, the accounts, the
   locks and the requests stay what the schema and the handlers say they are. *)
THEOREM TypeCorrectness == Spec => []TypeOK
  <1>1. IInv => TypeOK
    BY DEF IInv, Core
  <1> QED
    BY <1>1, Invariance, PTL

(* A loan is paid out at most once, with one journal and one schedule, although a stale approval
   can bring it back to approved; one that says it is disbursed has been paid out. *)
THEOREM LoansArePaidOnce == Spec => []DisbursedOnce
  <1>1. IInv => DisbursedOnce
    BY DEF IInv
  <1> QED
    BY <1>1, Invariance, PTL

(* disburseLoan pays by terms it read before its transaction: they are terms the loan had at
   some time while it was approved. *)
THEOREM PaidByApprovedTerms == Spec => []OnlyApprovedTermsPaid
  <1>1. IInv => OnlyApprovedTermsPaid
    BY DEF IInv
  <1> QED
    BY <1>1, Invariance, PTL

-----------------------------------------------------------------------------
(* The books.                                                                *)

(* The lines of a journal that gives an amount to an account, takes a principal from a ledger
   and gives something to a ledger at most. *)
Pays(lines, to, amount, principal) ==
  \E x, y, B :
    /\ lines = {x, y} \cup B /\ IsFiniteSet(B)
    /\ x.of = <<to, "leg">> /\ x.debit = 0 /\ x.credit = amount
    /\ y.debit = principal /\ \A e \in B : e.debit = 0
    /\ \A a \in Account : \A e \in B \cup {y} : e.of # <<a, "leg">>

(* The posting of a disbursement takes the principal from the loan's ledger, and gives one amount
   to an account and one to a fee ledger at most. *)
PaymentHas(pl, to, g, fees, d) ==
  /\ fees = {} \/ \E h \in Gl : fees = {h}
  /\ DOMAIN pl.debits = {g} /\ DOMAIN pl.credits = {to} \cup fees
  /\ DebitIds(pl) = {g} /\ CreditIds(pl) = {to} \cup fees
  /\ AmountOf(pl, g) = d.principal
  /\ pl.credits[to] = AmountOf(pl, to)
  /\ AmountOf(pl, to) = HalfEven(FeeUnit * d.principal - UpfrontFee(d), FeeUnit)
  /\ AmountOf(pl, to) \in Int
  /\ \A h \in fees : h # g => AmountOf(pl, h) \in Int
  /\ JournalOf(pl).lines =
       {Line(<<to, "leg">>, ControlGl[to], 0, AmountOf(pl, to)),
        Line(<<g, "leg">>, g, d.principal, 0)}
         \cup {Line(<<h, "leg">>, h, 0, AmountOf(pl, h)) : h \in fees}

(* The lines of such a posting are its parts. *)
LEMMA PaymentShape ==
  ASSUME NEW r \in Request, r.kind = "disburse", NEW s \in Seen, NEW to \in Account,
         to = PayTo(r, s.detail), NEW pl, pl = PayloadOf(r, s)
  PROVE  \E g \in Gl, fees \in SUBSET Gl : PaymentHas(pl, to, g, fees, s.detail)
<1> DEFINE g == s.account.gl  n == FeeUnit * s.detail.principal - UpfrontFee(s.detail)
           fees == IF HasUpfrontFee(s.detail) /\ FeeGlFor(r, s.detail) # None
                   THEN {FeeGlFor(r, s.detail)} ELSE {}
<1>1. s.detail \in LoanDetail /\ g \in Gl /\ s.detail.feeGl \in Gl \cup {None}
  BY DEF Seen, LoanAccountRow, LoanDetail
<1>2. fees \in SUBSET Gl /\ (fees = {} \/ \E h \in Gl : fees = {h})
  <2>1. r.feeGl \in Gl \cup {None}
    BY RequestType DEF IsDisbursement
  <2>2. fees \subseteq Gl
    BY <1>1, <2>1 DEF FeeGlFor, Given
  <2>3. fees = {} \/ fees = {FeeGlFor(r, s.detail)}
    OBVIOUS
  <2> QED BY <2>2, <2>3
<1>3. /\ DOMAIN pl.customerAccounts = {} /\ DOMAIN pl.debits = {g} /\ DOMAIN pl.credits = {to} \cup fees
      /\ pl.operationType = "none" /\ pl.fee = None
      /\ pl.debits[g] = s.detail.principal /\ pl.credits[to] = HalfEven(n, FeeUnit)
  BY DEF PayloadOf, NoLegs
<1>4. \A h \in fees : h # to => pl.credits[h] = HalfEven(UpfrontFee(s.detail), FeeUnit)
  BY DEF PayloadOf
<1>5. DebitIds(pl) = {g} /\ CreditIds(pl) = {to} \cup fees
  BY <1>3 DEF DebitIds, CreditIds, CustomerSide
<1>6. s.detail.principal \in Nat /\ UpfrontFee(s.detail) \in Nat /\ n \in Int
  <2>1. s.detail.principal \in Nat
    BY <1>1 DEF LoanDetail
  <2>2. UpfrontFee(s.detail) \in Nat
    BY <1>1, UpfrontFeeType
  <2> QED BY <2>1, <2>2 DEF FeeUnit
<1> HIDE DEF g, fees
<1>7. to \notin Gl /\ to # g /\ Account \cap Gl = {}
  BY <1>1, TenantAssumption
<1>8. AmountOf(pl, g) = s.detail.principal /\ AmountOf(pl, to) = HalfEven(n, FeeUnit)
  BY <1>3, <1>7 DEF AmountOf
<1>9. HalfEven(n, FeeUnit) \in Int /\ HalfEven(UpfrontFee(s.detail), FeeUnit) \in Int
  <2> HIDE DEF n
  <2> QED BY <1>6, HalfEvenType DEF FeeUnit
<1>10. \A h \in fees : h # g => AmountOf(pl, h) \in Int
  <2> SUFFICES ASSUME NEW h \in fees, h # g PROVE AmountOf(pl, h) \in Int
    OBVIOUS
  <2>1. AmountOf(pl, h) = pl.credits[h] /\ h # to
    BY <1>2, <1>3, <1>7 DEF AmountOf
  <2> QED BY <1>4, <1>9, <2>1
<1>11. /\ DebitAccounts(pl) = {} /\ CreditAccounts(pl) = {to}
       /\ DebitIds(pl) \cap Gl = {g} /\ CreditIds(pl) \cap Gl = fees
  BY <1>1, <1>2, <1>5, <1>7 DEF DebitAccounts, CreditAccounts
<1>12. FeeLines(pl) = {}
  BY <1>3 DEF FeeLines, HasFee
<1>13. AccountLines(pl) = {Line(<<to, "leg">>, ControlGl[to], 0, AmountOf(pl, to))}
  BY <1>11 DEF AccountLines
<1>14. LedgerLines(pl) = {Line(<<g, "leg">>, g, s.detail.principal, 0)}
                            \cup {Line(<<h, "leg">>, h, 0, AmountOf(pl, h)) : h \in fees}
  BY <1>8, <1>11 DEF LedgerLines
<1>15. JournalOf(pl).lines =
         {Line(<<to, "leg">>, ControlGl[to], 0, AmountOf(pl, to)),
          Line(<<g, "leg">>, g, s.detail.principal, 0)}
           \cup {Line(<<h, "leg">>, h, 0, AmountOf(pl, h)) : h \in fees}
  BY <1>12, <1>13, <1>14 DEF JournalOf
<1>16. PaymentHas(pl, to, g, fees, s.detail)
  BY <1>2, <1>3, <1>5, <1>8, <1>9, <1>10, <1>15 DEF PaymentHas
<1> QED BY <1>1, <1>2, <1>16

(* The posting of a disbursement has one line for the account that is paid, which gives it what
   its balance grows by, and one that takes the principal from the loan's ledger. *)
LEMMA PaymentLines ==
  ASSUME NEW r \in Request, r.kind = "disburse", NEW s \in Seen, NEW to \in Account,
         to = PayTo(r, s.detail), NEW pl, pl = PayloadOf(r, s)
  PROVE  /\ AmountOf(pl, to) \in Int
         /\ \A row : NewBookBalance(pl, to, row) = row.bookBalance + AmountOf(pl, to)
         /\ Pays(JournalOf(pl).lines, to, AmountOf(pl, to), s.detail.principal)
<1>1. PICK g \in Gl, fees \in SUBSET Gl : PaymentHas(pl, to, g, fees, s.detail)
  BY PaymentShape
<1>2. /\ AmountOf(pl, to) \in Int /\ to \notin Gl /\ Account \cap Gl = {}
      /\ DebitIds(pl) = {g} /\ CreditIds(pl) = {to} \cup fees
  BY <1>1, TenantAssumption DEF PaymentHas
<1>3. \A row : NewBookBalance(pl, to, row) = row.bookBalance + AmountOf(pl, to)
  BY <1>2 DEF NewBookBalance, DebitAccounts
<1>4. PICK x, y, B : /\ x = Line(<<to, "leg">>, ControlGl[to], 0, AmountOf(pl, to))
                     /\ y = Line(<<g, "leg">>, g, s.detail.principal, 0)
                     /\ B = {Line(<<h, "leg">>, h, 0, AmountOf(pl, h)) : h \in fees}
  OBVIOUS
<1>5. JournalOf(pl).lines = {x, y} \cup B
  BY <1>1, <1>4 DEF PaymentHas
<1>6. IsFiniteSet(B)
  <2>1. PICK h : fees = {} \/ fees = {h}
    BY <1>1 DEF PaymentHas
  <2>2. B = {} \/ B = {Line(<<h, "leg">>, h, 0, AmountOf(pl, h))}
    BY <1>4, <2>1
  <2>3. \A e : IsFiniteSet({e})
    BY FS_Singleton
  <2> QED BY <2>2, <2>3, FS_EmptySet
<1>7. /\ x.of = <<to, "leg">> /\ x.debit = 0 /\ x.credit = AmountOf(pl, to)
      /\ y.of = <<g, "leg">> /\ y.debit = s.detail.principal
      /\ \A e \in B : e.debit = 0 /\ \E h \in Gl : e.of = <<h, "leg">>
  BY <1>4 DEF Line
<1>8. \A a \in Account : \A e \in B \cup {y} : e.of # <<a, "leg">>
  BY <1>2, <1>7
<1>9. Pays(JournalOf(pl).lines, to, AmountOf(pl, to), s.detail.principal)
  BY <1>5, <1>6, <1>7, <1>8 DEF Pays
<1> QED BY <1>2, <1>3, <1>9

(* What such a journal takes from ledgers, and what it gives to an account. *)
LEMMA PaymentMoves ==
  ASSUME NEW r \in Request, r.kind = "disburse", NEW s \in Seen, NEW to \in Account,
         to = PayTo(r, s.detail), NEW pl, pl = PayloadOf(r, s),
         NEW j, j.entry = JournalOf(pl)
  PROVE  /\ DebitedBy(j) = s.detail.principal
         /\ CreditedTo(j, to) = AmountOf(pl, to)
         /\ \A a \in Account \ {to} : CreditedTo(j, a) = 0
<1>1. /\ s.detail.principal \in Int /\ AmountOf(pl, to) \in Int
      /\ Pays(j.entry.lines, to, AmountOf(pl, to), s.detail.principal)
  <2>1. s.detail.principal \in Nat
    BY DEF Seen, LoanDetail
  <2> QED BY <2>1, PaymentLines
<1>2. PICK x, y, B :
        /\ j.entry.lines = {x, y} \cup B /\ IsFiniteSet(B)
        /\ x.of = <<to, "leg">> /\ x.debit = 0 /\ x.credit = AmountOf(pl, to)
        /\ y.debit = s.detail.principal /\ \A e \in B : e.debit = 0
        /\ \A a \in Account : \A e \in B \cup {y} : e.of # <<a, "leg">>
  BY <1>1 DEF Pays
<1>3. IsFiniteSet(j.entry.lines)
  <2>1. IsFiniteSet(B \cup {y})
    BY <1>2, FS_AddElement
  <2>2. IsFiniteSet((B \cup {y}) \cup {x}) /\ (B \cup {y}) \cup {x} = {x, y} \cup B
    BY <2>1, FS_AddElement
  <2> QED BY <1>2, <2>2
<1>4. DebitedBy(j) = s.detail.principal
  <2> DEFINE S == j.entry.lines  f == [e \in S |-> e.debit]
  <2>1. DOMAIN f = S /\ \A e \in S : f[e] = e.debit
    OBVIOUS
  <2>2. DebitedBy(j) = SumFunctionOnSet(f, S)
    BY <2>1, Zenon DEF DebitedBy, SumFunction
  <2> HIDE DEF f
  <2>3. y \in S /\ IsFiniteSet(S) /\ {y} \in SUBSET S
    BY <1>2, <1>3
  <2>4. f[y] = s.detail.principal /\ \A e \in S \ {y} : f[e] = 0
    BY <1>2, <2>1, <2>3
  <2>5. \A e \in S : f[e] \in Int
    BY <1>1, <2>4
  <2> HIDE DEF S
  <2>6. SumFunctionOnSet(f, S) = SumFunctionOnSet(f, {y})
    BY <2>3, <2>4, <2>5, SumOfPart
  <2> QED BY <1>1, <2>2, <2>4, <2>6, SumOne
<1>5. CreditedTo(j, to) = AmountOf(pl, to)
  <2> DEFINE S == {e \in j.entry.lines : e.of = <<to, "leg">>}  f == [e \in S |-> e.credit]
  <2>1. S = {x}
    BY <1>2
  <2>2. DOMAIN f = S /\ f[x] = AmountOf(pl, to)
    BY <1>2, <2>1
  <2>3. CreditedTo(j, to) = SumFunctionOnSet(f, S)
    BY <2>2, Zenon DEF CreditedTo, SumFunction
  <2> HIDE DEF f, S
  <2> QED BY <1>1, <2>1, <2>2, <2>3, SumOne
<1>6. ASSUME NEW a \in Account \ {to} PROVE CreditedTo(j, a) = 0
  <2> DEFINE S == {e \in j.entry.lines : e.of = <<a, "leg">>}  f == [e \in S |-> e.credit]
  <2>1. S = {}
    BY <1>2
  <2>2. DOMAIN f = S
    OBVIOUS
  <2>3. CreditedTo(j, a) = SumFunctionOnSet(f, S)
    BY <2>2, Zenon DEF CreditedTo, SumFunction
  <2> QED BY <2>1, <2>3, SumEmpty
<1> QED BY <1>4, <1>5, <1>6

-----------------------------------------------------------------------------
(* The books of one loan, and of one account, as named parts. *)
TakenFor(l)     == SumFunction([j \in PaymentsOf(l) |-> DebitedBy(j)])
ScheduledFor(l) == SumFunction([s \in SchedulesOf(l) |-> s.terms.principal])
GivenTo(a)      == SumFunction([j \in journals |-> CreditedTo(j, a)])

LoanBooks(l) == account[l].book = -TakenFor(l) /\ account[l].book = -ScheduledFor(l)
AccountBook(a) == accts[a].bookBalance - OpeningRow[a].bookBalance = GivenTo(a)

(* The books agree, and there is something to add up. *)
Books ==
  /\ \A l \in Loan : LoanBooks(l)
  /\ \A a \in Account : AccountBook(a)
  /\ IsFiniteSet(journals)
  /\ \A j \in journals : \A a \in Account : CreditedTo(j, a) \in Int

(* At the start no loan has been paid. *)
LEMMA InitBooks ==
  ASSUME Init
  PROVE  Books
<1>1. \A f : DOMAIN f = {} => SumFunction(f) = 0
  BY SumEmpty, Zenon DEF SumFunction
<1>2. ASSUME NEW l \in Loan PROVE LoanBooks(l)
  <2>1. PaymentsOf(l) = {} /\ SchedulesOf(l) = {}
    BY DEF Init, PaymentsOf, SchedulesOf
  <2>2. TakenFor(l) = 0 /\ ScheduledFor(l) = 0
    <3>1. DOMAIN [j \in PaymentsOf(l) |-> DebitedBy(j)] = {}
      BY <2>1
    <3>2. DOMAIN [s \in SchedulesOf(l) |-> s.terms.principal] = {}
      BY <2>1
    <3> QED BY <1>1, <3>1, <3>2, Zenon DEF TakenFor, ScheduledFor
  <2>3. account[l].book = 0
    BY LoanAssumption DEF Init
  <2>4. 0 = -0
    <3>1. \A n \in Int : -n = 0 - n
      OBVIOUS
    <3>2. 0 \in Int /\ 0 - 0 = 0
      OBVIOUS
    <3> QED BY <3>1, <3>2, Zenon
  <2> QED BY <2>2, <2>3, <2>4, Zenon DEF LoanBooks
<1>3. ASSUME NEW a \in Account PROVE AccountBook(a)
  <2>1. DOMAIN [j \in journals |-> CreditedTo(j, a)] = {}
    BY DEF Init
  <2>2. GivenTo(a) = 0
    BY <1>1, <2>1, Zenon DEF GivenTo
  <2>3. accts[a] = OpeningRow[a] /\ OpeningRow[a].bookBalance \in Int
    BY LoanAssumption DEF Init, AccountRow
  <2> QED BY <2>2, <2>3 DEF AccountBook
<1>4. journals = {}
  BY DEF Init
<1> QED BY <1>2, <1>3, <1>4, FS_EmptySet DEF Books

(* The balance of a loan account is written by its payment alone. *)
LEMMA OnlyPaymentsMoveMoney ==
  ASSUME IInv, [Next]_vars, \A p \in Proc : ~DisburseLoan(p)
  PROVE  /\ UNCHANGED <<journals, schedules, accts>>
         /\ \A l \in Loan : account'[l].book = account[l].book
<1>1. TypeOK
  BY DEF IInv, Core
<1>2. ASSUME NEW p \in Proc, Changes(p)
      PROVE  UNCHANGED accts /\ \A l \in Loan : account'[l].book = account[l].book
  <2>1. UNCHANGED accts
    BY <1>2, ChangesWithout DEF bank
  <2>2. account \in [Loan -> LoanAccountRow]
    BY <1>1 DEF TypeOK
  <2>3. \A l \in Loan : account'[l].book = account[l].book
    <3>1. CASE ApproveLoan(p)
      BY <2>2, <3>1 DEF ApproveLoan, LoanAccountRow
    <3>2. CASE DeclineLoan(p)
      BY <2>2, <3>2 DEF DeclineLoan, LoanAccountRow
    <3>3. CASE UndoApproval(p)
      BY <2>2, <3>3 DEF UndoApproval, LoanAccountRow
    <3>4. CASE ActivateAccount(p)
      BY <2>2, <3>4 DEF ActivateAccount, LoanAccountRow
    <3>5. CASE UpdateLoanDetails(p)
      BY <2>2, <3>5 DEF UpdateLoanDetails, LoanAccountRow
    <3> QED BY <1>2, <3>1, <3>2, <3>3, <3>4, <3>5 DEF Changes
  <2> QED BY <2>1, <2>3
<1>3. UNCHANGED accts /\ \A l \in Loan : account'[l].book = account[l].book
  <2>1. ASSUME NEW p \in Proc, Ends(p), ~Changes(p)
        PROVE  UNCHANGED <<accts, account>>
    BY <2>1, EndsWithout DEF bank, loans
  <2>2. ASSUME NEW p \in Proc, Moves(p)
        PROVE  UNCHANGED <<accts, account>>
    BY <1>1, <2>2, MoveIs DEF bank, loans
  <2>4. ASSUME NEW p \in Proc, NEW r \in Request, Start(p, r) \/ Refuse(p, r)
        PROVE  UNCHANGED <<accts, account>>
    BY <2>4 DEF Start, Refuse, bank, loans
  <2>5. CASE UNCHANGED vars
    BY <2>5 DEF vars
  <2> QED BY <1>2, <2>1, <2>2, <2>4, <2>5, NextIs
<1> QED BY <1>3, OnlyPaymentsPay

(* A payment writes the four books alike. *)
LEMMA PaymentKeepsBooks ==
  ASSUME IInv, Books, [Next]_vars, NEW p \in Proc, DisburseLoan(p)
  PROVE  Books'
<1>1. PICK k \in Loan, r \in Request, s \in Seen, to \in Account :
        /\ k = job[p].loan /\ r = job[p] /\ s = seen[p] /\ to = PayTo(r, s.detail)
        /\ r.kind = "disburse"
        /\ Parties(PayloadOf(r, s)) = {to}
        /\ JournalOf(PayloadOf(r, s)).reference = LoanRef[k]
        /\ Payment(k) \notin transactions
  <2>1. /\ job[p] \in Request /\ job[p].kind = "disburse" /\ job[p].loan \in Loan
        /\ seen[p] \in Seen /\ PayTo(job[p], seen[p].detail) \in Account
        /\ Parties(PayloadOf(job[p], seen[p])) = {PayTo(job[p], seen[p].detail)}
        /\ JournalOf(PayloadOf(job[p], seen[p])).reference = LoanRef[job[p].loan]
        /\ Payment(job[p].loan) \notin transactions
    BY PaymentIs DEF Payload
  <2> QED BY <2>1
<1>2. PICK pl, j, x : /\ pl = PayloadOf(r, s) /\ j = [id |-> p, entry |-> JournalOf(pl)]
                      /\ x = [by |-> p, loan |-> k, terms |-> TermsOf(s.detail)]
  OBVIOUS
<1>3. /\ journals' = journals \cup {j} /\ schedules' = schedules \cup {x}
      /\ account' = [account EXCEPT ![k].status = "active", ![k].book = -s.detail.principal]
      /\ accts' = [a \in Account |-> IF a \in {to}
                     THEN [accts[a] EXCEPT !.bookBalance = NewBookBalance(pl, a, accts[a])]
                     ELSE accts[a]]
  BY <1>1, <1>2 DEF DisburseLoan, Payload, LoanBook
<1>4. /\ j.entry = JournalOf(pl) /\ j.entry.reference = LoanRef[k]
      /\ x.loan = k /\ x.terms.principal = s.detail.principal
  BY <1>1, <1>2 DEF TermsOf
<1>5. s.detail.principal \in Int
  <2>1. s.detail.principal \in Nat
    BY DEF Seen, LoanDetail
  <2> QED BY <2>1
<1>6. /\ AmountOf(pl, to) \in Int
      /\ NewBookBalance(pl, to, accts[to]) = accts[to].bookBalance + AmountOf(pl, to)
  BY <1>1, <1>2, PaymentLines
<1>7. /\ DebitedBy(j) = s.detail.principal
      /\ CreditedTo(j, to) = AmountOf(pl, to)
      /\ \A a \in Account \ {to} : CreditedTo(j, a) = 0
  BY <1>1, <1>2, <1>4, PaymentMoves
<1>8. PaymentsOf(k) = {} /\ SchedulesOf(k) = {}
  BY <1>1 DEF IInv, PaidOnce
<1>9. PaymentsOf(k)' = {j} /\ SchedulesOf(k)' = {x}
  <2>1. \A y \in journals : y.entry.reference # LoanRef[k]
    BY <1>8 DEF PaymentsOf
  <2>2. \A y \in schedules : y.loan # k
    BY <1>8 DEF SchedulesOf
  <2> QED BY <1>3, <1>4, <2>1, <2>2 DEF PaymentsOf, SchedulesOf
<1>10. /\ account \in [Loan -> LoanAccountRow] /\ accts \in [Account -> AccountRow]
       /\ account[k] \in LoanAccountRow /\ accts[to] \in AccountRow
  BY DEF IInv, Core, TypeOK
<1>11. ASSUME NEW l \in Loan PROVE LoanBooks(l)'
  <2>1. CASE l = k
    <3>1. account'[k].book = -s.detail.principal
      BY <1>3, <1>10 DEF LoanAccountRow
    <3>2. TakenFor(k)' = s.detail.principal
      <4> DEFINE f == [y \in {j} |-> DebitedBy(y)]
      <4>1. DOMAIN f = {j} /\ f[j] = s.detail.principal
        BY <1>7
      <4>2. TakenFor(k)' = SumFunctionOnSet(f, {j})
        BY <1>9, <4>1, Zenon DEF TakenFor, SumFunction, DebitedBy
      <4> HIDE DEF f
      <4> QED BY <1>5, <4>1, <4>2, SumOne
    <3>3. ScheduledFor(k)' = s.detail.principal
      <4> DEFINE f == [y \in {x} |-> y.terms.principal]
      <4>1. DOMAIN f = {x} /\ f[x] = s.detail.principal
        BY <1>4
      <4>2. ScheduledFor(k)' = SumFunctionOnSet(f, {x})
        BY <1>9, <4>1, Zenon DEF ScheduledFor, SumFunction
      <4> HIDE DEF f
      <4> QED BY <1>5, <4>1, <4>2, SumOne
    <3> QED BY <2>1, <3>1, <3>2, <3>3 DEF LoanBooks
  <2>2. CASE l # k
    <3>1. account'[l] = account[l]
      BY <1>3, <1>10, <2>2
    <3>2. LoanRef[l] # LoanRef[k]
      BY <2>2, LoanAssumption
    <3>3. PaymentsOf(l)' = PaymentsOf(l) /\ SchedulesOf(l)' = SchedulesOf(l)
      BY <1>3, <1>4, <2>2, <3>2 DEF PaymentsOf, SchedulesOf
    <3>4. TakenFor(l)' = TakenFor(l) /\ ScheduledFor(l)' = ScheduledFor(l)
      BY <3>3, Zenon DEF TakenFor, ScheduledFor, DebitedBy
    <3> QED BY <3>1, <3>4 DEF Books, LoanBooks
  <2> QED BY <2>1, <2>2
<1>12. j \notin journals
  BY <1>4, <1>8 DEF PaymentsOf
<1>13. \A y \in journals' : \A a \in Account : CreditedTo(y, a) \in Int
  BY <1>3, <1>6, <1>7 DEF Books
<1>14. ASSUME NEW a \in Account PROVE AccountBook(a)'
  <2> DEFINE f == [y \in journals |-> CreditedTo(y, a)]
             g == [y \in journals \cup {j} |-> CreditedTo(y, a)]
  <2>1. /\ DOMAIN f = journals /\ DOMAIN g = journals \cup {j}
        /\ \A y \in journals : f[y] = g[y] /\ f[y] \in Int
        /\ g[j] = CreditedTo(j, a) /\ g[j] \in Int
    BY <1>3, <1>13 DEF Books
  <2>2. GivenTo(a) = SumFunctionOnSet(f, journals)
    BY <2>1, Zenon DEF GivenTo, SumFunction
  <2>3. GivenTo(a)' = SumFunctionOnSet(g, journals \cup {j})
    BY <1>3, <2>1, Zenon DEF GivenTo, SumFunction, CreditedTo
  <2> HIDE DEF f, g
  <2>4. IsFiniteSet(journals)
    BY DEF Books
  <2>5. SumFunctionOnSet(g, journals \cup {j}) = g[j] + SumFunctionOnSet(g, journals)
    BY <1>12, <2>1, <2>4, SumAdd
  <2>6. SumFunctionOnSet(f, journals) = SumFunctionOnSet(g, journals) /\ SumFunctionOnSet(f, journals) \in Int
    BY <2>1, <2>4, SumSame, SumType
  <2>7. GivenTo(a)' = GivenTo(a) + CreditedTo(j, a) /\ GivenTo(a) \in Int /\ CreditedTo(j, a) \in Int
    BY <2>1, <2>2, <2>3, <2>5, <2>6
  <2>8. accts'[a].bookBalance = accts[a].bookBalance + CreditedTo(j, a)
    <3>1. CASE a = to
      <4>1. PICK n : n = NewBookBalance(pl, to, accts[to])
        OBVIOUS
      <4>2. accts'[to] = [accts[to] EXCEPT !.bookBalance = n]
        BY <1>3, <4>1
      <4>3. accts'[to].bookBalance = n
        BY <1>10, <4>2 DEF AccountRow
      <4> QED BY <1>6, <1>7, <3>1, <4>1, <4>3
    <3>2. CASE a # to
      <4>1. accts'[a] = accts[a] /\ CreditedTo(j, a) = 0
        BY <1>3, <1>7, <3>2
      <4>2. accts[a].bookBalance \in Int
        BY <1>10 DEF AccountRow
      <4> QED BY <4>1, <4>2
    <3> QED BY <3>1, <3>2
  <2>9. accts[a].bookBalance \in Int /\ OpeningRow[a].bookBalance \in Int
    BY <1>10, LoanAssumption DEF AccountRow
  <2>10. accts[a].bookBalance - OpeningRow[a].bookBalance = GivenTo(a)
    BY DEF Books, AccountBook
  <2> QED BY <2>7, <2>8, <2>9, <2>10 DEF AccountBook
<1>15. IsFiniteSet(journals')
  BY <1>3, FS_AddElement DEF Books
<1> QED BY <1>11, <1>13, <1>14, <1>15 DEF Books, CreditedTo

(* Every step keeps the books. *)
LEMMA NextBooks ==
  ASSUME IInv, Books, [Next]_vars
  PROVE  Books'
<1>1. CASE \E p \in Proc : DisburseLoan(p)
  BY <1>1, PaymentKeepsBooks
<1>2. CASE ~\E p \in Proc : DisburseLoan(p)
  <2>1. /\ journals' = journals /\ schedules' = schedules /\ accts' = accts
        /\ \A l \in Loan : account'[l].book = account[l].book
    BY <1>2, OnlyPaymentsMoveMoney
  <2>2. ASSUME NEW l \in Loan PROVE LoanBooks(l)'
    <3>1. PaymentsOf(l)' = PaymentsOf(l) /\ SchedulesOf(l)' = SchedulesOf(l)
      BY <2>1 DEF PaymentsOf, SchedulesOf
    <3>2. TakenFor(l)' = TakenFor(l) /\ ScheduledFor(l)' = ScheduledFor(l)
      BY <3>1, Zenon DEF TakenFor, ScheduledFor, DebitedBy
    <3> QED BY <2>1, <3>2 DEF Books, LoanBooks
  <2>3. ASSUME NEW a \in Account PROVE AccountBook(a)'
    <3>1. GivenTo(a)' = GivenTo(a)
      BY <2>1, Zenon DEF GivenTo, CreditedTo
    <3> QED BY <2>1, <3>1 DEF Books, AccountBook
  <2>4. \A j \in journals : \A a \in Account : CreditedTo(j, a)' \in Int
    BY DEF Books, CreditedTo
  <2> QED BY <2>1, <2>2, <2>3, <2>4 DEF Books, CreditedTo
<1> QED BY <1>1, <1>2

(* The four books of a disbursement, which are computed from rows read at different times, agree:
   what the journals take from the loan's ledger is the principal of its schedule and the balance
   of its account, and what they give to an account is what its balance has grown by. *)
THEOREM BooksAreKept == Spec => []BooksAgree
<1>1. Init => Books
  BY InitBooks
<1>2. IInv /\ Books /\ [Next]_vars => Books'
  BY NextBooks
<1>3. Books => BooksAgree
  BY DEF Books, LoanBooks, AccountBook, TakenFor, ScheduledFor, GivenTo, BooksAgree
<1> QED BY <1>1, <1>2, <1>3, Invariance, PTL DEF Spec

-----------------------------------------------------------------------------
(* A disbursement implements the abstract payout.                            *)

(* A disbursement that has its first row has had its posting validated. *)
Checked(p) ==
  pc[p] = "work" /\ Kind(p) = "disburse" =>
    todo[p] = Plan(job[p], seen[p]) \/ Accepted(Payload(p))

(* What the fees have brought, and that there is something to add up. *)
Earned == SumFunction([j \in journals |-> EarnedBy(j)])
Earnings ==
  /\ \A p \in Proc : Checked(p)
  /\ \A j \in journals : EarnedBy(j) \in Int

(* Nobody but p itself moves in p's plan. *)
LEMMA PlanOf ==
  ASSUME IInv, [Next]_vars, NEW q \in Proc
  PROVE  \/ pc'[q] = "done"
         \/ \E r \in Request : Start(q, r)
         \/ Moves(q)
         \/ pc'[q] = pc[q] /\ job'[q] = job[q] /\ seen'[q] = seen[q] /\ todo'[q] = todo[q]
<1>1. TypeOK
  BY DEF IInv, Core
<1>2. ASSUME NEW p \in Proc, NEW r \in Request, Start(p, r), p # q
      PROVE  pc'[q] = pc[q] /\ job'[q] = job[q] /\ seen'[q] = seen[q] /\ todo'[q] = todo[q]
  BY <1>1, <1>2 DEF Start, TypeOK
<1>3. ASSUME NEW p \in Proc, NEW r \in Request, Refuse(p, r)
      PROVE  \/ pc'[q] = "done"
             \/ pc'[q] = pc[q] /\ job'[q] = job[q] /\ seen'[q] = seen[q] /\ todo'[q] = todo[q]
  BY <1>1, <1>3 DEF Refuse, TypeOK
<1>4. ASSUME NEW p \in Proc, Moves(p), p # q
      PROVE  pc'[q] = pc[q] /\ job'[q] = job[q] /\ seen'[q] = seen[q] /\ todo'[q] = todo[q]
  BY <1>1, <1>4, MoveIs DEF TypeOK
<1>5. ASSUME NEW p \in Proc, Ends(p)
      PROVE  \/ pc'[q] = "done"
             \/ pc'[q] = pc[q] /\ job'[q] = job[q] /\ seen'[q] = seen[q] /\ todo'[q] = todo[q]
  <2>1. \E answer \in {"ok", "threw", "failed", "lost"} : Finish(p, answer)
    BY <1>5, EndsFinish
  <2> QED BY <1>1, <2>1, FinishType
<1>6. CASE UNCHANGED vars
  BY <1>6 DEF vars
<1> QED BY <1>2, <1>3, <1>4, <1>5, <1>6, NextIs

(* The first row of a disbursement is locked only if its posting is accepted. *)
LEMMA CheckedKept ==
  ASSUME IInv, [Next]_vars, NEW q \in Proc, Checked(q)
  PROVE  Checked(q)'
<1>1. TypeOK
  BY DEF IInv, Core
<1>2. CASE pc'[q] = "done"
  BY <1>2 DEF Checked
<1>3. ASSUME NEW r \in Request, Start(q, r) PROVE Checked(q)'
  <2>1. todo'[q] = Plan(job'[q], seen'[q])
    BY <1>1, <1>3, StartIs
  <2> QED BY <2>1 DEF Checked
<1>4. CASE Moves(q)
  <2>1. /\ pc[q] = "work" /\ todo[q] # <<>> /\ job' = job /\ seen' = seen /\ UNCHANGED <<pc, detail>>
    BY <1>1, <1>4, MoveIs DEF loans
  <2>2. SUFFICES ASSUME Kind(q) = "disburse", todo[q] = Plan(job[q], seen[q])
                 PROVE  Accepted(Payload(q))
    BY <2>1 DEF Checked, Kind, Payload
  <2>3. Head(todo[q]) = DetailRow(job[q].loan)
    BY <2>2 DEF Plan, Kind
  <2>4. ~Rejects(q, Head(todo[q]))
    BY <1>1, <1>4, <2>2, MoveAllowed
  <2> QED BY <2>2, <2>3, <2>4 DEF Rejects, StillDisbursable
<1>6. CASE pc'[q] = pc[q] /\ job'[q] = job[q] /\ seen'[q] = seen[q] /\ todo'[q] = todo[q]
  <2>1. Payload(q)' = Payload(q) /\ Plan(job'[q], seen'[q]) = Plan(job[q], seen[q])
    BY <1>6, Zenon DEF Payload
  <2> QED BY <1>6, <2>1 DEF Checked, Kind
<1> QED BY <1>2, <1>3, <1>4, <1>6, PlanOf

(* What a payment that has been accepted leaves to the customer, and what it earns. *)
LEMMA PaymentEarns ==
  ASSUME NEW r \in Request, r.kind = "disburse", NEW s \in Seen, NEW to \in Account,
         to = PayTo(r, s.detail), NEW pl, pl = PayloadOf(r, s), Accepted(pl),
         NEW j, j.entry = JournalOf(pl)
  PROVE  /\ AmountOf(pl, to) > 0
         /\ EarnedBy(j) = s.detail.principal - AmountOf(pl, to)
<1>1. PICK g \in Gl, fees \in SUBSET Gl : PaymentHas(pl, to, g, fees, s.detail)
  BY PaymentShape
<1>2. s.detail.principal \in Int
  <2>1. s.detail.principal \in Nat
    BY DEF Seen, LoanDetail
  <2> QED BY <2>1
<1>3. /\ AmountOf(pl, to) \in Int /\ AmountOf(pl, g) = s.detail.principal
      /\ to \notin Gl /\ to # g /\ to \notin fees
      /\ DebitIds(pl) = {g} /\ CreditIds(pl) = {to} \cup fees
  BY <1>1, TenantAssumption DEF PaymentHas
<1>4. AmountOf(pl, to) > 0
  BY <1>1 DEF PaymentHas, Accepted, PositiveAmounts
<1>5. g \notin fees
  BY <1>1 DEF PaymentHas, Accepted, DistinctIds
<1> DEFINE debits == [i \in {g} |-> AmountOf(pl, i)]
           credits == [i \in {to} \cup fees |-> AmountOf(pl, i)]
<1>6. Total(pl, DebitIds(pl)) = s.detail.principal
  <2>1. DOMAIN debits = {g} /\ debits[g] = s.detail.principal
    BY <1>3
  <2>2. Total(pl, DebitIds(pl)) = SumFunctionOnSet(debits, {g})
    BY <1>3, <2>1, Zenon DEF Total, SumFunction
  <2> HIDE DEF debits
  <2> QED BY <1>2, <2>1, <2>2, SumOne
<1>7. /\ DOMAIN credits = {to} \cup fees
      /\ \A i \in {to} \cup fees : credits[i] = AmountOf(pl, i)
      /\ Total(pl, CreditIds(pl)) = SumFunctionOnSet(credits, {to} \cup fees)
  <2>1. DOMAIN credits = {to} \cup fees /\ \A i \in {to} \cup fees : credits[i] = AmountOf(pl, i)
    OBVIOUS
  <2> QED BY <1>3, <2>1, Zenon DEF Total, SumFunction
<1> HIDE DEF credits
<1>8. SumFunctionOnSet(credits, {to} \cup fees) = s.detail.principal
  BY <1>6, <1>7 DEF Accepted
<1> DEFINE S == {e \in j.entry.lines : e.of[1] \in Gl}
           f == [e \in S |-> e.credit]
<1>9. DOMAIN f = S /\ \A e \in S : f[e] = e.credit
  OBVIOUS
<1>10. EarnedBy(j) = SumFunctionOnSet(f, S)
  BY <1>9, Zenon DEF EarnedBy, SumFunction
<1> HIDE DEF f
<1>11. PICK x, y : /\ x = Line(<<to, "leg">>, ControlGl[to], 0, AmountOf(pl, to))
                   /\ y = Line(<<g, "leg">>, g, s.detail.principal, 0)
  OBVIOUS
<1>12. /\ x.of = <<to, "leg">> /\ y.of = <<g, "leg">> /\ y.credit = 0
       /\ j.entry.lines = {x, y} \cup {Line(<<h, "leg">>, h, 0, AmountOf(pl, h)) : h \in fees}
  BY <1>1, <1>11 DEF Line, PaymentHas
<1>13. CASE fees = {}
  <2>1. S = {y}
    BY <1>3, <1>12, <1>13
  <2>2. EarnedBy(j) = 0
    <3>1. f[y] = 0 /\ f[y] \in Int
      BY <1>9, <1>12, <2>1
    <3>2. SumFunctionOnSet(f, {y}) = f[y]
      BY <3>1, SumOne
    <3> QED BY <1>10, <2>1, <3>1, <3>2, Zenon
  <2>3. SumFunctionOnSet(credits, {to}) = AmountOf(pl, to) /\ {to} \cup fees = {to}
    BY <1>3, <1>7, <1>13, SumOne
  <2>4. s.detail.principal = SumFunctionOnSet(credits, {to})
    BY <1>8, <2>3, Zenon
  <2>5. s.detail.principal = AmountOf(pl, to)
    BY <2>3, <2>4, Zenon
  <2> QED BY <1>2, <1>4, <2>2, <2>5
<1>14. ASSUME NEW h \in Gl, fees = {h}
       PROVE  EarnedBy(j) = s.detail.principal - AmountOf(pl, to)
  <2>1. AmountOf(pl, h) \in Int
    BY <1>1, <1>5, <1>14 DEF PaymentHas
  <2>2. PICK z : z = Line(<<h, "leg">>, h, 0, AmountOf(pl, h))
    OBVIOUS
  <2>3. z.of = <<h, "leg">> /\ z.credit = AmountOf(pl, h) /\ z # y
    BY <1>5, <1>12, <1>14, <2>2 DEF Line
  <2>4. S = {y} \cup {z}
    BY <1>3, <1>12, <1>14, <2>2, <2>3
  <2>5. EarnedBy(j) = AmountOf(pl, h)
    <3>1. f[y] = 0 /\ f[z] = AmountOf(pl, h)
      BY <1>9, <1>12, <2>3, <2>4
    <3>2. IsFiniteSet({y}) /\ \A e \in {y} \cup {z} : f[e] \in Int
      <4>1. f[y] \in Int /\ f[z] \in Int
        BY <2>1, <3>1
      <4>2. IsFiniteSet({y})
        BY FS_Singleton, Zenon
      <4> QED BY <4>1, <4>2, Zenon
    <3>3. SumFunctionOnSet(f, {y} \cup {z}) = f[z] + SumFunctionOnSet(f, {y})
      BY <2>3, <3>2, SumAdd
    <3>4. SumFunctionOnSet(f, {y}) = 0
      BY <3>1, <3>2, SumOne
    <3>5. EarnedBy(j) = SumFunctionOnSet(f, {y} \cup {z})
      BY <1>10, <2>4, Zenon
    <3> HIDE DEF S
    <3> QED BY <2>1, <3>1, <3>3, <3>4, <3>5
  <2>6. SumFunctionOnSet(credits, {to} \cup {h}) = AmountOf(pl, h) + AmountOf(pl, to)
    <3>1. credits[to] = AmountOf(pl, to) /\ credits[h] = AmountOf(pl, h) /\ h # to
      BY <1>3, <1>7, <1>14
    <3>2. IsFiniteSet({to}) /\ \A i \in {to} \cup {h} : credits[i] \in Int
      <4>1. credits[to] \in Int /\ credits[h] \in Int
        BY <1>3, <2>1, <3>1
      <4>2. IsFiniteSet({to})
        BY FS_Singleton, Zenon
      <4> QED BY <4>1, <4>2, Zenon
    <3>3. SumFunctionOnSet(credits, {to} \cup {h}) = credits[h] + SumFunctionOnSet(credits, {to})
      BY <3>1, <3>2, SumAdd
    <3>4. credits[to] \in Int
      BY <1>3, <3>1, Zenon
    <3>5. SumFunctionOnSet(credits, {to}) = credits[to]
      BY <3>4, SumOne, Zenon
    <3> QED BY <3>1, <3>3, <3>5, Zenon
  <2>7. s.detail.principal = SumFunctionOnSet(credits, {to} \cup {h})
    BY <1>8, <1>14, Zenon
  <2>8. s.detail.principal = AmountOf(pl, h) + AmountOf(pl, to)
    BY <2>6, <2>7, Zenon
  <2>9. AmountOf(pl, to) \in Int
    BY <1>3
  <2> QED BY <2>1, <2>5, <2>8, <2>9
<1> QED BY <1>1, <1>4, <1>13, <1>14 DEF PaymentHas

(* A change of one loan's details adds to the history of that loan at most, and nothing unless
   the loan is approved. *)
LEMMA ReviewAdds ==
  ASSUME IInv, NEW l \in Loan, NEW d, SetDetail(l, d)
  PROVE  \/ approvedTerms' = approvedTerms
         \/ d.status = "approved" /\ approvedTerms' = approvedTerms \cup {[loan |-> l, terms |-> TermsOf(d)]}
<1>1. detail \in [Loan -> LoanDetail] /\ Approved(detail) \subseteq approvedTerms
  BY DEF IInv, Core, TypeOK
<1>2. PICK e : e = [detail EXCEPT ![l] = d]
  OBVIOUS
<1>3. e[l] = d /\ \A k \in Loan : k # l => e[k] = detail[k]
  BY <1>1, <1>2
<1>4. approvedTerms' = approvedTerms \cup Approved(e)
  BY <1>2 DEF SetDetail
<1>5. \A t \in Approved(e) :
        t \in approvedTerms \/ (d.status = "approved" /\ t = [loan |-> l, terms |-> TermsOf(d)])
  <2> SUFFICES ASSUME NEW t \in Approved(e)
               PROVE  t \in approvedTerms \/ (d.status = "approved" /\ t = [loan |-> l, terms |-> TermsOf(d)])
    OBVIOUS
  <2>1. PICK k \in Loan : e[k].status = "approved" /\ t = [loan |-> k, terms |-> TermsOf(e[k])]
    BY DEF Approved
  <2>2. CASE k = l
    BY <1>3, <2>1, <2>2
  <2>3. CASE k # l
    <3>1. e[k] = detail[k]
      BY <1>3, <2>3
    <3>2. [loan |-> k, terms |-> TermsOf(detail[k])] \in Approved(detail)
      BY <2>1, <3>1 DEF Approved
    <3> QED BY <1>1, <2>1, <3>1, <3>2
  <2> QED BY <2>2, <2>3
<1>6. d.status = "approved" => [loan |-> l, terms |-> TermsOf(d)] \in Approved(e)
  BY <1>3 DEF Approved
<1> QED BY <1>4, <1>5, <1>6

(* A step adds the terms of one loan to the history at most; a payment adds none. *)
LEMMA HistoryGrowsByOne ==
  ASSUME IInv, [Next]_vars
  PROVE  /\ \/ approvedTerms' = approvedTerms
            \/ \E l \in Loan, t \in Terms : approvedTerms' = approvedTerms \cup {[loan |-> l, terms |-> t]}
         /\ (\E p \in Proc : DisburseLoan(p)) => approvedTerms' = approvedTerms
<1>1. TypeOK
  BY DEF IInv, Core
<1>2. ASSUME NEW p \in Proc, Moves(p) PROVE approvedTerms' = approvedTerms
  BY <1>1, <1>2, MoveIs DEF loans
<1>3. ASSUME NEW p \in Proc, Changes(p)
      PROVE  \/ approvedTerms' = approvedTerms
             \/ \E l \in Loan, t \in Terms : approvedTerms' = approvedTerms \cup {[loan |-> l, terms |-> t]}
  <2>1. job[p].loan \in Loan
    BY <1>1, <1>3, RequestType DEF Changes, ApproveLoan, DeclineLoan, UndoApproval,
       ActivateAccount, UpdateLoanDetails, DisburseLoan, Committing, IInv, Core, Working
  <2>2. CASE ActivateAccount(p)
    BY <2>2 DEF ActivateAccount
  <2>3. CASE ~ActivateAccount(p)
    <3>1. \E d : SetDetail(job[p].loan, d)
      BY <1>3, <2>3 DEF Changes, ApproveLoan, DeclineLoan, UndoApproval, UpdateLoanDetails, DisburseLoan
    <3>2. \/ approvedTerms' = approvedTerms
          \/ \E t : approvedTerms' = approvedTerms \cup {[loan |-> job[p].loan, terms |-> t]}
      BY <2>1, <3>1, ReviewAdds
    <3>3. \A t \in approvedTerms' : t.terms \in Terms
      BY <1>3, ChangeType
    <3>4. ASSUME NEW t, approvedTerms' = approvedTerms \cup {[loan |-> job[p].loan, terms |-> t]}
          PROVE  t \in Terms
      <4>1. PICK e : e = [loan |-> job[p].loan, terms |-> t]
        OBVIOUS
      <4>2. e \in approvedTerms' /\ e.terms = t
        BY <3>4, <4>1
      <4> QED BY <3>3, <4>2
    <3> QED BY <2>1, <3>2, <3>4
  <2> QED BY <2>2, <2>3
<1>4. ASSUME NEW p \in Proc, Ends(p), ~Changes(p) PROVE approvedTerms' = approvedTerms
  BY <1>4, EndsWithout DEF loans
<1>5. ASSUME NEW p \in Proc, DisburseLoan(p) PROVE approvedTerms' = approvedTerms
  <2>1. job[p].loan \in Loan /\ detail[job[p].loan] \in LoanDetail
    BY <1>1, <1>5, PaymentIs DEF TypeOK
  <2>2. DisbursedDetail(job[p], detail[job[p].loan], seen[p].detail).status = "disbursed"
    BY <2>1 DEF DisbursedDetail, LoanDetail
  <2>3. SetDetail(job[p].loan, DisbursedDetail(job[p], detail[job[p].loan], seen[p].detail))
    BY <1>5 DEF DisburseLoan
  <2> QED BY <2>1, <2>2, <2>3, ReviewAdds
<1>7. ASSUME NEW p \in Proc, NEW r \in Request, Start(p, r) \/ Refuse(p, r)
      PROVE  approvedTerms' = approvedTerms
  BY <1>7 DEF Start, Refuse, loans
<1>8. CASE UNCHANGED vars
  BY <1>8 DEF vars
<1> QED BY <1>2, <1>3, <1>4, <1>5, <1>7, <1>8, NextIs

(* What is added to a history shows with the loan it is of. *)
LEMMA TermsAdded ==
  ASSUME NEW H, NEW l \in Loan, NEW e, e.loan = l, NEW t, e.terms = t
  PROVE  TermsIn(H \cup {e}) = [TermsIn(H) EXCEPT ![l] = @ \cup {t}]
<1>1. ASSUME NEW k \in Loan
      PROVE  TermsIn(H \cup {e})[k] = IF k = l THEN TermsIn(H)[l] \cup {t} ELSE TermsIn(H)[k]
  BY DEF TermsIn
<1>2. DOMAIN TermsIn(H \cup {e}) = Loan /\ DOMAIN TermsIn(H) = Loan
  BY DEF TermsIn
<1>3. TermsIn(H \cup {e}) = [k \in Loan |-> TermsIn(H \cup {e})[k]]
  BY DEF TermsIn
<1> QED BY <1>1, <1>2, <1>3

(* A journal that is added to the others adds what it earned. *)
LEMMA EarnedGrows ==
  ASSUME IsFiniteSet(journals), \A j \in journals : EarnedBy(j) \in Int,
         NEW j, j \notin journals, journals' = journals \cup {j}, EarnedBy(j) \in Int
  PROVE  Earned \in Int /\ Earned' = Earned + EarnedBy(j)
<1> DEFINE f == [y \in journals |-> EarnedBy(y)]
           g == [y \in journals \cup {j} |-> EarnedBy(y)]
<1>1. /\ DOMAIN f = journals /\ DOMAIN g = journals \cup {j}
      /\ \A y \in journals : f[y] = g[y] /\ f[y] \in Int
      /\ g[j] = EarnedBy(j) /\ g[j] \in Int
  OBVIOUS
<1>2. Earned = SumFunctionOnSet(f, journals)
  BY <1>1, Zenon DEF Earned, SumFunction
<1>3. Earned' = SumFunctionOnSet(g, journals \cup {j})
  BY <1>1, Zenon DEF Earned, SumFunction, EarnedBy
<1> HIDE DEF f, g
<1>4. SumFunctionOnSet(g, journals \cup {j}) = g[j] + SumFunctionOnSet(g, journals)
  BY <1>1, SumAdd
<1>5. SumFunctionOnSet(f, journals) = SumFunctionOnSet(g, journals) /\ SumFunctionOnSet(f, journals) \in Int
  BY <1>1, SumSame, SumType
<1> QED BY <1>1, <1>2, <1>3, <1>4, <1>5

(* A payment is an abstract payout, and earns a whole number. *)
LEMMA PaymentPaysOut ==
  ASSUME IInv, Books, Earnings, [Next]_vars, NEW p \in Proc, DisburseLoan(p)
  PROVE  /\ \E l \in Loan, a \in Account : Payouts!PayOut(l, a)
         /\ \A j \in journals' : EarnedBy(j) \in Int
<1>1. PICK k \in Loan, r \in Request, s \in Seen, to \in Account :
        /\ k = job[p].loan /\ r = job[p] /\ s = seen[p] /\ to = PayTo(r, s.detail)
        /\ r.kind = "disburse"
        /\ Parties(PayloadOf(r, s)) = {to}
        /\ JournalOf(PayloadOf(r, s)).reference = LoanRef[k]
        /\ Payment(k) \notin transactions
        /\ [loan |-> k, terms |-> TermsOf(s.detail)] \in approvedTerms
  <2>1. /\ job[p] \in Request /\ job[p].kind = "disburse" /\ job[p].loan \in Loan
        /\ seen[p] \in Seen /\ PayTo(job[p], seen[p].detail) \in Account
        /\ Parties(PayloadOf(job[p], seen[p])) = {PayTo(job[p], seen[p].detail)}
        /\ JournalOf(PayloadOf(job[p], seen[p])).reference = LoanRef[job[p].loan]
        /\ Payment(job[p].loan) \notin transactions
        /\ [loan |-> job[p].loan, terms |-> TermsOf(seen[p].detail)] \in approvedTerms
    BY PaymentIs DEF Payload
  <2> QED BY <2>1
<1>2. PICK pl, j, t, x : /\ pl = PayloadOf(r, s) /\ j = [id |-> p, entry |-> JournalOf(pl)]
                         /\ t = TermsOf(s.detail) /\ x = [by |-> p, loan |-> k, terms |-> t]
  OBVIOUS
<1>3. /\ journals' = journals \cup {j} /\ schedules' = schedules \cup {x}
      /\ account' = [account EXCEPT ![k].status = "active", ![k].book = -s.detail.principal]
      /\ accts' = [a \in Account |-> IF a \in {to}
                     THEN [accts[a] EXCEPT !.bookBalance = NewBookBalance(pl, a, accts[a])]
                     ELSE accts[a]]
  BY <1>1, <1>2 DEF DisburseLoan, Payload, LoanBook
<1>4. Accepted(pl)
  <2>1. pc[p] = "work" /\ todo[p] = <<>> /\ Kind(p) = "disburse"
    BY DEF DisburseLoan, Committing
  <2>2. Plan(job[p], seen[p]) # <<>>
    BY <2>1 DEF Plan, Kind
  <2> QED BY <1>1, <1>2, <2>1, <2>2 DEF Earnings, Checked, Payload
<1>5. s.detail \in LoanDetail /\ s.detail.principal \in Int /\ t \in Terms /\ t.principal = s.detail.principal
  <2>1. s.detail \in LoanDetail /\ s.detail.principal \in Nat
    BY DEF Seen, LoanDetail
  <2> QED BY <1>2, <2>1, TermsType DEF TermsOf
<1>6. /\ j.entry = JournalOf(pl) /\ j.entry.reference = LoanRef[k] /\ x.loan = k /\ x.terms = t
  BY <1>1, <1>2
<1>7. /\ AmountOf(pl, to) \in Int
      /\ NewBookBalance(pl, to, accts[to]) = accts[to].bookBalance + AmountOf(pl, to)
  BY <1>1, <1>2, PaymentLines
<1>8. AmountOf(pl, to) > 0 /\ EarnedBy(j) = s.detail.principal - AmountOf(pl, to)
  BY <1>1, <1>2, <1>4, <1>6, PaymentEarns
<1>9. AmountOf(pl, to) = HalfEven(FeeUnit * t.principal - UpfrontFee(t), FeeUnit)
  <2>1. AmountOf(pl, to) = HalfEven(FeeUnit * s.detail.principal - UpfrontFee(s.detail), FeeUnit)
    <3>1. PICK g \in Gl, fees \in SUBSET Gl : PaymentHas(pl, to, g, fees, s.detail)
      BY <1>1, <1>2, PaymentShape
    <3> QED BY <3>1 DEF PaymentHas
  <2>2. UpfrontFee(t) = UpfrontFee(s.detail)
    BY <1>2 DEF TermsOf, UpfrontFee
  <2> QED BY <1>5, <2>1, <2>2
<1>10. [u \in Terms |-> HalfEven(FeeUnit * u.principal - UpfrontFee(u), FeeUnit)][t] = AmountOf(pl, to)
  BY <1>5, <1>9
<1>11. PaymentsOf(k) = {} /\ SchedulesOf(k) = {}
  BY <1>1 DEF IInv, PaidOnce
<1>12. j \notin journals
  BY <1>6, <1>11 DEF PaymentsOf
<1>13. TermsIn(schedules)[k] = {} /\ TermsIn(schedules)' = [TermsIn(schedules) EXCEPT ![k] = {t}]
  <2>1. TermsIn(schedules)[k] = {}
    BY <1>11 DEF TermsIn, SchedulesOf
  <2>2. TermsIn(schedules \cup {x}) = [TermsIn(schedules) EXCEPT ![k] = @ \cup {t}]
    BY <1>6, TermsAdded
  <2>3. TermsIn(schedules)' = TermsIn(schedules \cup {x})
    BY <1>3, Zenon DEF TermsIn
  <2> QED BY <2>1, <2>2, <2>3
<1>14. t \in TermsIn(approvedTerms)[k] /\ TermsIn(approvedTerms)' = TermsIn(approvedTerms)
  <2>1. t \in TermsIn(approvedTerms)[k]
    BY <1>1, <1>2 DEF TermsIn
  <2>2. approvedTerms' = approvedTerms
    BY HistoryGrowsByOne
  <2> QED BY <2>1, <2>2 DEF TermsIn
<1>15. account \in [Loan -> LoanAccountRow] /\ accts \in [Account -> AccountRow]
  BY DEF IInv, Core, TypeOK
<1>16. [l \in Loan |-> -account'[l].book] = [[l \in Loan |-> -account[l].book] EXCEPT ![k] = t.principal]
  <2>1. \A l \in Loan : l # k => account'[l] = account[l]
    BY <1>3, <1>15
  <2>2. account'[k].book = -s.detail.principal
    BY <1>3, <1>15 DEF LoanAccountRow
  <2>3. -account'[k].book = t.principal
    BY <1>5, <2>2
  <2> QED BY <2>1, <2>3
<1>17. [a \in Account |-> accts'[a].bookBalance]
         = [[a \in Account |-> accts[a].bookBalance] EXCEPT ![to] = @ + AmountOf(pl, to)]
  <2>1. PICK n : n = NewBookBalance(pl, to, accts[to])
    OBVIOUS
  <2>2. accts'[to] = [accts[to] EXCEPT !.bookBalance = n] /\ \A a \in Account : a # to => accts'[a] = accts[a]
    BY <1>3, <2>1
  <2>3. accts'[to].bookBalance = accts[to].bookBalance + AmountOf(pl, to)
    BY <1>7, <1>15, <2>1, <2>2 DEF AccountRow
  <2> QED BY <2>2, <2>3
<1>18. Earned \in Int /\ Earned' = Earned + (t.principal - AmountOf(pl, to))
  <2>1. EarnedBy(j) \in Int
    BY <1>5, <1>7, <1>8
  <2>2. Earned \in Int /\ Earned' = Earned + EarnedBy(j)
    BY <1>3, <1>12, <2>1, EarnedGrows DEF Books, Earnings
  <2> QED BY <1>5, <1>8, <2>2
<1>19. Payouts!PayOut(k, to)
  BY <1>8, <1>10, <1>13, <1>14, <1>16, <1>17, <1>18 DEF Payouts!PayOut, Earned
<1>20. \A y \in journals' : EarnedBy(y) \in Int
  BY <1>3, <1>5, <1>7, <1>8 DEF Earnings
<1> QED BY <1>19, <1>20

(* Every step is a payout, a review, or nothing to the abstract lifecycle. *)
LEMMA StepPaysOut ==
  ASSUME IInv, Books, Earnings, [Next]_vars
  PROVE  [Payouts!Next]_(Payouts!vars) /\ Earnings'
<1>1. \A q \in Proc : Checked(q)'
  BY CheckedKept DEF Earnings
<1>2. ASSUME NEW p \in Proc, DisburseLoan(p)
      PROVE  [Payouts!Next]_(Payouts!vars) /\ Earnings'
  <2>1. \E l \in Loan, a \in Account : Payouts!PayOut(l, a)
    BY <1>2, PaymentPaysOut
  <2>2. \A j \in journals' : EarnedBy(j) \in Int
    BY <1>2, PaymentPaysOut
  <2>3. Earnings'
    BY <1>1, <2>2 DEF Earnings, EarnedBy
  <2> QED BY <2>1, <2>3 DEF Payouts!Next
<1>3. ASSUME \A p \in Proc : ~DisburseLoan(p)
      PROVE  [Payouts!Next]_(Payouts!vars) /\ Earnings'
  <2>1. /\ journals' = journals /\ schedules' = schedules /\ accts' = accts
        /\ \A l \in Loan : account'[l].book = account[l].book
    BY <1>3, OnlyPaymentsMoveMoney
  <2>2. /\ TermsIn(schedules)' = TermsIn(schedules)
        /\ [l \in Loan |-> -account'[l].book] = [l \in Loan |-> -account[l].book]
        /\ [a \in Account |-> accts'[a].bookBalance] = [a \in Account |-> accts[a].bookBalance]
        /\ Earned' = Earned
    <3>1. TermsIn(schedules)' = TermsIn(schedules)
      BY <2>1 DEF TermsIn
    <3>2. Earned' = Earned
      BY <2>1, Zenon DEF Earned, EarnedBy
    <3> QED BY <2>1, <3>1, <3>2
  <2>3. CASE approvedTerms' = approvedTerms
    <3>1. TermsIn(approvedTerms)' = TermsIn(approvedTerms)
      BY <2>3 DEF TermsIn
    <3> QED BY <1>1, <2>1, <2>2, <3>1 DEF Payouts!vars, Earned, Earnings, EarnedBy
  <2>4. ASSUME NEW l \in Loan, NEW t \in Terms, approvedTerms' = approvedTerms \cup {[loan |-> l, terms |-> t]}
        PROVE  Payouts!Approve(l)
    <3>1. PICK e : e = [loan |-> l, terms |-> t]
      OBVIOUS
    <3>2. e.loan = l /\ e.terms = t
      BY <3>1
    <3>3. TermsIn(approvedTerms \cup {e}) = [TermsIn(approvedTerms) EXCEPT ![l] = @ \cup {t}]
      BY <3>2, TermsAdded
    <3>4. TermsIn(approvedTerms)' = TermsIn(approvedTerms \cup {e})
      BY <2>4, <3>1, Zenon DEF TermsIn
    <3>5. t \in TermsIn(approvedTerms)'[l]
      BY <3>2, <3>4 DEF TermsIn
    <3> QED BY <2>2, <3>3, <3>4, <3>5 DEF Payouts!Approve, Earned
  <2>5. Earnings'
    BY <1>1, <2>1 DEF Earnings, EarnedBy
  <2> QED BY <2>3, <2>4, <2>5, HistoryGrowsByOne DEF Payouts!Next
<1> QED BY <1>2, <1>3

(* The lifecycle starts where the abstract one does. *)
LEMMA InitPaysOut ==
  ASSUME Init
  PROVE  Payouts!Init /\ Earnings
<1>1. TermsIn(schedules) = [l \in Loan |-> {}]
  BY DEF Init, TermsIn
<1>2. [l \in Loan |-> -account[l].book] = [l \in Loan |-> 0]
  <2>1. \A l \in Loan : account[l].book = 0
    BY LoanAssumption DEF Init
  <2> QED BY <2>1
<1>3. Earned = 0
  <2>1. DOMAIN [j \in journals |-> EarnedBy(j)] = {}
    BY DEF Init
  <2>2. Earned = SumFunctionOnSet([j \in journals |-> EarnedBy(j)], {})
    BY <2>1, Zenon DEF Earned, SumFunction
  <2> QED BY <2>2, SumEmpty
<1>4. TermsIn(approvedTerms) = TermsIn(Approved(OpeningDetail))
  BY DEF Init
<1>5. [a \in Account |-> accts[a].bookBalance] = [a \in Account |-> OpeningRow[a].bookBalance]
  BY DEF Init
<1>6. Earnings
  BY DEF Earnings, Checked, Init
<1> QED BY <1>1, <1>2, <1>3, <1>4, <1>5, <1>6 DEF Payouts!Init, Earned

(* With its requests, row locks and stale reads hidden, the lifecycle of the loans is the abstract
   one: a loan is paid out once, in one step, by terms it has been approved under, and what is owed of
   it is what the customer got and the fee. *)
THEOREM PayoutRefinement == Spec => ImplementsLoanPayout
<1>1. Init => Payouts!Init /\ Earnings /\ Books
  BY InitPaysOut, InitBooks
<1>2. IInv /\ Books /\ Earnings /\ [Next]_vars => [Payouts!Next]_(Payouts!vars) /\ Earnings' /\ Books'
  BY StepPaysOut, NextBooks
<1> QED BY <1>1, <1>2, Invariance, PTL DEF Spec, ImplementsLoanPayout, Payouts!Spec

-----------------------------------------------------------------------------
(* Deadlocks.                                                                *)

(* The rows a request has locked. *)
Own(p) == {row \in Row : owner[row] = p}
HoldsNothing(p) == Own(p) = {} /\ sharing[p] = {}

(* What a request holds by what it has left to claim: an account before the loan's details, or the
   details before the account, but never both while it waits for either. *)
AccountHeld(p) ==
  /\ Kind(p) \in AccountFirst
  /\ todo[p] # <<>> /\ Head(todo[p]) = DetailRow(job[p].loan) /\ Tail(todo[p]) \in Seq(Shares)
  /\ Own(p) \subseteq {AccountOf(job[p].loan)} /\ sharing[p] = {}
BothHeld(p) ==
  /\ Kind(p) \in AccountFirst
  /\ todo[p] \in Seq(Shares)
  /\ Own(p) \subseteq {AccountOf(job[p].loan), DetailRow(job[p].loan)}
UndoHolds(p) ==
  /\ Kind(p) = "undo" /\ todo[p] = <<AccountOf(job[p].loan)>>
  /\ Own(p) \subseteq {DetailRow(job[p].loan)} /\ sharing[p] = {}
DisbursementHolds(p) ==
  LET to == PayTo(job[p], seen[p].detail)  sh == Share(PayFrom(job[p], seen[p].detail))
      d == DetailRow(job[p].loan)  a == AccountOf(job[p].loan) IN
  /\ Kind(p) = "disburse"
  /\ \/ todo[p] = <<to, sh, a>> /\ Own(p) = {d} /\ sharing[p] = {}
     \/ todo[p] = <<sh, a>> /\ Own(p) = {d, to} /\ sharing[p] = {}
     \/ todo[p] = <<a>> /\ Own(p) = {d, to}
Holding(p) ==
  IF pc[p] # "work" THEN HoldsNothing(p)
  ELSE \/ HoldsNothing(p) /\ todo[p] = Plan(job[p], seen[p])
       \/ todo[p] = <<>>
       \/ AccountHeld(p) \/ BothHeld(p) \/ UndoHolds(p) \/ DisbursementHolds(p)

(* A sequence with something put before it. *)
LEMMA PutBefore ==
  ASSUME NEW S, NEW rest \in Seq(S), NEW x
  PROVE  <<x>> \o rest # <<>> /\ Head(<<x>> \o rest) = x /\ Tail(<<x>> \o rest) = rest
<1> DEFINE T == S \cup {x}  s == <<x>> \o rest
<1>1. <<x>> \in Seq(T) /\ rest \in Seq(T)
  BY EmptySeq
<1>2. /\ s \in Seq(T) /\ Len(s) = 1 + Len(rest) /\ Len(rest) \in Nat
      /\ \A i \in 1..(1 + Len(rest)) : s[i] = IF i <= 1 THEN x ELSE rest[i - 1]
  BY <1>1, ConcatProperties
<1> HIDE DEF s, T
<1>3. s # <<>> /\ Head(s) = x
  BY <1>2
<1>4. Tail(s) \in Seq(T) /\ Len(Tail(s)) = Len(rest) /\ \A i \in 1..Len(rest) : Tail(s)[i] = rest[i]
  BY <1>2, <1>3, HeadTailProperties
<1>5. Tail(s) = rest
  BY <1>1, <1>4, SeqEqual
<1> QED BY <1>3, <1>5 DEF s

(* What a move adds to what is held: the row it claims, if anything, and to nobody else. *)
LEMMA MoveHolds ==
  ASSUME TypeOK, NEW p \in Proc, Moves(p)
  PROVE  /\ Own(p)' \subseteq Own(p) \cup {Head(todo[p])}
         /\ Head(todo[p]) \in Shares => Own(p)' = Own(p)
         /\ Head(todo[p]) \in Row => sharing'[p] = sharing[p]
         /\ Kind(p) = "disburse" /\ Head(todo[p]) \in Row => Own(p)' = Own(p) \cup {Head(todo[p])}
         /\ \A q \in Proc : q # p => Own(q)' = Own(q) /\ sharing'[q] = sharing[q]
<1>1. None \notin Proc
  BY LoanAssumption
<1>2. CASE Lock(p)
  <2>1. PICK row \in Row : /\ row = Head(todo[p]) /\ LockBlockers(p, row) = {}
                          /\ owner' = [owner EXCEPT ![row] = p]
    BY <1>2 DEF Lock, AtClaim
  <2>2. owner[row] = None
    BY <2>1 DEF LockBlockers
  <2>3. sharing' = sharing
    BY <1>2 DEF Lock
  <2>4. \A r \in Row : owner'[r] = IF r = row THEN p ELSE owner[r]
    BY <2>1 DEF TypeOK
  <2>5. Own(p)' = Own(p) \cup {row}
    BY <2>4 DEF Own
  <2>6. \A q \in Proc : q # p => Own(q)' = Own(q)
    BY <1>1, <2>2, <2>4 DEF Own
  <2>7. row \notin Shares
    BY <2>1, ClaimType
  <2> QED BY <2>1, <2>3, <2>5, <2>6, <2>7
<1>3. CASE ShareKey(p)
  <2>1. Head(todo[p]) \in Shares /\ Head(todo[p]) \notin Row
    BY <1>3, ClaimType DEF ShareKey, AtClaim, Shares
  <2>2. owner' = owner /\ \A q \in Proc : q # p => sharing'[q] = sharing[q]
    BY <1>3 DEF ShareKey, TypeOK
  <2> QED BY <2>1, <2>2 DEF Own
<1>4. CASE UndoMisses(p)
  <2>1. owner' = owner /\ sharing' = sharing /\ Kind(p) = "undo"
    BY <1>4 DEF UndoMisses, Misses
  <2> QED BY <2>1 DEF Own
<1> QED BY <1>2, <1>3, <1>4 DEF Moves

(* What is left of a plan after its first claim, and what is held then. *)
LEMMA FirstMove ==
  ASSUME IInv, NEW p \in Proc, Moves(p), HoldsNothing(p), todo[p] = Plan(job[p], seen[p])
  PROVE  Holding(p)'
<1> DEFINE r == job[p]  s == seen[p]  d == DetailRow(r.loan)  a == AccountOf(r.loan)  h == Head(todo[p])
           to == PayTo(r, s.detail)  sh == Share(PayFrom(r, s.detail))
<1>1. /\ TypeOK /\ pc[p] = "work" /\ pc'[p] = "work" /\ job'[p] = r /\ seen'[p] = s
      /\ todo'[p] = Tail(todo[p]) /\ r \in Request /\ r.loan \in Loan
  <2>1. TypeOK /\ Working(p)
    BY DEF IInv, Core
  <2> QED BY <2>1, MoveIs, RequestType DEF TypeOK, Working
<1>2. d \in Row /\ a \in Row
  BY <1>1, RowType
<1>3. /\ Own(p)' \subseteq {h}
      /\ h \in Row => sharing'[p] = {}
      /\ r.kind = "disburse" /\ h \in Row => Own(p)' = {h}
  BY <1>1, MoveHolds DEF HoldsNothing, Kind
<1>4. Kind(p)' = r.kind /\ DetailRow(job'[p].loan) = d /\ AccountOf(job'[p].loan) = a
  BY <1>1 DEF Kind
<1>5. <<>> \in Seq(Shares)
  OBVIOUS
<1>6. todo[p] = Plan(r, s)
  OBVIOUS
<1>7. Tail(<<a, d>>) = <<d>> /\ Head(<<a, d>>) = a /\ Tail(<<d, a>>) = <<a>> /\ Head(<<d, a>>) = d
      /\ Tail(<<a>>) = <<>> /\ Tail(<<d>>) = <<>> /\ Head(<<d>>) = d /\ <<d>> # <<>>
  OBVIOUS
<1>8. PayTo(job'[p], seen'[p].detail) = to /\ Share(PayFrom(job'[p], seen'[p].detail)) = sh
  BY <1>1
<1> HIDE DEF r, s, d, a, h, to, sh
<1>9. ASSUME r.kind \in AccountFirst, todo[p] = <<a, d>>
      PROVE  Holding(p)'
  <2>1. h = a /\ todo'[p] = <<d>>
    BY <1>1, <1>7, <1>9 DEF h
  <2> QED BY <1>1, <1>2, <1>3, <1>4, <1>5, <1>7, <1>9, <2>1 DEF Holding, AccountHeld
<1>10. ASSUME todo[p] = <<d>> \/ todo[p] = <<a>>
       PROVE  Holding(p)'
  <2>1. todo'[p] = <<>>
    BY <1>1, <1>7, <1>10
  <2> QED BY <1>1, <2>1 DEF Holding
<1>11. CASE r.kind = "approve"
  <2>1. todo[p] = <<a, d>> \/ todo[p] = <<d>>
    BY <1>6, <1>11 DEF Plan, ApprovalPlan, d, a
  <2> QED BY <1>9, <1>10, <1>11, <2>1 DEF AccountFirst
<1>12. CASE r.kind = "decline"
  BY <1>6, <1>9, <1>12 DEF Plan, AccountFirst, d, a
<1>13. CASE r.kind = "activate"
  BY <1>6, <1>10, <1>13 DEF Plan, a
<1>14. CASE r.kind = "undo"
  <2>1. todo[p] = <<d, a>>
    BY <1>6, <1>14 DEF Plan, d, a
  <2>2. h = d /\ todo'[p] = <<a>>
    BY <1>1, <1>7, <2>1 DEF h
  <2> QED BY <1>1, <1>2, <1>3, <1>4, <1>14, <2>2 DEF Holding, UndoHolds
<1>15. CASE r.kind = "update"
  <2>1. todo[p] = UpdatePlan(d, a, r)
    BY <1>6, <1>15 DEF Plan, d, a
  <2>2. PICK refs \in Seq(Shares) : todo[p] = <<a>> \o (<<d>> \o refs) \/ todo[p] = <<d>> \o refs
    <3>1. r \in Request
      BY <1>1
    <3>2. \E refs \in Seq(Shares) :
            UpdatePlan(d, a, r) = <<a>> \o (<<d>> \o refs) \/ UpdatePlan(d, a, r) = <<d>> \o refs
      BY <1>15, <3>1, UpdatePlanIs
    <3> QED BY <2>1, <3>2
  <2>3. r.kind \in AccountFirst
    BY <1>15 DEF AccountFirst
  <2>4. CASE todo[p] = <<d>> \o refs
    <3>1. h = d /\ todo'[p] = refs
      BY <1>1, <2>4, PutBefore DEF h
    <3>2. BothHeld(p)'
      BY <1>3, <1>4, <2>2, <2>3, <3>1 DEF BothHeld
    <3> QED BY <1>1, <3>2 DEF Holding
  <2>5. CASE todo[p] = <<a>> \o (<<d>> \o refs)
    <3>1. /\ <<d>> \o refs # <<>> /\ Head(<<d>> \o refs) = d /\ Tail(<<d>> \o refs) = refs
      BY PutBefore
    <3>2. <<d>> \o refs \in Seq(Shares \cup {d})
      <4>1. <<d>> \in Seq(Shares \cup {d}) /\ refs \in Seq(Shares \cup {d})
        OBVIOUS
      <4> QED BY <4>1, ConcatProperties
    <3>3. h = a /\ todo'[p] = <<d>> \o refs
      BY <1>1, <2>5, <3>2, PutBefore DEF h
    <3>4. AccountHeld(p)'
      BY <1>2, <1>3, <1>4, <2>2, <2>3, <3>1, <3>3 DEF AccountHeld
    <3> QED BY <1>1, <3>4 DEF Holding
  <2> QED BY <2>2, <2>4, <2>5
<1>16. CASE r.kind = "disburse"
  <2>1. todo[p] = <<d, to, sh, a>>
    BY <1>6, <1>16 DEF Plan, d, to, sh, a
  <2>2. h = d /\ todo'[p] = <<to, sh, a>>
    BY <1>1, <2>1, RestOfPlan DEF h
  <2>3. DisbursementHolds(p)'
    BY <1>2, <1>3, <1>4, <1>8, <1>16, <2>2 DEF DisbursementHolds
  <2> QED BY <1>1, <2>3 DEF Holding
<1> QED BY <1>1, <1>11, <1>12, <1>13, <1>14, <1>15, <1>16, RequestType DEF ReviewKinds

(* What a request holds after its later moves. *)
LEMMA LaterMove ==
  ASSUME IInv, NEW p \in Proc, Moves(p), Holding(p), ~HoldsNothing(p) \/ todo[p] # Plan(job[p], seen[p])
  PROVE  Holding(p)'
<1> DEFINE r == job[p]  s == seen[p]  d == DetailRow(r.loan)  a == AccountOf(r.loan)  h == Head(todo[p])
           to == PayTo(r, s.detail)  sh == Share(PayFrom(r, s.detail))
<1>1. /\ TypeOK /\ pc[p] = "work" /\ pc'[p] = "work" /\ job'[p] = r /\ seen'[p] = s
      /\ todo'[p] = Tail(todo[p]) /\ todo[p] # <<>> /\ r \in Request /\ r.loan \in Loan
  <2>1. TypeOK /\ Working(p)
    BY DEF IInv, Core
  <2> QED BY <2>1, MoveIs, RequestType DEF TypeOK, Working
<1>2. d \in Row /\ a \in Row /\ d \notin Shares /\ a \notin Shares
  BY <1>1, RowType, ClaimType
<1>3. /\ Own(p)' \subseteq Own(p) \cup {h}
      /\ h \in Shares => Own(p)' = Own(p)
      /\ h \in Row => sharing'[p] = sharing[p]
      /\ r.kind = "disburse" /\ h \in Row => Own(p)' = Own(p) \cup {h}
  BY <1>1, MoveHolds DEF Kind
<1>4. Kind(p)' = r.kind /\ Kind(p) = r.kind /\ DetailRow(job'[p].loan) = d /\ AccountOf(job'[p].loan) = a
  BY <1>1 DEF Kind
<1>5. PayTo(job'[p], seen'[p].detail) = to /\ Share(PayFrom(job'[p], seen'[p].detail)) = sh
  BY <1>1
<1>6. DetailRow(job[p].loan) = d /\ AccountOf(job[p].loan) = a
  OBVIOUS
<1>7. r.kind = "disburse" => to \in Account /\ sh \in Shares
  BY <1>1, <1>4 DEF IInv, Core, Disbursing
<1>8. AccountHeld(p) \/ BothHeld(p) \/ UndoHolds(p) \/ DisbursementHolds(p)
  BY <1>1 DEF Holding
<1>9. PayTo(job[p], seen[p].detail) = to /\ Share(PayFrom(job[p], seen[p].detail)) = sh
  OBVIOUS
<1> HIDE DEF r, s, d, a, to, sh
<1>10. CASE AccountHeld(p)
  <2>1. r.kind \in AccountFirst /\ h = d /\ todo'[p] \in Seq(Shares) /\ Own(p) \subseteq {a}
    BY <1>1, <1>4, <1>6, <1>10 DEF AccountHeld
  <2>2. BothHeld(p)'
    BY <1>3, <1>4, <2>1 DEF BothHeld
  <2> QED BY <1>1, <2>2 DEF Holding
<1>11. CASE BothHeld(p)
  <2>1. r.kind \in AccountFirst /\ todo[p] \in Seq(Shares) /\ Own(p) \subseteq {a, d}
    BY <1>4, <1>6, <1>11 DEF BothHeld
  <2>2. h \in Shares /\ todo'[p] \in Seq(Shares)
    BY <1>1, <2>1, HeadTailProperties
  <2>3. BothHeld(p)'
    BY <1>3, <1>4, <2>1, <2>2 DEF BothHeld
  <2> QED BY <1>1, <2>3 DEF Holding
<1>12. CASE UndoHolds(p)
  <2>1. todo[p] = <<a>>
    BY <1>6, <1>12 DEF UndoHolds
  <2>2. todo'[p] = <<>>
    BY <1>1, <2>1
  <2> QED BY <1>1, <2>2 DEF Holding
<1>13. CASE DisbursementHolds(p)
  <2>1. /\ r.kind = "disburse"
        /\ \/ todo[p] = <<to, sh, a>> /\ Own(p) = {d} /\ sharing[p] = {}
           \/ todo[p] = <<sh, a>> /\ Own(p) = {d, to} /\ sharing[p] = {}
           \/ todo[p] = <<a>> /\ Own(p) = {d, to}
    BY <1>4, <1>6, <1>9, <1>13 DEF DisbursementHolds
  <2>2. CASE todo[p] = <<to, sh, a>> /\ Own(p) = {d} /\ sharing[p] = {}
    <3>1. h = to /\ h \in Row /\ todo'[p] = <<sh, a>>
      BY <1>1, <1>7, <2>1, <2>2, RestOfPlan DEF Row
    <3>2. DisbursementHolds(p)'
      BY <1>3, <1>4, <1>5, <2>1, <2>2, <3>1 DEF DisbursementHolds
    <3> QED BY <1>1, <3>2 DEF Holding
  <2>3. CASE todo[p] = <<sh, a>> /\ Own(p) = {d, to}
    <3>1. h = sh /\ h \in Shares /\ todo'[p] = <<a>>
      BY <1>1, <1>7, <2>1, <2>3, RestOfPlan
    <3>2. DisbursementHolds(p)'
      BY <1>3, <1>4, <1>5, <2>1, <2>3, <3>1 DEF DisbursementHolds
    <3> QED BY <1>1, <3>2 DEF Holding
  <2>4. CASE todo[p] = <<a>>
    <3>1. todo'[p] = <<>>
      BY <1>1, <2>4
    <3> QED BY <1>1, <3>1 DEF Holding
  <2> QED BY <2>1, <2>2, <2>3, <2>4
<1> QED BY <1>8, <1>10, <1>11, <1>12, <1>13

(* What a request holds depends on nothing but its own state. *)
LEMMA HoldingIs ==
  ASSUME NEW q \in Proc, Holding(q), Own(q)' = Own(q), sharing'[q] = sharing[q],
         pc'[q] = pc[q], job'[q] = job[q], seen'[q] = seen[q], todo'[q] = todo[q]
  PROVE  Holding(q)'
<1>1. Kind(q)' = Kind(q) /\ (HoldsNothing(q) => HoldsNothing(q)')
  BY DEF Kind, HoldsNothing
<1>2. AccountHeld(q) => AccountHeld(q)'
  BY <1>1 DEF AccountHeld
<1>3. BothHeld(q) => BothHeld(q)'
  BY <1>1 DEF BothHeld
<1>4. UndoHolds(q) => UndoHolds(q)'
  BY <1>1 DEF UndoHolds
<1>5. DisbursementHolds(q) => DisbursementHolds(q)'
  BY <1>1 DEF DisbursementHolds
<1> QED BY <1>1, <1>2, <1>3, <1>4, <1>5 DEF Holding

(* Every step keeps what is known of what requests hold. *)
LEMMA HoldingKept ==
  ASSUME IInv, [Next]_vars, \A p \in Proc : Holding(p), NEW q \in Proc
  PROVE  Holding(q)'
<1>1. TypeOK /\ Holding(q)
  BY DEF IInv, Core
<1>2. ASSUME NEW p \in Proc, NEW r \in Request, Start(p, r)
      PROVE  Holding(q)'
  <2>1. owner' = owner /\ sharing' = sharing /\ pc[p] = "idle" /\ pc'[p] = "work"
    BY <1>1, <1>2 DEF Start, TypeOK
  <2>2. Own(q)' = Own(q)
    BY <2>1 DEF Own
  <2>3. CASE q = p
    <3>1. HoldsNothing(q)
      BY <1>1, <2>1, <2>3 DEF Holding
    <3>2. todo'[q] = Plan(job'[q], seen'[q])
      BY <1>1, <1>2, <2>3, StartIs
    <3> QED BY <2>1, <2>2, <2>3, <3>1, <3>2 DEF Holding, HoldsNothing
  <2>4. CASE q # p
    BY <1>1, <1>2, <2>1, <2>2, <2>4, HoldingIs DEF Start, TypeOK
  <2> QED BY <2>3, <2>4
<1>3. ASSUME NEW p \in Proc, NEW r \in Request, Refuse(p, r)
      PROVE  Holding(q)'
  <2>1. owner' = owner /\ sharing' = sharing /\ pc[p] = "idle" /\ pc'[p] = "done"
    BY <1>1, <1>3 DEF Refuse, TypeOK
  <2>2. Own(q)' = Own(q)
    BY <2>1 DEF Own
  <2>3. CASE q = p
    <3>1. HoldsNothing(q)
      BY <1>1, <2>1, <2>3 DEF Holding
    <3> QED BY <2>1, <2>2, <2>3, <3>1 DEF Holding, HoldsNothing
  <2>4. CASE q # p
    BY <1>1, <1>3, <2>1, <2>2, <2>4, HoldingIs DEF Refuse, TypeOK
  <2> QED BY <2>3, <2>4
<1>4. ASSUME NEW p \in Proc, Moves(p)
      PROVE  Holding(q)'
  <2>1. CASE q # p
    <3>1. Own(q)' = Own(q) /\ sharing'[q] = sharing[q]
      BY <1>1, <1>4, <2>1, MoveHolds
    <3>2. pc'[q] = pc[q] /\ job'[q] = job[q] /\ seen'[q] = seen[q] /\ todo'[q] = todo[q]
      BY <1>1, <1>4, <2>1, MoveIs DEF TypeOK
    <3> QED BY <1>1, <3>1, <3>2, HoldingIs
  <2>2. CASE q = p
    BY <1>1, <1>4, <2>2, FirstMove, LaterMove
  <2> QED BY <2>1, <2>2
<1>5. ASSUME NEW p \in Proc, Ends(p)
      PROVE  Holding(q)'
  <2>1. PICK answer \in {"ok", "threw", "failed", "lost"} : Finish(p, answer)
    BY <1>5, EndsFinish
  <2>2. /\ \A row \in Row : owner'[row] = IF owner[row] = p THEN None ELSE owner[row]
        /\ sharing' = [sharing EXCEPT ![p] = {}] /\ None \notin Proc
    BY <2>1, LoanAssumption DEF Finish
  <2>3. CASE q = p
    <3>1. Own(q)' = {}
      <4>1. \A row \in Row : owner'[row] # q
        BY <2>2, <2>3
      <4> QED BY <4>1 DEF Own
    <3>2. sharing'[q] = {}
      BY <1>1, <2>2, <2>3 DEF TypeOK
    <3>3. pc'[q] = "done"
      BY <1>1, <2>1, <2>3, FinishType
    <3> QED BY <3>1, <3>2, <3>3 DEF Holding, HoldsNothing
  <2>4. CASE q # p
    <3>1. Own(q)' = Own(q) /\ sharing'[q] = sharing[q]
      BY <1>1, <2>2, <2>4 DEF Own, TypeOK
    <3>2. pc'[q] = pc[q] /\ job'[q] = job[q] /\ seen'[q] = seen[q] /\ todo'[q] = todo[q]
      BY <1>1, <2>1, <2>4, FinishType
    <3> QED BY <1>1, <3>1, <3>2, HoldingIs
  <2> QED BY <2>3, <2>4
<1>6. CASE UNCHANGED vars
  <2>1. Own(q)' = Own(q)
    BY <1>6 DEF vars, Own
  <2> QED BY <1>1, <1>6, <2>1, HoldingIs DEF vars
<1> QED BY <1>2, <1>3, <1>4, <1>5, <1>6, NextIs

(* Whoever holds up a lock has the row, or shares it. *)
LEMMA BlockerOfRow ==
  ASSUME TypeOK, NEW q \in Proc, NEW r \in Proc, r \in Blockers(q), NEW row \in Row, Head(todo[q]) = row
  PROVE  row \in Own(r) \/ (row \in sharing[r] /\ row \in Account)
<1>1. \A a \in Account : ~AtClaim(q, Share(a))
  BY ClaimType DEF AtClaim, Shares
<1>2. r \in LockBlockers(q, row)
  BY <1>1 DEF Blockers, AtClaim
<1> QED BY <1>2 DEF LockBlockers, Own, TypeOK

(* Whoever holds up a foreign key has locked the account it refers to. *)
LEMMA BlockerOfShare ==
  ASSUME TypeOK, NEW q \in Proc, NEW r \in Proc, r \in Blockers(q), NEW a \in Account,
         Head(todo[q]) = Share(a)
  PROVE  r # q /\ a \in Own(r)
<1>1. \A row \in Row : ~AtClaim(q, row)
  BY ClaimType DEF AtClaim, Shares
<1>2. \/ \E row \in Row : AtClaim(q, row) /\ r \in LockBlockers(q, row)
      \/ \E b \in Account : AtClaim(q, Share(b)) /\ r \in ShareBlockers(q, b)
  BY DEF Blockers
<1>3. PICK b \in Account : AtClaim(q, Share(b)) /\ r \in ShareBlockers(q, b)
  BY <1>1, <1>2
<1>4. b = a
  <2>1. Share(b) = Share(a)
    BY <1>3 DEF AtClaim
  <2> QED BY <2>1 DEF Share
<1>5. r # q /\ r = owner[a]
  BY <1>3, <1>4 DEF ShareBlockers
<1> QED BY <1>5 DEF Own, Row

(* A circle of requests that wait, each for the next: as each of them holds one up, none holds nothing. *)
Circle(S, next) ==
  /\ S \in SUBSET Proc /\ next \in [S -> S]
  /\ \A q \in S :
       /\ next[q] \in Blockers(q) /\ job[q].loan \in Loan
       /\ AccountHeld(q) \/ BothHeld(q) \/ UndoHolds(q) \/ DisbursementHolds(q)
       /\ pc[q] = "work" /\ todo[q] # <<>>
Crossing(S) == \E p, q \in S : OrdersCross(p, q) \/ AccountsCross(p, q)

(* A circle of waiting requests is one of requests that hold something. *)
LEMMA CircleIs ==
  ASSUME IInv, \A p \in Proc : Holding(p), NEW S \in SUBSET Proc, WaitCircle(S)
  PROVE  \E next : Circle(S, next)
<1>1. TypeOK
  BY DEF IInv, Core
<1>2. PICK next \in [S -> S] : {next[q] : q \in S} = S /\ \A q \in S : next[q] \in Blockers(q)
  BY DEF WaitCircle
<1>3. \A q \in S : pc[q] = "work" /\ todo[q] # <<>>
  BY DEF WaitCircle, Waits
<1>4. ASSUME NEW r \in S PROVE ~HoldsNothing(r)
  <2>1. PICK q \in S : next[q] = r
    BY <1>2
  <2>2. r \in Blockers(q) /\ q \in Proc /\ r \in Proc
    BY <1>2, <2>1
  <2>3. Head(todo[q]) \in Claim
    <3>1. todo[q] \in Seq(Claim) /\ todo[q] # <<>>
      BY <1>1, <1>3 DEF TypeOK
    <3> QED BY <3>1, HeadTailProperties
  <2>4. CASE Head(todo[q]) \in Row
    <3>1. Head(todo[q]) \in Own(r) \/ Head(todo[q]) \in sharing[r]
      BY <1>1, <2>2, <2>4, BlockerOfRow
    <3> QED BY <3>1 DEF HoldsNothing
  <2>5. CASE Head(todo[q]) \in Shares
    <3>1. PICK a \in Account : Head(todo[q]) = Share(a)
      BY <2>5 DEF Shares
    <3>2. a \in Own(r)
      BY <1>1, <2>2, <3>1, BlockerOfShare
    <3> QED BY <3>2 DEF HoldsNothing
  <2> QED BY <2>3, <2>4, <2>5 DEF Claim
<1>5. ASSUME NEW q \in S
      PROVE  AccountHeld(q) \/ BothHeld(q) \/ UndoHolds(q) \/ DisbursementHolds(q)
  <2>1. Holding(q) /\ ~HoldsNothing(q) /\ pc[q] = "work" /\ todo[q] # <<>>
    BY <1>3, <1>4
  <2> QED BY <2>1 DEF Holding
<1>6. \A q \in S : job[q].loan \in Loan
  BY <1>3, RequestType DEF IInv, Core, Working
<1> QED BY <1>2, <1>3, <1>5, <1>6 DEF Circle

(* What the one that waits for the account of its loan waits for is a request that locked it first. *)
LEMMA AtAccount ==
  ASSUME IInv, NEW S, NEW next, Circle(S, next), NEW q \in S,
         Kind(q) \in DetailFirst, Head(todo[q]) = AccountOf(job[q].loan)
  PROVE  Crossing(S)
<1> DEFINE l == job[q].loan  r == next[q]
<1>1. TypeOK /\ q \in Proc /\ r \in S /\ r \in Proc /\ r \in Blockers(q) /\ l \in Loan /\ job[r].loan \in Loan
  BY DEF Circle, IInv, Core
<1>2. AccountOf(l) \in Row /\ AccountOf(l) \notin Account
  BY <1>1, RowType, ClaimType
<1>3. AccountOf(l) \in Own(r)
  BY <1>1, <1>2, BlockerOfRow
<1>4. AccountOf(l) # DetailRow(job[r].loan)
  BY <1>1, ClaimType
<1>5. ~UndoHolds(r)
  BY <1>3, <1>4 DEF UndoHolds
<1>6. ~DisbursementHolds(r)
  <2>1. SUFFICES ASSUME DisbursementHolds(r) PROVE FALSE
    OBVIOUS
  <2>2. PayTo(job[r], seen[r].detail) \in Account
    <3>1. Disbursing(r) /\ pc[r] = "work" /\ Kind(r) = "disburse"
      BY <1>1, <2>1 DEF IInv, Core, Circle, DisbursementHolds
    <3> QED BY <3>1 DEF Disbursing
  <2>3. Own(r) \subseteq {DetailRow(job[r].loan), PayTo(job[r], seen[r].detail)}
    BY <2>1 DEF DisbursementHolds
  <2> QED BY <1>2, <1>3, <1>4, <2>2, <2>3
<1>7. Kind(r) \in AccountFirst /\ Own(r) \subseteq {AccountOf(job[r].loan), DetailRow(job[r].loan)}
  <2>1. AccountHeld(r) \/ BothHeld(r)
    BY <1>1, <1>5, <1>6 DEF Circle
  <2> QED BY <2>1 DEF AccountHeld, BothHeld
<1>8. AccountOf(l) = AccountOf(job[r].loan)
  BY <1>3, <1>4, <1>7
<1>9. job[r].loan = job[q].loan
  BY <1>8 DEF AccountOf
<1> QED BY <1>1, <1>7, <1>9 DEF Crossing, OrdersCross

(* A request in the circle that has locked a customer's account is a payment. *)
LEMMA AccountOwner ==
  ASSUME IInv, NEW S, NEW next, Circle(S, next), NEW r \in S, NEW x \in Account, x \in Own(r)
  PROVE  /\ DisbursementHolds(r) /\ x = PayTo(job[r], seen[r].detail)
         /\ DetailRow(job[r].loan) \in Own(r)
         /\ \/ todo[r] = <<Share(PayFrom(job[r], seen[r].detail)), AccountOf(job[r].loan)>>
            \/ todo[r] = <<AccountOf(job[r].loan)>>
<1> DEFINE d == DetailRow(job[r].loan)  a == AccountOf(job[r].loan)
<1>1. job[r].loan \in Loan
  BY DEF Circle
<1>2. x # d /\ x # a
  BY <1>1, ClaimType
<1>3. DisbursementHolds(r)
  BY <1>2 DEF Circle, AccountHeld, BothHeld, UndoHolds
<1> QED BY <1>2, <1>3 DEF DisbursementHolds

(* A payment that has locked the account it pays to waits in a crossing. *)
LEMMA AfterPosting ==
  ASSUME IInv, NEW S, NEW next, Circle(S, next), NEW q \in S, NEW x \in Account, x \in Own(q)
  PROVE  Crossing(S)
<1> DEFINE l == job[q].loan  r == next[q]  from == PayFrom(job[q], seen[q].detail)
<1>1. TypeOK /\ q \in Proc /\ r \in S /\ r \in Proc /\ r \in Blockers(q) /\ l \in Loan /\ job[r].loan \in Loan
  BY DEF Circle, IInv, Core
<1>2. /\ DisbursementHolds(q) /\ DetailRow(l) \in Own(q)
      /\ todo[q] = <<Share(from), AccountOf(l)>> \/ todo[q] = <<AccountOf(l)>>
  BY AccountOwner
<1>3. Kind(q) = "disburse"
  BY <1>2 DEF DisbursementHolds
<1>4. CASE todo[q] = <<AccountOf(l)>>
  <2>1. Head(todo[q]) = AccountOf(l) /\ Kind(q) \in DetailFirst
    BY <1>3, <1>4 DEF DetailFirst
  <2> QED BY <2>1, AtAccount
<1>5. CASE todo[q] = <<Share(from), AccountOf(l)>>
  <2>1. Share(from) \in Shares
    <3>1. Disbursing(q) /\ pc[q] = "work"
      BY <1>1 DEF IInv, Core, Circle
    <3> QED BY <1>3, <3>1 DEF Disbursing
  <2>2. from \in Account
    BY <2>1 DEF Shares, Share
  <2>3. Head(todo[q]) = Share(from)
    BY <1>5
  <2>4. r # q /\ from \in Own(r)
    BY <1>1, <2>2, <2>3, BlockerOfShare
  <2>5. DisbursementHolds(r) /\ from = PayTo(job[r], seen[r].detail) /\ DetailRow(job[r].loan) \in Own(r)
    BY <1>1, <2>2, <2>4, AccountOwner
  <2>6. job[r].loan # l
    BY <1>2, <2>4, <2>5 DEF Own
  <2> QED BY <1>1, <1>3, <2>5, <2>6 DEF Crossing, AccountsCross, DisbursementHolds
<1> QED BY <1>2, <1>4, <1>5

(* An update that waits for a reference waits for a payment to the account. *)
LEMMA AtReference ==
  ASSUME IInv, NEW S, NEW next, Circle(S, next), NEW q \in S, BothHeld(q)
  PROVE  Crossing(S)
<1> DEFINE r == next[q]
<1>1. TypeOK /\ q \in Proc /\ r \in S /\ r \in Proc /\ r \in Blockers(q) /\ todo[q] # <<>>
  BY DEF Circle, IInv, Core
<1>2. Head(todo[q]) \in Shares
  <2>1. todo[q] \in Seq(Shares)
    BY DEF BothHeld
  <2> QED BY <1>1, <2>1, HeadTailProperties
<1>3. PICK x \in Account : Head(todo[q]) = Share(x)
  BY <1>2 DEF Shares
<1>4. x \in Own(r)
  BY <1>1, <1>3, BlockerOfShare
<1> QED BY <1>1, <1>4, AfterPosting

(* A payment that waits for the account it pays to waits for another payment or for a reference. *)
LEMMA AtPayment ==
  ASSUME IInv, NEW S, NEW next, Circle(S, next), NEW q \in S, DisbursementHolds(q)
  PROVE  Crossing(S)
<1> DEFINE r == next[q]  to == PayTo(job[q], seen[q].detail)  sh == Share(PayFrom(job[q], seen[q].detail))
           d == DetailRow(job[q].loan)  a == AccountOf(job[q].loan)
<1>1. TypeOK /\ q \in Proc /\ r \in S /\ r \in Proc /\ r \in Blockers(q)
  BY DEF Circle, IInv, Core
<1>2. to \in Account /\ to \in Row
  <2>1. Disbursing(q) /\ pc[q] = "work" /\ Kind(q) = "disburse"
    BY <1>1 DEF IInv, Core, Circle, DisbursementHolds
  <2> QED BY <2>1 DEF Disbursing, Row
<1>3. CASE to \in Own(q)
  BY <1>2, <1>3, AfterPosting
<1>4. CASE to \notin Own(q)
  <2>1. todo[q] = <<to, sh, a>>
    BY <1>4 DEF DisbursementHolds
  <2>2. Head(todo[q]) = to
    BY <2>1
  <2>3. to \in Own(r) \/ to \in sharing[r]
    BY <1>1, <1>2, <2>2, BlockerOfRow
  <2>4. CASE to \in Own(r)
    BY <1>1, <1>2, <2>4, AfterPosting
  <2>5. CASE to \in sharing[r]
    <3>1. BothHeld(r) \/ DisbursementHolds(r)
      BY <1>1, <2>5 DEF Circle, AccountHeld, UndoHolds
    <3>2. CASE BothHeld(r)
      BY <1>1, <3>2, AtReference
    <3>3. CASE DisbursementHolds(r)
      <4>1. PayTo(job[r], seen[r].detail) \in Own(r)
        BY <2>5, <3>3 DEF DisbursementHolds
      <4>2. PayTo(job[r], seen[r].detail) \in Account
        <5>1. Disbursing(r) /\ pc[r] = "work" /\ Kind(r) = "disburse"
          BY <1>1, <3>3 DEF IInv, Core, Circle, DisbursementHolds
        <5> QED BY <5>1 DEF Disbursing
      <4> QED BY <1>1, <4>1, <4>2, AfterPosting
    <3> QED BY <3>1, <3>2, <3>3
  <2> QED BY <2>3, <2>4, <2>5
<1> QED BY <1>3, <1>4

(* Wherever one looks in a circle of waiting requests, it comes from a crossing. *)
LEMMA CirclesCross ==
  ASSUME IInv, NEW S, NEW next, Circle(S, next), S # {}
  PROVE  Crossing(S)
<1>1. PICK q \in S : TRUE
  OBVIOUS
<1> DEFINE r == next[q]  d == DetailRow(job[q].loan)
<1>2. TypeOK /\ q \in Proc /\ r \in S /\ r \in Proc /\ r \in Blockers(q) /\ job[q].loan \in Loan /\ job[r].loan \in Loan
  BY DEF Circle, IInv, Core
<1>3. ASSUME NEW u \in S, UndoHolds(u) PROVE Crossing(S)
  <2>1. Head(todo[u]) = AccountOf(job[u].loan) /\ Kind(u) \in DetailFirst
    BY <1>3 DEF UndoHolds, DetailFirst
  <2> QED BY <2>1, AtAccount
<1>4. CASE AccountHeld(q)
  <2>1. Head(todo[q]) = d /\ d \in Row /\ d \notin Account
    BY <1>2, <1>4, RowType, ClaimType DEF AccountHeld
  <2>2. d \in Own(r)
    BY <1>2, <2>1, BlockerOfRow
  <2>3. d # AccountOf(job[r].loan)
    BY <1>2, ClaimType
  <2>4. ~AccountHeld(r)
    BY <2>2, <2>3 DEF AccountHeld
  <2> QED BY <1>2, <1>3, <2>4, AtReference, AtPayment DEF Circle
<1> QED BY <1>1, <1>3, <1>4, AtReference, AtPayment DEF Circle

(* Requests on loans deadlock only where their orders of locking cross: an account before and after
   its loan's details, or two payments through each other's accounts. *)
THEOREM DeadlocksNeedCrossings == Spec => []OnlyCrossingsDeadlock
<1>1. Init => \A p \in Proc : Holding(p)
  <2> SUFFICES ASSUME Init, NEW p \in Proc PROVE Holding(p)
    OBVIOUS
  <2>1. pc[p] = "idle" /\ sharing[p] = {} /\ \A row \in Row : owner[row] # p
    BY LoanAssumption DEF Init
  <2> QED BY <2>1 DEF Holding, HoldsNothing, Own
<1>2. IInv /\ (\A p \in Proc : Holding(p)) /\ [Next]_vars => (\A p \in Proc : Holding(p))'
  BY HoldingKept
<1>3. IInv /\ (\A p \in Proc : Holding(p)) => OnlyCrossingsDeadlock
  <2> SUFFICES ASSUME IInv, \A p \in Proc : Holding(p), NEW S \in (SUBSET Proc) \ {{}}, WaitCircle(S)
               PROVE  Crossing(S)
    BY DEF OnlyCrossingsDeadlock, Crossing
  <2>1. PICK next : Circle(S, next)
    BY CircleIs
  <2>2. S # {}
    OBVIOUS
  <2>3. IInv
    OBVIOUS
  <2> HIDE DEF IInv, Circle, Crossing
  <2> QED BY <2>1, <2>2, <2>3, CirclesCross, SMT
<1> QED BY <1>1, <1>2, <1>3, Invariance, PTL DEF Spec

=============================================================================
