--------------------------- MODULE LoanLifecycle ----------------------------
(***************************************************************************)
(* A loan application from its review to its disbursement: approve,        *)
(* decline, undo, update and disburse as racing requests on one loan.      *)
(* Every handler reads the loan's two rows, loan_details and accounts,     *)
(* without a lock, decides, and then runs a transaction whose statements   *)
(* lock rows one after the other.  Only disburseLoan looks at a row again  *)
(* once it has the lock.                                                   *)
(***************************************************************************)
EXTENDS Posting, Sequences

CONSTANTS
  Proc,           \* requests in flight, each answered once
  Request,        \* what a request may ask for
  Loan,           \* the loan accounts
  LoanRef,        \* [Loan -> Ref]: 'LOAN-' and the account id
  Owned,          \* the accounts of the loans' customer
  OpeningRow,     \* [Account -> AccountRow]
  OpeningDetail,  \* [Loan -> LoanDetail]
  OpeningAccount  \* [Loan -> LoanAccountRow]

(* The statuses up to the disbursement; the loan worker sets the later ones. *)
LoanStatus == {"pending", "approved", "declined", "disbursed"}
ChargeType == {"fixed", "percentage"}
ChargeTime == {"upfront", "installment"}

(* A charge counts minor units if it is fixed and hundredths of a percent if
   not. The principal stands for tenor, rate and moratorium as well. *)
LoanDetail ==
  [status : LoanStatus, principal : Nat, outstanding : Nat, charge : Nat,
   chargeType : ChargeType, chargeTime : ChargeTime, feeGl : Gl \cup {None},
   payTo : Account \cup {None}, payFrom : Account \cup {None}]

LoanAccountRow ==
  [status : {"pending", "active", "rejected"}, book : Int, gl : Gl]

ASSUME LoanAssumption ==
  /\ None \notin Proc
  /\ Loan \cap Account = {}
  /\ \A x \in Loan \cup Account, t \in {"loan_details", "accounts", "key share"} :
       <<x, t>> \notin Account
  /\ LoanRef \in [Loan -> Ref]
  /\ \A l, k \in Loan : LoanRef[l] = LoanRef[k] => l = k
  /\ Owned \subseteq Known \cap Account
  /\ OpeningRow \in [Account -> AccountRow]
  /\ OpeningDetail \in [Loan -> LoanDetail]
  /\ OpeningAccount \in [Loan -> LoanAccountRow]
  /\ \A l \in Loan : OpeningDetail[l].status # "disbursed" /\ OpeningAccount[l].book = 0

ReviewKinds == {"approve", "decline", "undo", "activate"}

(* UpdateLoanDetailsDto and DisburseLoanDto: None is a field that is not sent. *)
IsUpdate(r) ==
  /\ r.principal \in Nat \cup {None} /\ r.charge \in Nat \cup {None}
  /\ r.chargeType \in ChargeType \cup {None} /\ r.chargeTime \in ChargeTime \cup {None}
  /\ r.payTo \in Account \cup {None} /\ r.payFrom \in Account \cup {None}
  /\ r.feeGl \in Gl \cup {None} /\ r.gl \in Gl \cup {None} /\ r.renames \in BOOLEAN

IsDisbursement(r) ==
  /\ r.payTo \in Account \cup {None} /\ r.payFrom \in Account \cup {None}
  /\ r.feeGl \in Gl \cup {None}

ASSUME LoanRequestAssumption ==
  /\ None \notin Nat \cup ChargeType \cup ChargeTime
  /\ \A r \in Request :
       /\ r.loan \in Loan
       /\ \/ r.kind \in ReviewKinds
          \/ r.kind = "update" /\ IsUpdate(r)
          \/ r.kind = "disburse" /\ IsDisbursement(r)

-----------------------------------------------------------------------------
VARIABLES
  detail,         \* loan_details: [Loan -> LoanDetail]
  account,        \* the accounts rows of the loans: [Loan -> LoanAccountRow]
  accts,          \* the accounts rows of the customer's other accounts
  journals,       \* journal_entries with their lines, under the id of their writer
  transactions,   \* transactions.reference
  schedules,      \* loan_schedules: who wrote them, for which loan, from which terms
  approvedTerms,  \* history: the terms loans had while they were approved
  owner,          \* row locks: [Row -> Proc \cup {None}]
  sharing,        \* the accounts a process's foreign keys hold FOR KEY SHARE
  pc, job,        \* where a process is, and the request it serves
  seen,           \* the loan's rows as the process read them
  todo,           \* the claims of its next statements, in order
  res             \* how the request was answered

loans == <<detail, account, schedules, approvedTerms>>
bank  == <<accts, journals, transactions>>
vars  == <<detail, account, accts, journals, transactions, schedules, approvedTerms,
           owner, sharing, pc, job, seen, todo, res>>

DetailRow(l)  == <<l, "loan_details">>
AccountOf(l)  == <<l, "accounts">>
Row == Account \cup {DetailRow(l) : l \in Loan} \cup {AccountOf(l) : l \in Loan}

(* The claim of a foreign key on the account it refers to. It keeps only FOR UPDATE
   waiting, and of the accounts and ledgers referred to nothing but the account a
   loan is paid to is locked so. *)
Share(a) == <<a, "key share">>
Shares == {Share(a) : a \in Account}
Claim == Row \cup Shares

Terms == [principal : Nat, charge : Nat, chargeType : ChargeType, chargeTime : ChargeTime]
TermsOf(d) ==
  [principal |-> d.principal, charge |-> d.charge, chargeType |-> d.chargeType,
   chargeTime |-> d.chargeTime]

Seen == [detail : LoanDetail, account : LoanAccountRow]

TypeOK ==
  /\ detail \in [Loan -> LoanDetail]
  /\ account \in [Loan -> LoanAccountRow]
  /\ accts \in [Account -> AccountRow]
  /\ \A j \in journals : j.id \in Proc
  /\ \A s \in schedules : s.by \in Proc /\ s.loan \in Loan /\ s.terms \in Terms
  /\ \A t \in approvedTerms : t.loan \in Loan /\ t.terms \in Terms
  /\ owner \in [Row -> Proc \cup {None}]
  /\ sharing \in [Proc -> SUBSET Account]
  /\ pc \in [Proc -> {"idle", "work", "done"}]
  /\ job \in [Proc -> Request \cup {None}]
  /\ seen \in [Proc -> Seen \cup {None}]
  /\ todo \in [Proc -> Seq(Claim)]
  /\ res \in [Proc -> {"none", "ok", "refused", "threw", "failed", "lost"}]

Approved(d) == {[loan |-> l, terms |-> TermsOf(d[l])] : l \in {k \in Loan : d[k].status = "approved"}}

Init ==
  /\ detail = OpeningDetail
  /\ account = OpeningAccount
  /\ accts = OpeningRow
  /\ journals = {}
  /\ transactions = {}
  /\ schedules = {}
  /\ approvedTerms = Approved(OpeningDetail)
  /\ owner = [r \in Row |-> None]
  /\ sharing = [p \in Proc |-> {}]
  /\ pc = [p \in Proc |-> "idle"]
  /\ job = [p \in Proc |-> None]
  /\ seen = [p \in Proc |-> None]
  /\ todo = [p \in Proc |-> <<>>]
  /\ res = [p \in Proc |-> "none"]

-----------------------------------------------------------------------------
(* Amounts. big.js rounds half to even.                                      *)
HalfEven(n, d) ==
  LET q == n \div d  r == n % d IN
  IF 2 * r > d \/ (2 * r = d /\ q % 2 = 1) THEN q + 1 ELSE q

(* A fee in ten thousandths of a minor unit. *)
FeeUnit == 10000
FeeFor(type, principal, charge) ==
  IF type = "percentage" THEN principal * charge ELSE FeeUnit * charge

UpfrontFee(d) ==
  IF d.chargeTime = "upfront" THEN FeeFor(d.chargeType, d.principal, d.charge) ELSE 0

(* Mutant: a field that is not sent is overwritten with NULL. *)
GivenOrNull(x, old) == x

Given(x, old) == IF x = None THEN old ELSE x

(* validateLoanChargeDetails: the cap of a tenth implies its other bounds. *)
ChargeAllowed(type, principal, charge, feeGl) ==
  charge > 0 => feeGl # None /\ 10 * FeeFor(type, principal, charge) <= FeeUnit * principal

(* The stored charge goes through toMajorStr, which divides by 100, although the
   column is in major units or percent already. *)
StoredChargeAsRead(d) == HalfEven(d.charge, 100)

-----------------------------------------------------------------------------
(* What the handlers check on the rows they read without a lock.             *)
ReadyForApproval(s) ==
  /\ s.account.status \in {"active", "pending"}
  /\ s.detail.status = "pending"
  /\ s.detail.charge > 0 => s.detail.feeGl # None

UpdateAllowed(r, d) ==
  /\ d.status = "pending"
  /\ ChargeAllowed(Given(r.chargeType, d.chargeType), Given(r.principal, d.principal),
                   IF r.charge = None THEN StoredChargeAsRead(d) ELSE r.charge,
                   Given(r.feeGl, d.feeGl))
  /\ r.payTo # None \/ r.payFrom # None =>
       {Given(r.payTo, d.payTo), Given(r.payFrom, d.payFrom)} \ {None} \subseteq Owned
  /\ {r.gl, r.feeGl} \ {None} \subseteq Known

(* Mutant: the check on the row read before the transaction is left out. *)
ApprovedOrPending(d) == d.status \in {"approved", "pending"}

ApprovedWhenRead(d) == d.status = "approved"

PayTo(r, d)   == Given(r.payTo, d.payTo)
PayFrom(r, d) == Given(r.payFrom, d.payFrom)

DisbursementAllowed(r, s, rows) ==
  /\ s.account.status = "active"
  /\ ApprovedWhenRead(s.detail)
  /\ {PayTo(r, s.detail), PayFrom(r, s.detail)} \subseteq Owned
  /\ PostingAllowed(PayTo(r, s.detail), rows[PayTo(r, s.detail)], "credit", 0)
  /\ PostingAllowed(PayFrom(r, s.detail), rows[PayFrom(r, s.detail)], "debit",
                    HalfEven(UpfrontFee(s.detail), FeeUnit))
  /\ r.feeGl # None => r.feeGl \in Known

Allowed(r, s, rows) ==
  CASE r.kind = "approve"  -> ReadyForApproval(s)
    [] r.kind = "decline"  -> s.detail.status = "pending"
    [] r.kind = "undo"     -> s.detail.status \in {"approved", "declined"}
    [] r.kind = "activate" -> s.account.status # "active"
    [] r.kind = "update"   -> UpdateAllowed(r, s.detail)
    [] r.kind = "disburse" -> DisbursementAllowed(r, s, rows)

(* Mutant: the loan is approved before its account is activated. *)
LoanFirst(d, a, s) == IF s.account.status = "pending" THEN <<d, a>> ELSE <<d>>

ApprovalPlan(d, a, s) == IF s.account.status = "pending" THEN <<a, d>> ELSE <<d>>

SharesOf(x) == IF x = None THEN <<>> ELSE <<Share(x)>>
UpdatePlan(d, a, r) ==
  LET refs == SharesOf(r.payTo) \o SharesOf(r.payFrom) IN
  IF r.renames \/ r.gl # None THEN <<a>> \o (<<d>> \o refs) ELSE <<d>> \o refs

(* What the statements of a transaction claim, in their order: the rows they lock and,
   at the end of the one that writes loan_details, the accounts it refers to. *)
Plan(r, s) ==
  LET d == DetailRow(r.loan)  a == AccountOf(r.loan) IN
  CASE r.kind = "approve"  -> ApprovalPlan(d, a, s)
    [] r.kind = "decline"  -> <<a, d>>
    [] r.kind = "undo"     -> <<d, a>>
    [] r.kind = "activate" -> <<a>>
    [] r.kind = "update"   -> UpdatePlan(d, a, r)
    [] r.kind = "disburse" -> <<d, PayTo(r, s.detail), Share(PayFrom(r, s.detail)), a>>

-----------------------------------------------------------------------------
(* The posting of a disbursement, built from the rows read before the transaction. *)
FeeGlFor(r, d) == Given(r.feeGl, d.feeGl)
HasUpfrontFee(d) == UpfrontFee(d) > 0

PayloadOf(r, s) ==
  LET d    == s.detail
      to   == PayTo(r, d)
      fees == IF HasUpfrontFee(d) /\ FeeGlFor(r, d) # None THEN {FeeGlFor(r, d)} ELSE {}
  IN [referenceNumber |-> LoanRef[r.loan], operationType |-> "none", customerAccounts |-> NoLegs,
      debits  |-> [g \in {s.account.gl} |-> d.principal],
      credits |-> [i \in {to} \cup fees |->
                     IF i = to THEN HalfEven(FeeUnit * d.principal - UpfrontFee(d), FeeUnit)
                     ELSE HalfEven(UpfrontFee(d), FeeUnit)],
      fee |-> None, feeGl |-> None]

Payload(p) == PayloadOf(job[p], seen[p])

(* What an update writes: the fields that were sent, and in any case the fee ledger, as it
   was read. *)
UpdatedDetail(r, row, read) ==
  [row EXCEPT !.principal = Given(r.principal, @), !.outstanding = Given(r.principal, @),
              !.charge = Given(r.charge, @), !.chargeType = Given(r.chargeType, @),
              !.chargeTime = Given(r.chargeTime, @), !.payTo = Given(r.payTo, @),
              !.payFrom = Given(r.payFrom, @), !.feeGl = Given(r.feeGl, read.feeGl)]

(* What a disbursement writes. *)
DisbursedDetail(r, row, read) ==
  [row EXCEPT !.status = "disbursed", !.payTo = PayTo(r, read), !.payFrom = PayFrom(r, read),
              !.feeGl = FeeGlFor(r, read)]

-----------------------------------------------------------------------------
(* Steps every request shares.                                               *)
Start(p, r) ==
  LET s == [detail |-> detail[r.loan], account |-> account[r.loan]] IN
  /\ pc[p] = "idle"
  /\ Allowed(r, s, accts)
  /\ pc' = [pc EXCEPT ![p] = "work"]
  /\ job' = [job EXCEPT ![p] = r]
  /\ seen' = [seen EXCEPT ![p] = s]
  /\ todo' = [todo EXCEPT ![p] = Plan(r, s)]
  /\ UNCHANGED <<loans, bank, owner, sharing, res>>

Refuse(p, r) ==
  /\ pc[p] = "idle"
  /\ ~Allowed(r, [detail |-> detail[r.loan], account |-> account[r.loan]], accts)
  /\ pc' = [pc EXCEPT ![p] = "done"]
  /\ res' = [res EXCEPT ![p] = "refused"]
  /\ UNCHANGED <<loans, bank, owner, sharing, job, seen, todo>>

(* COMMIT and ROLLBACK both free the rows. *)
Finish(p, answer) ==
  /\ pc' = [pc EXCEPT ![p] = "done"]
  /\ res' = [res EXCEPT ![p] = answer]
  /\ owner' = [r \in Row |-> IF owner[r] = p THEN None ELSE owner[r]]
  /\ sharing' = [sharing EXCEPT ![p] = {}]
  /\ job' = [job EXCEPT ![p] = None]
  /\ seen' = [seen EXCEPT ![p] = None]
  /\ todo' = [todo EXCEPT ![p] = <<>>]

AtClaim(p, c) == pc[p] = "work" /\ todo[p] # <<>> /\ Head(todo[p]) = c
Kind(p) == job[p].kind

(* A reference is checked only where the UPDATE changes it in the row it has locked. *)
Refers(p, a) ==
  LET row == detail[job[p].loan]  read == seen[p].detail
      new == IF Kind(p) = "update" THEN UpdatedDetail(job[p], row, read)
                                   ELSE DisbursedDetail(job[p], row, read)
  IN (new.payTo = a /\ row.payTo # a) \/ (new.payFrom = a /\ row.payFrom # a)

(* Whom a process waits for: FOR UPDATE for everybody, a foreign key for FOR UPDATE. *)
LockBlockers(p, row) == ({owner[row]} \ {None}) \cup {q \in Proc \ {p} : row \in sharing[q]}
ShareBlockers(p, a)  == IF Refers(p, a) THEN {owner[a]} \ {None, p} ELSE {}
Blockers(p) ==
  {q \in Proc : \/ \E row \in Row : AtClaim(p, row) /\ q \in LockBlockers(p, row)
                \/ \E a \in Account : AtClaim(p, Share(a)) /\ q \in ShareBlockers(p, a)}

(* undoApproval updates loan_details WHERE status is the one it read: a row with
   another status is neither updated nor waited for. *)
Misses(p) ==
  /\ pc[p] = "work" /\ Kind(p) = "undo"
  /\ AtClaim(p, DetailRow(job[p].loan))
  /\ detail[job[p].loan].status # seen[p].detail.status

(* disburseLoan under the lock of loan_details, and the validation of its posting. *)
StillDisbursable(p) ==
  /\ detail[job[p].loan].status = "approved"
  /\ HasUpfrontFee(seen[p].detail) => FeeGlFor(job[p], seen[p].detail) # None
  /\ Accepted(Payload(p))

(* The posting ends before the loan's details are updated. *)
Posted(p) == Verdict(Payload(p), accts, transactions) = "ok"

Rejects(p, c) ==
  /\ Kind(p) = "disburse"
  /\ \/ c = DetailRow(job[p].loan) /\ ~StillDisbursable(p)
     \/ c \in Shares /\ ~Posted(p)

Proceeds(p) ==
  /\ todo' = [todo EXCEPT ![p] = Tail(@)]
  /\ UNCHANGED <<loans, bank, pc, job, seen, res>>

Lock(p) ==
  \E row \in Row :
    /\ AtClaim(p, row)
    /\ LockBlockers(p, row) = {}
    /\ ~Misses(p) /\ ~Rejects(p, row)
    /\ owner' = [owner EXCEPT ![row] = p]
    /\ Proceeds(p)
    /\ UNCHANGED sharing

ShareKey(p) ==
  \E a \in Account :
    /\ AtClaim(p, Share(a))
    /\ ShareBlockers(p, a) = {}
    /\ ~Rejects(p, Share(a))
    /\ sharing' = [sharing EXCEPT ![p] = IF Refers(p, a) THEN @ \cup {a} ELSE @]
    /\ Proceeds(p)
    /\ UNCHANGED owner

UndoMisses(p) ==
  /\ Misses(p)
  /\ Proceeds(p)
  /\ UNCHANGED <<owner, sharing>>

RejectDisbursement(p) ==
  /\ \E row \in {DetailRow(l) : l \in Loan} :
       AtClaim(p, row) /\ LockBlockers(p, row) = {} /\ Rejects(p, row)
  /\ Finish(p, "threw")
  /\ UNCHANGED <<loans, bank>>

(* The posting answers with an error and its caller throws. *)
PostingFails(p) == \E c \in Shares : AtClaim(p, c) /\ Rejects(p, c)
RollBack(p) ==
  /\ PostingFails(p)
  /\ Finish(p, Verdict(Payload(p), accts, transactions))
  /\ UNCHANGED <<loans, bank>>

-----------------------------------------------------------------------------
(* The writes of a transaction that has locked its rows, and its commit.     *)
Committing(p, kind) == pc[p] = "work" /\ todo[p] = <<>> /\ Kind(p) = kind

(* A loan that is approved after a step keeps its terms in the history. *)
SetDetail(l, d) ==
  /\ detail' = [detail EXCEPT ![l] = d]
  /\ approvedTerms' = approvedTerms \cup Approved([detail EXCEPT ![l] = d])

ApproveLoan(p) ==
  /\ Committing(p, "approve")
  /\ LET l == job[p].loan IN
       /\ account' = [account EXCEPT ![l].status =
            IF seen[p].account.status = "pending" THEN "active" ELSE @]
       /\ SetDetail(l, [detail[l] EXCEPT !.status = "approved"])
  /\ Finish(p, "ok")
  /\ UNCHANGED <<bank, schedules>>

DeclineLoan(p) ==
  /\ Committing(p, "decline")
  /\ LET l == job[p].loan IN
       /\ account' = [account EXCEPT ![l].status = "rejected"]
       /\ SetDetail(l, [detail[l] EXCEPT !.status = "declined"])
  /\ Finish(p, "ok")
  /\ UNCHANGED <<bank, schedules>>

(* The account is pending again, whether the WHERE found the loan or not. *)
UndoApproval(p) ==
  /\ Committing(p, "undo")
  /\ LET l == job[p].loan IN
       /\ account' = [account EXCEPT ![l].status = "pending"]
       /\ SetDetail(l, IF owner[DetailRow(l)] = p
                       THEN [detail[l] EXCEPT !.status = "pending"] ELSE detail[l])
  /\ Finish(p, "ok")
  /\ UNCHANGED <<bank, schedules>>

ActivateAccount(p) ==
  /\ Committing(p, "activate")
  /\ account' = [account EXCEPT ![job[p].loan].status = "active"]
  /\ Finish(p, "ok")
  /\ UNCHANGED <<detail, schedules, approvedTerms, bank>>

UpdateLoanDetails(p) ==
  /\ Committing(p, "update")
  /\ LET l == job[p].loan IN
       /\ account' = [account EXCEPT ![l].gl = Given(job[p].gl, @)]
       /\ SetDetail(l, UpdatedDetail(job[p], detail[l], seen[p].detail))
  /\ Finish(p, "ok")
  /\ UNCHANGED <<bank, schedules>>

(* Mutant: the loan's balance is taken from the locked row, the posting from the row read. *)
LoanBookOfLockedRow(read, row) == -row.principal

LoanBook(read, row) == -read.principal

DisbursementRefs(pl) == TransactionRefs(pl) \cup {<<pl.referenceNumber, "DEB", "">>}

DisburseLoan(p) ==
  /\ Committing(p, "disburse")
  /\ LET l == job[p].loan  pl == Payload(p)  d == seen[p].detail IN
       /\ accts' = [a \in Account |-> IF a \in Parties(pl)
                      THEN [accts[a] EXCEPT !.bookBalance = NewBookBalance(pl, a, accts[a])]
                      ELSE accts[a]]
       /\ journals' = journals \cup {[id |-> p, entry |-> JournalOf(pl)]}
       /\ transactions' = transactions \cup DisbursementRefs(pl)
       /\ schedules' = schedules \cup {[by |-> p, loan |-> l, terms |-> TermsOf(d)]}
       /\ account' = [account EXCEPT ![l].status = "active", ![l].book = LoanBook(d, detail[l])]
       /\ SetDetail(l, DisbursedDetail(job[p], detail[l], d))
  /\ Finish(p, "ok")

-----------------------------------------------------------------------------
(* PostgreSQL aborts one transaction of every circle of waiting ones. *)
Waits(p) == pc[p] = "work" /\ todo[p] # <<>> /\ ~Misses(p) /\ ~PostingFails(p)

WaitCircle(S) ==
  /\ \A q \in S : Waits(q)
  /\ \E next \in [S -> S] :
       {next[q] : q \in S} = S /\ \A q \in S : next[q] \in Blockers(q)

InWaitCircle(p) == \E S \in SUBSET Proc : p \in S /\ WaitCircle(S)

DeadlockVictim(p) ==
  /\ InWaitCircle(p)
  /\ Finish(p, "failed")
  /\ UNCHANGED <<loans, bank>>

(* The service process dies: its open transaction is rolled back. *)
Crash(p) ==
  /\ pc[p] = "work"
  /\ Finish(p, "lost")
  /\ UNCHANGED <<loans, bank>>

AllAnswered == (\A p \in Proc : pc[p] = "done") /\ UNCHANGED vars

Work(p) ==
  \/ Lock(p) \/ ShareKey(p) \/ UndoMisses(p) \/ RejectDisbursement(p)
  \/ ApproveLoan(p) \/ DeclineLoan(p) \/ UndoApproval(p) \/ ActivateAccount(p)
  \/ UpdateLoanDetails(p) \/ DisburseLoan(p) \/ RollBack(p)
  \/ DeadlockVictim(p)

Next ==
  \/ \E p \in Proc, r \in Request : Start(p, r) \/ Refuse(p, r)
  \/ \E p \in Proc : Work(p)
  \/ \E p \in Proc : Crash(p)
  \/ AllAnswered

(* The database serves every open statement; clients and crashes are free. *)
Fairness == \A p \in Proc : WF_vars(Work(p))

Spec == Init /\ [][Next]_vars /\ Fairness

-----------------------------------------------------------------------------
(* Correctness.                                                              *)

(* A loan is paid out at most once, although a stale approval can bring a
   disbursed loan back to approved and a second disbursement past the check under
   the lock: the reference 'LOAN-' and id is what stops it. A loan that says it
   is disbursed has been paid out. *)
PaymentsOf(l) == {j \in journals : j.entry.reference = LoanRef[l]}
SchedulesOf(l) == {s \in schedules : s.loan = l}
DisbursedOnce ==
  \A l \in Loan :
    /\ \A j, k \in PaymentsOf(l) : j = k
    /\ \A s, t \in SchedulesOf(l) : s = t
    /\ detail[l].status = "disbursed" => PaymentsOf(l) # {}

(* The four books of a disbursement are computed in four places from rows read at
   different times: what the journal takes from the loan ledger is the principal
   of the schedule and the balance of the loan account, and what it gives to an
   account is what the account has grown by. *)
DebitedBy(j)    == SumFunction([e \in j.entry.lines |-> e.debit])
CreditedTo(j, a) ==
  SumFunction([e \in {e \in j.entry.lines : e.of = <<a, "leg">>} |-> e.credit])
BooksAgree ==
  /\ \A l \in Loan :
       /\ account[l].book = -SumFunction([j \in PaymentsOf(l) |-> DebitedBy(j)])
       /\ account[l].book = -SumFunction([s \in SchedulesOf(l) |-> s.terms.principal])
  /\ \A a \in Account :
       accts[a].bookBalance - OpeningRow[a].bookBalance
         = SumFunction([j \in journals |-> CreditedTo(j, a)])

(* A disbursement is one step to everybody else: with its requests, locks and stale rows
   hidden, the lifecycle of loans is the abstract one, which pays a loan once and loses
   nothing between the loan, the customer and the fees. *)
EarnedBy(j) == SumFunction([e \in {e \in j.entry.lines : e.of[1] \in Gl} |-> e.credit])
TermsIn(history) == [l \in Loan |-> {t.terms : t \in {t \in history : t.loan = l}}]
Payouts == INSTANCE LoanPayout WITH
  Net <- [t \in Terms |-> HalfEven(FeeUnit * t.principal - UpfrontFee(t), FeeUnit)],
  OpeningApproved <- TermsIn(Approved(OpeningDetail)),
  OpeningBook <- [a \in Account |-> OpeningRow[a].bookBalance],
  approved <- TermsIn(approvedTerms),
  paid <- TermsIn(schedules),
  owed <- [l \in Loan |-> -account[l].book],
  book <- [a \in Account |-> accts[a].bookBalance],
  earned <- SumFunction([j \in journals |-> EarnedBy(j)])
ImplementsLoanPayout == Payouts!Spec

(* Where requests can deadlock. approve, decline and update lock a loan's account before
   its details, undo and disburse the other way round, and a disbursement locks the account
   it pays to before it shares the one it will be repaid from. Every circle of waiting
   requests has its cause there: it holds one of either order on the same loan, or two
   payments of which one is repaid from the account the other pays to. Requests that
   use one order never stop each other, however many there are. *)
AccountFirst == {"approve", "decline", "update"}
DetailFirst  == {"undo", "disburse"}
OrdersCross(p, q) ==
  Kind(p) \in AccountFirst /\ Kind(q) \in DetailFirst /\ job[p].loan = job[q].loan
AccountsCross(p, q) ==
  /\ Kind(p) = "disburse" /\ Kind(q) = "disburse" /\ job[p].loan # job[q].loan
  /\ PayFrom(job[p], seen[p].detail) = PayTo(job[q], seen[q].detail)
OnlyCrossingsDeadlock ==
  \A S \in (SUBSET Proc) \ {{}} :
    WaitCircle(S) => \E p, q \in S : OrdersCross(p, q) \/ AccountsCross(p, q)

(* "unable to update details of non pending loan" (the error of updateLoanDetails),
   taken at the step that changes the details. *)
OnlyPendingLoansChange ==
  [][\A l \in Loan :
       TermsOf(detail[l]) # TermsOf(detail'[l]) => detail[l].status = "pending"]_vars
=============================================================================
