--------------------------- MODULE LoanRepayment ----------------------------
(***************************************************************************)
(* The collection of disbursed loans: a cron sweep queues one job per loan *)
(* and day, and workers run processLoanRepayment, which takes what is due  *)
(* out of the repayment account, instalment by instalment and bucket by    *)
(* bucket, posts it and closes the loan.  Jobs stall, fail and run twice;  *)
(* loans share a repayment account; its owner moves money and restrictions *)
(* change meanwhile.                                                       *)
(***************************************************************************)
EXTENDS Posting, Sequences

CONSTANTS
  Loan,          \* the loan accounts
  Worker,        \* the jobs that can run at a time, 10 in the source
  Instalment,    \* [Loan -> Seq(Due)]: loan_schedules as disburseLoan wrote them
  Principal,     \* [Loan -> Nat]: loan_details.principal_amount
  Strategy,      \* [Loan -> <<bucket, bucket, bucket>>]
  PayFrom,       \* [Loan -> Account]: repayment_account_id
  LoanGl,        \* [Loan -> Gl]: the control ledger of the loan account
  IncomeGl,      \* [Loan -> Gl]
  LoanFeeGl,     \* [Loan -> Gl \cup {None}]
  OpeningRow,    \* [Account -> AccountRow]
  ServedCrons,   \* the cron jobs DefaultProcessor has a case for
  MaxStalled,    \* maxStalledCount of the workers, 1 in the source
  Change,        \* what the owner of an account may pay in (> 0) or out (< 0) at a time
  LastDay,       \* bound: the days of a history
  MaxChanges,    \* bound: payments and restrictions in a history
  MaxFaults      \* bound: stalls, crashes and broken sweeps in a history

(* The letters of RepaymentProcessingStrategy: principal, charge, interest. *)
Bucket == {"P", "C", "I"}
Amounts == [Bucket -> Nat]
Sum(f) == f["P"] + f["C"] + f["I"]

(* The total is rounded by itself, and counts a charge the buckets do not. *)
Due == [amount : Amounts, total : Nat, day : Nat]

ASSUME RepaymentAssumption ==
  /\ Loan \cap Account = {}
  /\ None \notin Worker \cup Loan
  /\ IsFiniteSet(Loan)
  /\ Instalment \in [Loan -> Seq(Due)]
  /\ \A l \in Loan : \A k \in DOMAIN Instalment[l] : \A j \in 1..k :
       Instalment[l][j].day <= Instalment[l][k].day
  /\ Principal \in [Loan -> Nat]
  /\ Strategy \in [Loan -> [1..3 -> Bucket]]
  /\ \A l \in Loan : {Strategy[l][i] : i \in 1..3} = Bucket
  /\ PayFrom \in [Loan -> Account]
  /\ LoanGl \in [Loan -> Gl] /\ IncomeGl \in [Loan -> Gl]
  /\ LoanFeeGl \in [Loan -> Gl \cup {None}]
  /\ OpeningRow \in [Account -> AccountRow]
  /\ Change \subseteq Int
  /\ {MaxStalled, LastDay, MaxChanges, MaxFaults} \subseteq Nat

VARIABLES
  detail,        \* loan_details: [Loan -> [status, outstanding]]
  account,       \* the loans' own accounts rows: [Loan -> [status, book]]
  rows,          \* loan_schedules: what has been paid of each instalment, and its status
  accts,         \* the accounts rows of the customers' accounts
  ledger,        \* journal_entry_lines: credits less debits of each ledger
  receipts,      \* transactions '_CRD': [Loan -> the principal they name]
  owner,         \* row locks: [Loan \cup Account -> Worker \cup {None}]
  pc, work,      \* where a worker is, and the job it serves with what it has read
  queue,         \* the jobs loan-repayment-<loan>-<day> BullMQ knows
  day, faults, changes,
  moved          \* history: what the owners have paid in or out

loans == <<detail, account, rows, receipts>>
books == <<accts, ledger>>
world == <<day, faults, changes, moved>>
vars  == <<detail, account, rows, accts, ledger, receipts, owner, pc, work, queue,
           day, faults, changes, moved>>

RowStatus == {"scheduled", "partially_paid", "overdue", "paid"}
Row == [got : Amounts, total : Nat, status : RowStatus]
Day == 0..LastDay
Job == [loan : Loan, day : Day, state : {"waiting", "active", "failed"}, stalls : 0..MaxStalled]

LoanRow == [status : {"disbursed", "paid_off"}, outstanding : Nat]
LoanAccountRow == [status : {"active", "closed"}, book : Int]

(* A job as a worker has it: "at" is its transactionAt, and it holds the job's lock
   in the queue unless the job has been taken from it. *)
Work == [loan : Loan, day : Day, at : Day, holds : BOOLEAN,
         detail : LoanRow \cup {None}, book : Int, row : AccountRow \cup {None}]

TypeOK ==
  /\ detail \in [Loan -> LoanRow]
  /\ account \in [Loan -> LoanAccountRow]
  /\ rows \in [Loan -> Seq(Row)]
  /\ \A l \in Loan : Len(rows[l]) = Len(Instalment[l])
  /\ accts \in [Account -> AccountRow]
  /\ ledger \in [Gl -> Int]
  /\ receipts \in [Loan -> Nat]
  /\ owner \in [Loan \cup Account -> Worker \cup {None}]
  /\ pc \in [Worker -> {"idle", "loan", "account", "collect"}]
  /\ work \in [Worker -> Work \cup {None}]
  /\ queue \subseteq Job
  /\ day \in Day /\ faults \in 0..MaxFaults /\ changes \in 0..MaxChanges
  /\ moved \in [Account -> Int]

Init ==
  /\ detail = [l \in Loan |-> [status |-> "disbursed", outstanding |-> Principal[l]]]
  /\ account = [l \in Loan |-> [status |-> "active", book |-> -Principal[l]]]
  /\ rows = [l \in Loan |-> [k \in DOMAIN Instalment[l] |->
       [got |-> [b \in Bucket |-> 0], total |-> 0, status |-> "scheduled"]]]
  /\ accts = OpeningRow
  /\ ledger = [g \in Gl |-> 0]
  /\ receipts = [l \in Loan |-> 0]
  /\ owner = [r \in Loan \cup Account |-> None]
  /\ pc = [w \in Worker |-> "idle"]
  /\ work = [w \in Worker |-> None]
  /\ queue = {}
  /\ day = 0 /\ faults = 0 /\ changes = 0
  /\ moved = [a \in Account |-> 0]

Fault == faults < MaxFaults /\ faults' = faults + 1

-----------------------------------------------------------------------------
(* The sweep: it reads which loans have something due, then queues their jobs.
   A loan is open while it is disbursed; nothing sets the status 'active'. *)
Open(d) == d.status = "disbursed"

HasDue(l, at) ==
  \E k \in DOMAIN Instalment[l] : Instalment[l][k].day <= at /\ rows[l][k].status # "paid"

(* BullMQ ignores an add whose jobId it knows: a job that waits, runs or has failed. *)
SameId(l, d) == {j \in queue : j.loan = l /\ j.day = d}

DueLoans == {l \in Loan : Open(detail[l]) /\ HasDue(l, day)}

Dispatch(ls) ==
  queue' = queue \cup {[loan |-> l, day |-> day, state |-> "waiting", stalls |-> 0] :
                         l \in {k \in ls : SameId(k, day) = {}}}

(* The jobs follow the read at once; it is in the queue that they get old. *)
Sweep ==
  /\ "HandleLoanRepayment" \in ServedCrons
  /\ Dispatch(DueLoans)
  /\ UNCHANGED <<loans, books, owner, pc, work, world>>

SweepBreaksOff ==
  /\ "HandleLoanRepayment" \in ServedCrons
  /\ Fault
  /\ \E ls \in SUBSET DueLoans : ls # DueLoans /\ Dispatch(ls)
  /\ UNCHANGED <<loans, books, owner, pc, work, day, changes, moved>>

-----------------------------------------------------------------------------
(* A worker takes a job and gives it back.                                   *)
JobOf(w) == {j \in SameId(work[w].loan, work[w].day) : work[w].holds}

TakeJob(w, l) ==
  /\ pc[w] = "idle"
  /\ \E j \in queue :
       /\ j.loan = l /\ j.state = "waiting"
       /\ queue' = (queue \ {j}) \cup {[j EXCEPT !.state = "active"]}
       /\ work' = [work EXCEPT ![w] =
            [loan |-> j.loan, day |-> j.day, at |-> day, holds |-> TRUE,
             detail |-> None, book |-> 0, row |-> None]]
  /\ pc' = [pc EXCEPT ![w] = "loan"]
  /\ UNCHANGED <<loans, books, owner, world>>

(* COMMIT and ROLLBACK free the rows. *)
Stop(w) ==
  /\ pc' = [pc EXCEPT ![w] = "idle"]
  /\ work' = [work EXCEPT ![w] = None]
  /\ owner' = [r \in Loan \cup Account |-> IF owner[r] = w THEN None ELSE owner[r]]

(* Mutant: removeOnComplete is not set. *)
KeepsCompleted(w) ==
  Stop(w) /\ queue' = (queue \ JobOf(w)) \cup {[j EXCEPT !.state = "completed"] : j \in JobOf(w)}

(* removeOnComplete frees the id of the job, if it is still this worker's. *)
Complete(w) == Stop(w) /\ queue' = queue \ JobOf(w)

(* No attempts and no removeOnFail: the id is taken until the next day. *)
JobFails(w) ==
  /\ Stop(w)
  /\ queue' = (queue \ JobOf(w)) \cup {[j EXCEPT !.state = "failed"] : j \in JobOf(w)}

(* The lock of the job runs out because its worker died or hangs. *)
JobStalls(w) ==
  /\ Fault
  /\ pc[w] # "idle" /\ work[w].holds
  /\ queue' = (queue \ JobOf(w)) \cup
       {IF j.stalls < MaxStalled THEN [j EXCEPT !.state = "waiting", !.stalls = @ + 1]
        ELSE [j EXCEPT !.state = "failed"] : j \in JobOf(w)}
  /\ \/ Stop(w)
     \/ work' = [work EXCEPT ![w].holds = FALSE] /\ UNCHANGED <<owner, pc>>
  /\ UNCHANGED <<loans, books, day, changes, moved>>

-----------------------------------------------------------------------------
(* The rows processLoanRepayment locks: the loan's two, then the repayment account. *)
(* Mutant: the statements do not wait for each other. *)
LockIgnored(r) == TRUE

Free(r) == owner[r] = None

LockLoan(w) ==
  LET l == work[w].loan IN
  /\ pc[w] = "loan"
  /\ Free(l)
  /\ Open(detail[l])
  /\ pc' = [pc EXCEPT ![w] = "account"]
  /\ work' = [work EXCEPT ![w].detail = detail[l], ![w].book = account[l].book]
  /\ owner' = [owner EXCEPT ![l] = w]
  /\ UNCHANGED <<loans, books, queue, world>>

LoanNotOpen(w) ==
  /\ pc[w] = "loan"
  /\ Free(work[w].loan)
  /\ ~Open(detail[work[w].loan])
  /\ Complete(w)
  /\ UNCHANGED <<loans, books, world>>

LockAccount(w) ==
  LET a == PayFrom[work[w].loan] IN
  /\ pc[w] = "account"
  /\ Free(a)
  /\ a \in Known
  /\ pc' = [pc EXCEPT ![w] = "collect"]
  /\ work' = [work EXCEPT ![w].row = accts[a]]
  /\ owner' = [owner EXCEPT ![a] = w]
  /\ UNCHANGED <<loans, books, queue, world>>

AccountMissing(w) ==
  /\ pc[w] = "account"
  /\ PayFrom[work[w].loan] \notin Known
  /\ Complete(w)
  /\ UNCHANGED <<loans, books, world>>

(* Mutant: the restriction is not looked at. *)
ActiveOnly(row) == row.status = "active"

Debitable(row) == row.status = "active" /\ ~row.postNoDebit

(* Nothing can be taken: what is due is overdue. *)
MarkOverdue(w) ==
  LET l == work[w].loan IN
  /\ pc[w] = "collect"
  /\ ~Debitable(work[w].row)
  /\ rows' = [rows EXCEPT ![l] = [k \in DOMAIN Instalment[l] |->
       IF Instalment[l][k].day <= work[w].at /\ rows[l][k].status # "paid"
       THEN [rows[l][k] EXCEPT !.status = "overdue"] ELSE rows[l][k]]]
  /\ Complete(w)
  /\ UNCHANGED <<detail, account, receipts, books, world>>

-----------------------------------------------------------------------------
(* processWaterFallStrategy.                                                 *)
Smaller(a, b) == IF a <= b THEN a ELSE b

Uncollected(due, row) == [b \in Bucket |-> due.amount[b] - row.got[b]]

Larger(a, b) == IF a >= b THEN a ELSE b

(* Mutant: every strategy is the default one. *)
PrincipalFirst(strategy, b) ==
  CASE b = "P" -> {} [] b = "C" -> {"P"} [] b = "I" -> {"P", "C"}

(* The letters of the strategy that take their share before b does. *)
Before(strategy, b) == {strategy[i] : i \in {j \in 1..3 : \E k \in (j+1)..3 : strategy[k] = b}}

(* Mutant: the loop goes on when nothing is left. *)
TakenWithoutBreak(avail, owed, strategy) ==
  [b \in Bucket |->
     Smaller(owed[b], avail - SumFunctionOnSet(owed, Before(strategy, b)))]

(* Every letter takes what it is owed out of what those before it have left. *)
Taken(avail, owed, strategy) ==
  [b \in Bucket |->
     Smaller(owed[b], Larger(0, avail - SumFunctionOnSet(owed, Before(strategy, b))))]

(* One instalment of the loop: s is what is still available, the schedules, and what
   has been collected so far. *)
Recovered(s, due, k, strategy) ==
  LET row  == s.rows[k]
      take == Taken(s.avail, Uncollected(due, row), strategy)
      paid == row.total + Sum(take)
  IN [avail |-> s.avail - Sum(take),
      rows  |-> [s.rows EXCEPT ![k] =
                   [got |-> [b \in Bucket |-> row.got[b] + take[b]], total |-> paid,
                    status |-> IF paid >= due.total THEN "paid" ELSE "partially_paid"]],
      got   |-> [b \in Bucket |-> s.got[b] + take[b]]]

(* The order of the checks of the loop; a settled instalment that is not yet 'paid'
   becomes so without a payment. *)
Step(s, due, k, at, strategy) ==
  IF due.day > at \/ s.rows[k].status = "paid" THEN s
  ELSE IF s.avail <= 0 THEN [s EXCEPT !.rows[k].status = "overdue"]
  ELSE IF Sum(Uncollected(due, s.rows[k])) <= 0 THEN [s EXCEPT !.rows[k].status = "paid"]
  ELSE Recovered(s, due, k, strategy)

Collection(w) ==
  LET l == work[w].loan
      f[k \in 0..Len(Instalment[l])] ==
        IF k = 0 THEN [avail |-> Available(work[w].row), rows |-> rows[l], got |-> [b \in Bucket |-> 0]]
        ELSE Step(f[k-1], Instalment[l][k], k, work[w].at, Strategy[l])
  IN f[Len(Instalment[l])]

-----------------------------------------------------------------------------
(* The posting of what was collected. A charge is credited only if the loan has a
   fee ledger, but the account is debited for it in any case. *)
Credited(l, got) ==
  (IF got["P"] > 0 THEN {<<LoanGl[l], got["P"]>>} ELSE {})
    \cup (IF got["I"] > 0 THEN {<<IncomeGl[l], got["I"]>>} ELSE {})
    \cup (IF got["C"] > 0 /\ LoanFeeGl[l] # None THEN {<<LoanFeeGl[l], got["C"]>>} ELSE {})

NamedTwice(l, got) ==
  \/ got["P"] > 0 /\ got["I"] > 0 /\ LoanGl[l] = IncomeGl[l]
  \/ got["C"] > 0 /\ LoanFeeGl[l] \in {c[1] : c \in Credited(l, [got EXCEPT !["C"] = 0])}

PayloadOf(l, got) ==
  [referenceNumber |-> l, operationType |-> "debit",
   customerAccounts |-> [a \in {PayFrom[l]} |-> Sum(got)],
   debits |-> NoLegs,
   credits |-> [g \in {c[1] : c \in Credited(l, got)} |->
                  (CHOOSE c \in Credited(l, got) : c[1] = g)[2]],
   fee |-> None, feeGl |-> None]

(* How the nested posting answers. Its reference carries the time, so none is taken. *)
PostingAnswer(l, got) ==
  IF NamedTwice(l, got) \/ ~Accepted(PayloadOf(l, got)) THEN "threw"
  ELSE Verdict(PayloadOf(l, got), accts, {})

(* Mutant: an answer that throws is taken for one that fails. *)
NeverThrows(l, got) == FALSE

(* The first BigInt of a Calculator sum throws, or the posting does. *)
Throws(l, got) == ~ConvertsToBigInt \/ PostingAnswer(l, got) = "threw"

CollectThrows(w) ==
  /\ pc[w] = "collect" /\ Debitable(work[w].row)
  /\ \E got \in {Collection(w).got} : Sum(got) > 0 /\ Throws(work[w].loan, got)
  /\ JobFails(w)
  /\ UNCHANGED <<loans, books, world>>

(* What the journal adds to each ledger. *)
LedgerChange(pl, g) ==
  SumFunction([e \in {e \in JournalOf(pl).lines : e.gl = g} |-> e.credit - e.debit])

(* The answer of the posting is not looked at: a structured error posts nothing and
   the rest of the handler goes on. *)
Posts(l, got) ==
  IF Sum(got) > 0 /\ PostingAnswer(l, got) = "ok"
  THEN /\ accts' = [accts EXCEPT ![PayFrom[l]].bookBalance = @ - Sum(got)]
       /\ ledger' = [g \in Gl |-> ledger[g] + LedgerChange(PayloadOf(l, got), g)]
  ELSE UNCHANGED books

NoneLeft(l, newRows) == \A k \in DOMAIN Instalment[l] : newRows[k].status = "paid"

(* Mutant: the loan is closed as soon as its principal is cleared. *)
ClosesOnPrincipal(l, outstanding, newRows) == outstanding <= 0

PaidOff(l, outstanding, newRows) == outstanding <= 0 /\ NoneLeft(l, newRows)

(* Only a run that collects principal touches the loan. *)
SettleLoan(w, s) ==
  LET l == work[w].loan
      outstanding == work[w].detail.outstanding - s.got["P"]
      closes == PaidOff(l, outstanding, s.rows)
  IN IF s.got["P"] > 0
     THEN /\ detail' = [detail EXCEPT ![l] =
               [status |-> IF closes THEN "paid_off" ELSE @.status,
                outstanding |-> IF outstanding <= 0 THEN 0 ELSE outstanding]]
          /\ account' = [account EXCEPT ![l] =
               [status |-> IF closes THEN "closed" ELSE @.status, book |-> work[w].book + s.got["P"]]]
     ELSE UNCHANGED <<detail, account>>

Collect(w) ==
  LET l == work[w].loan IN
  /\ pc[w] = "collect" /\ Debitable(work[w].row)
  /\ \E s \in {Collection(w)} :
       /\ Sum(s.got) > 0 => ~Throws(l, s.got)
       /\ rows' = [rows EXCEPT ![l] = s.rows]
       /\ Posts(l, s.got)
       /\ receipts' = [receipts EXCEPT ![l] = @ + s.got["P"]]
       /\ SettleLoan(w, s)
  /\ Complete(w)
  /\ UNCHANGED <<world>>

-----------------------------------------------------------------------------
(* What others do meanwhile, each in a transaction of its own on the account's row. *)
Changes == changes < MaxChanges /\ changes' = changes + 1

PayInOrOut(a) ==
  \E x \in Change :
    /\ Changes
    /\ Free(a)
    /\ x < 0 => Available(accts[a]) >= -x
    /\ accts' = [accts EXCEPT ![a].bookBalance = @ + x]
    /\ moved' = [moved EXCEPT ![a] = @ + x]
    /\ UNCHANGED <<loans, ledger, owner, pc, work, queue, day, faults>>

RestrictOrRelease(a) ==
  /\ Changes
  /\ Free(a)
  /\ accts' = [accts EXCEPT ![a].postNoDebit = ~@]
  /\ UNCHANGED <<loans, ledger, owner, pc, work, queue, day, faults, moved>>

NextDay ==
  /\ day < LastDay
  /\ day' = day + 1
  /\ UNCHANGED <<loans, books, owner, pc, work, queue, faults, changes, moved>>

Process(w) ==
  \/ LockLoan(w) \/ LoanNotOpen(w)
  \/ LockAccount(w) \/ AccountMissing(w)
  \/ MarkOverdue(w) \/ CollectThrows(w) \/ Collect(w)

Next ==
  \/ Sweep \/ SweepBreaksOff \/ NextDay
  \/ \E w \in Worker : (\E l \in Loan : TakeJob(w, l)) \/ Process(w) \/ JobStalls(w)
  \/ \E a \in Account : PayInOrOut(a) \/ RestrictOrRelease(a)

(* The cron job repeats, the days go by, a worker goes on with the job it has taken;
   and the queue is first in, first out, so a job is not passed over for ever. *)
Fairness ==
  /\ WF_vars(Sweep)
  /\ \A w \in Worker : WF_vars(Process(w))
  /\ \A l \in Loan : SF_vars(\E w \in Worker : TakeJob(w, l))
  /\ WF_vars(NextDay)

Spec == Init /\ [][Next]_vars /\ Fairness

-----------------------------------------------------------------------------
(* Correctness.                                                              *)

(* What the postings have moved of what the instalments record. As the source stands
   (FkDeferred is FALSE) every posting that does not throw answers with an error nobody
   looks at, and moves nothing. *)
Collected(l, b) == SumFunction([k \in DOMAIN rows[l] |-> rows[l][k].got[b]])
Posted(l, b) == IF FkDeferred THEN Collected(l, b) ELSE 0
PostedFrom(a) ==
  SumFunction([l \in {l \in Loan : PayFrom[l] = a} |->
                 Posted(l, "P") + Posted(l, "C") + Posted(l, "I")])

(* Five books of a repayment are kept apart and written from different sources: the
   instalments, the loan's balance and outstanding amount, the receipts, the journal
   lines and the customer's balance. The loan's agree with the instalments, and the
   ledger with the balances, whenever no transaction is open, with loans sharing an
   account, jobs running twice, and crashes; and the two sides differ by nothing where
   the posting works, by everything collected where it fails. *)
BooksAgree ==
  /\ \A l \in Loan :
       /\ account[l].book = Collected(l, "P") - Principal[l]
       /\ detail[l].outstanding = IF account[l].book >= 0 THEN 0 ELSE -account[l].book
       /\ receipts[l] = Collected(l, "P")
       /\ \A k \in DOMAIN rows[l] : rows[l][k].total = Sum(rows[l][k].got)
  /\ \A a \in Account : accts[a].bookBalance = OpeningRow[a].bookBalance + moved[a] - PostedFrom(a)
  /\ \A g \in Gl : ledger[g] =
       SumFunction([l \in Loan |-> (IF LoanGl[l] = g THEN Posted(l, "P") ELSE 0)
                                    + (IF IncomeGl[l] = g THEN Posted(l, "I") ELSE 0)
                                    + (IF LoanFeeGl[l] = g THEN Posted(l, "C") ELSE 0)])
         - SumFunction([a \in {a \in Account : ControlGl[a] = g} |-> PostedFrom(a)])

(* Money goes to the oldest instalment first, and within an instalment in the order
   of the strategy, over all runs, restarts and partial payments. *)
Settled(l, k) == rows[l][k].status = "paid" \/ Sum(Uncollected(Instalment[l][k], rows[l][k])) = 0
CollectedInOrder ==
  \A l \in Loan : \A k \in DOMAIN rows[l] :
    /\ rows[l][k].total > 0 => \A j \in 1..(k - 1) : Settled(l, j)
    /\ \A i, j \in 1..3 :
         LET b == Strategy[l][i]  c == Strategy[l][j] IN
         i < j /\ rows[l][k].got[c] > 0 => rows[l][k].got[b] = Instalment[l][k].amount[b]

(* A loan that is closed owes nothing: principal and every instalment are settled,
   those that are not due yet included; and it stays closed. *)
ClosedMeansPaid ==
  \A l \in Loan :
    /\ detail[l].status = "paid_off" =>
         account[l].book >= 0 /\ \A k \in DOMAIN rows[l] : rows[l][k].status = "paid"
    /\ (detail[l].status = "paid_off") = (account[l].status = "closed")

(* A restricted or inactive account is not debited, whenever the restriction came:
   unlike a transfer, the repayment judges the row it has locked. *)
RestrictionHonoured ==
  [][\A a \in Account :
       /\ accts'[a].bookBalance < accts[a].bookBalance
       /\ moved'[a] = moved[a]
       => accts[a].status = "active" /\ ~accts[a].postNoDebit]_vars

(* Nothing of a repayment is visible half way, none is made twice, and none exceeds what
   is available; whether its money moves is the posting's matter. *)
TotalDue == SumFunction([l \in Loan |->
  SumFunction([k \in DOMAIN Instalment[l] |-> Sum(Instalment[l][k].amount)])])
Debts == INSTANCE DebtLedger WITH
  Portion <- 0..TotalDue,
  Paid <- FkDeferred,
  OpeningDebt <- Principal,
  OpeningFunds <- [a \in Account |-> Available(OpeningRow[a])],
  debt <- [l \in Loan |-> -account[l].book],
  funds <- [a \in Account |-> Available(accts[a])],
  yield <- SumFunction([l \in Loan |-> Collected(l, "C") + Collected(l, "I")]),
  ended <- {l \in Loan : detail[l].status = "paid_off"}
ImplementsDebtLedger == Debts!Spec

(* What is due is collected in the end, unless its account cannot pay or its posting is
   rejected for good, although jobs stall, fail and are lost with a sweep. A job that
   failed keeps its id for the day, so on the last day one may be left. *)
CanPay(l) ==
  LET a == PayFrom[l] IN a \in Known /\ Debitable(accts[a]) /\ Available(accts[a]) > 0
HasDueRow(l) == \E k \in DOMAIN rows[l] : Instalment[l][k].day <= day /\ rows[l][k].status # "paid"
LeftFailed(l) == [loan |-> l, day |-> LastDay, state |-> "failed"] \in
                   {[loan |-> j.loan, day |-> j.day, state |-> j.state] : j \in queue}
DueIsCollected ==
  []<>(\A l \in Loan : HasDueRow(l) => ~CanPay(l) \/ LeftFailed(l))

=============================================================================
