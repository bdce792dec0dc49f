------------------------------ MODULE Posting -------------------------------
(***************************************************************************)
(* GLedgerService.postMultiLegTransfer as operators on one payload: what it *)
(* accepts, which rows it names, what it writes.  CoreBanking runs them     *)
(* inside a database transaction; AtomicBank runs them in one step.         *)
(***************************************************************************)
EXTENDS BankData, Functions

(* assertPostingAllowed, which callers run on a row they have not locked. *)
PostingAllowed(a, row, side, amount) ==
  /\ row.status = "active"
  /\ a \notin LoanAccount
  /\ side = "credit" => ~row.postNoCredit
  /\ side = "debit" => ~row.postNoDebit /\ ConvertsToBigInt /\ Available(row) >= amount

-----------------------------------------------------------------------------
(* Which ids stand on which side. customerAccounts take the side operationType names. *)
CustomerSide(pl, side) == IF pl.operationType = side THEN DOMAIN pl.customerAccounts ELSE {}
DebitIds(pl)  == DOMAIN pl.debits  \cup CustomerSide(pl, "debit")
CreditIds(pl) == DOMAIN pl.credits \cup CustomerSide(pl, "credit")

DebitAccounts(pl)  == DebitIds(pl) \cap Account
CreditAccounts(pl) == CreditIds(pl) \cap Account
Parties(pl)        == DebitAccounts(pl) \cup CreditAccounts(pl)

(* A fee object that is given counts as a fee whatever its amount. *)
HasFee(pl) == pl.fee # None
FeeAmount(pl) == IF HasFee(pl) THEN pl.fee ELSE 0
PlainGls(pl) == (DebitIds(pl) \cup CreditIds(pl)) \cap Gl
Ledgers(pl)  == PlainGls(pl) \cup (IF HasFee(pl) THEN {pl.feeGl} ELSE {})

(* acctAmount: the amount of the leg that names id i. *)
AmountOf(pl, i) ==
  CASE i \in DOMAIN pl.customerAccounts -> pl.customerAccounts[i]
    [] i \in DOMAIN pl.debits           -> pl.debits[i]
    [] OTHER                            -> pl.credits[i]

Total(pl, ids) == SumFunction([i \in ids |-> AmountOf(pl, i)])

-----------------------------------------------------------------------------
(* The checks made before the transaction opens. A payload with customerAccounts
   names the other side with ledgers or accounts; any other payload has both sides. *)
WellShaped(pl) ==
  IF DOMAIN pl.customerAccounts # {}
  THEN \/ /\ pl.operationType = "credit"
          /\ DOMAIN pl.debits # {} /\ DOMAIN pl.credits = {}
       \/ /\ pl.operationType = "debit"
          /\ DOMAIN pl.credits # {} /\ DOMAIN pl.debits = {}
  ELSE DOMAIN pl.debits # {} /\ DOMAIN pl.credits # {}

DistinctIds(pl) ==
  /\ DOMAIN pl.debits \cap DOMAIN pl.credits = {}
  /\ DOMAIN pl.customerAccounts \cap (DOMAIN pl.debits \cup DOMAIN pl.credits) = {}

PositiveAmounts(pl) ==
  /\ \A i \in DOMAIN pl.customerAccounts : pl.customerAccounts[i] > 0
  /\ \A i \in DOMAIN pl.debits : pl.debits[i] > 0
  /\ \A i \in DOMAIN pl.credits : pl.credits[i] > 0

ItemCount(pl) ==
  Cardinality(DOMAIN pl.customerAccounts) + Cardinality(DOMAIN pl.debits)
    + Cardinality(DOMAIN pl.credits)

Accepted(pl) ==
  /\ ItemCount(pl) <= MaxItems
  /\ pl.referenceNumber # None
  /\ WellShaped(pl)
  /\ PositiveAmounts(pl)
  /\ DistinctIds(pl)
  /\ Total(pl, DebitIds(pl)) = Total(pl, CreditIds(pl))
  /\ HasFee(pl) => pl.fee > 0 /\ pl.feeGl # None

-----------------------------------------------------------------------------
(* The shape of an accepted payload once its rows are locked. *)
IsAcctToAcctTransfer(pl) ==
  /\ PlainGls(pl) \subseteq (IF HasFee(pl) THEN {pl.feeGl} ELSE {})
  /\ Cardinality(DebitAccounts(pl)) = 1
  /\ Cardinality(CreditAccounts(pl)) = 1

IsSingleAccountToGl(pl) == Cardinality(Parties(pl)) = 1

HasTransactionId(pl) == IsAcctToAcctTransfer(pl) \/ IsSingleAccountToGl(pl)

(* ACCOUNT_NOT_FOUND, GL_ACCOUNT_NOT_FOUND, FEE_NOT_ALLOWED_FOR_MULTI_LEG *)
Resolvable(pl) ==
  /\ Parties(pl) \subseteq Known
  /\ Ledgers(pl) \subseteq Known
  /\ HasFee(pl) => IsAcctToAcctTransfer(pl) /\ pl.feeGl \notin DebitIds(pl)

(* What leaves debit account a: the leg and, on a transfer with a fee, the fee. *)
TotalDebit(pl, a) == AmountOf(pl, a) + FeeAmount(pl)

Covered(pl, rows) ==
  \A a \in DebitAccounts(pl) : Available(rows[a]) >= TotalDebit(pl, a)

(* Mutant: the sender is not charged the fee. *)
NewBookBalanceWithoutFee(pl, a, row) ==
  row.bookBalance + (IF a \in DebitAccounts(pl) THEN -AmountOf(pl, a) ELSE AmountOf(pl, a))

NewBookBalance(pl, a, row) ==
  IF a \in DebitAccounts(pl) THEN row.bookBalance - TotalDebit(pl, a)
  ELSE row.bookBalance + AmountOf(pl, a)

-----------------------------------------------------------------------------
(* Journal lines. "of" tells the lines of one journal apart; the row has its own id. *)
Line(of, gl, debit, credit) == [of |-> of, gl |-> gl, debit |-> debit, credit |-> credit]

AccountLines(pl) ==
  {Line(<<a, "leg">>, ControlGl[a], AmountOf(pl, a), 0) : a \in DebitAccounts(pl)}
    \cup {Line(<<a, "leg">>, ControlGl[a], 0, AmountOf(pl, a)) : a \in CreditAccounts(pl)}

(* Mutant: only the ledger's side of the fee is written. *)
FeeLinesOfLedgerOnly(pl) ==
  IF HasFee(pl) THEN {Line(<<pl.feeGl, "fee">>, pl.feeGl, 0, FeeAmount(pl))} ELSE {}

FeeLines(pl) ==
  IF HasFee(pl)
  THEN {Line(<<a, "fee">>, ControlGl[a], FeeAmount(pl), 0) : a \in DebitAccounts(pl)}
         \cup {Line(<<pl.feeGl, "fee">>, pl.feeGl, 0, FeeAmount(pl))}
  ELSE {}

LedgerLines(pl) ==
  {Line(<<g, "leg">>, g, AmountOf(pl, g), 0) : g \in DebitIds(pl) \cap Gl}
    \cup {Line(<<g, "leg">>, g, 0, AmountOf(pl, g)) : g \in CreditIds(pl) \cap Gl}

JournalOf(pl) ==
  [reference |-> pl.referenceNumber, transaction |-> HasTransactionId(pl),
   lines |-> AccountLines(pl) \cup FeeLines(pl) \cup LedgerLines(pl)]

(* transactions.reference: the payload's own for a one-to-one or single-account
   transfer, one per leg otherwise. *)
TransactionRefs(pl) ==
  IF HasTransactionId(pl)
  THEN {<<pl.referenceNumber, "", "">>}
  ELSE {<<pl.referenceNumber, "DR", a>> : a \in DebitAccounts(pl)}
         \cup {<<pl.referenceNumber, "CR", a>> : a \in CreditAccounts(pl)}

-----------------------------------------------------------------------------
(* Mutant: no unique index. *)
AnyReference(pl, taken) == TRUE

(* UNIQUE (tenant_id, reference) on transactions. *)
ReferenceFree(pl, taken) == TransactionRefs(pl) \cap taken = {}

(* How a transaction that locked the rows it names and read "rows" ends, given
   the references already in the transactions table: the checks and inserts in
   the order the code makes them. "threw" is a call that rejects, "failed" one
   that returns the structured error; both roll back. The loop over the accounts
   checks funds and converts row by row, so when one account lacks funds and
   another converts, which of the two errors comes out is the first row's. *)
Verdict(pl, rows, taken) ==
  CASE ~Resolvable(pl)                             -> "threw"
    [] ~FkDeferred /\ HasTransactionId(pl)         -> "failed"
    [] ~Covered(pl, rows)                          -> "threw"
    [] ~ConvertsToBigInt /\ Parties(pl) # {}       -> "failed"
    [] ~(Ledgers(pl) \subseteq DirectGls)          -> "threw"
    [] ~ReferenceFree(pl, taken)                   -> "failed"
    [] OTHER                                       -> "ok"

-----------------------------------------------------------------------------
(* What a payload that is posted does to the atomic bank. *)
Effect(pl) ==
  [change |-> [a \in Account |-> IF a \in DebitAccounts(pl) THEN -TotalDebit(pl, a)
                                ELSE IF a \in CreditAccounts(pl) THEN AmountOf(pl, a) ELSE 0],
   refs |-> TransactionRefs(pl), journal |-> JournalOf(pl)]
=============================================================================
