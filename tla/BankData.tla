------------------------------ MODULE BankData ------------------------------
(***************************************************************************)
(* What the core-banking modules share: the rows of the tables, who owns   *)
(* which general ledger, the liens callers ask for, and the two build      *)
(* parameters on which the behaviour of the posting engine depends.        *)
(***************************************************************************)
EXTENDS Integers, FiniteSets

CONSTANTS
  Account,       \* ids of customer accounts a request can name
  Gl,            \* ids of general ledgers a request can name
  Known,         \* the ids of both kinds that exist in the caller's tenant
  ControlGl,     \* [Account -> Gl]: accounts.control_gl_account_id
  FeeGl,         \* [Account -> Gl \cup {None}]: savings_details.fee_income_gl_account_id
  LoanAccount,   \* the accounts whose type is 'loan'
  DirectGls,     \* the ledgers with allow_direct_booking
  Lien,          \* requests to place a lien
  LienAccount,   \* [Lien -> Account]
  LienAmount,    \* [Lien -> Int]: PlaceLienDto lets negative amounts pass
  LienRef,       \* [Lien -> Ref]
  LienExpires,   \* the liens that carry an expires_at
  Ref,           \* reference numbers callers use
  None,          \* a NULL column or a missing field
  MaxItems,      \* MAX_TRNX_ITEM_LIMIT, 100 in the source
  BigDP,         \* Big.DP: the decimals every Calculator result carries, 20 in the source
  FkDeferred     \* is journal_entries.transaction_id checked at commit? FALSE in the source

(* What the schema and the payload types guarantee of these parameters. *)
ASSUME TenantAssumption ==
  /\ Account \cap Gl = {}
  /\ Known \subseteq Account \cup Gl
  /\ ControlGl \in [Account -> Gl]
  /\ FeeGl \in [Account -> Gl \cup {None}]
  /\ LoanAccount \subseteq Account
  /\ DirectGls \subseteq Gl

ASSUME LienAssumption ==
  /\ LienAccount \in [Lien -> Account]
  /\ LienAmount \in [Lien -> Int]
  /\ LienRef \in [Lien -> Ref]
  /\ LienExpires \subseteq Lien
  /\ Lien \cap Account = {}

(* Tables have finitely many rows. *)
ASSUME FiniteAssumption == IsFiniteSet(Account) /\ IsFiniteSet(Gl) /\ IsFiniteSet(Lien)

ASSUME NoneAssumption == None \notin Int \cup Account \cup Gl \cup Lien \cup Ref

ASSUME BuildAssumption == MaxItems \in Nat /\ BigDP \in Nat /\ FkDeferred \in BOOLEAN

(* Columns of accounts that postings, liens and restrictions read or write;
   restrictionReason says only whether there is one. *)
AccountStatus == {"pending", "active"}
AccountRow ==
  [bookBalance : Int, lienAmount : Int, status : AccountStatus,
   postNoDebit : BOOLEAN, postNoCredit : BOOLEAN, restrictionReason : BOOLEAN]

(* "none" is a lien nobody has inserted yet. *)
LienStatus == {"none", "active", "released", "voided"}

(* A list of legs names accounts and ledgers, with amounts in minor units. The
   source's lists are taken without duplicates: it rejects those it finds in one. *)
IsLegs(legs, ids) == DOMAIN legs \subseteq ids /\ legs \in [DOMAIN legs -> Int]
NoLegs == [i \in {} |-> 0]

(* TransferPayload. A fee of None stands for a payload without a fee object, and
   an operationType of "none" for a payload without that key. *)
IsPayload(pl) ==
  /\ pl.referenceNumber \in Ref \cup {None}
  /\ pl.operationType \in {"debit", "credit", "none"}
  /\ IsLegs(pl.customerAccounts, Account)
  /\ IsLegs(pl.debits, Account \cup Gl)
  /\ IsLegs(pl.credits, Account \cup Gl)
  /\ pl.fee \in Int \cup {None}
  /\ pl.feeGl \in Gl \cup {None}

(* BigInt(s) throws a SyntaxError on a string with a decimal point, and every
   Calculator sum is printed with Big.DP decimals. *)
ConvertsToBigInt == BigDP = 0

(* Mutant: the liens are forgotten. *)
AvailableIgnoringLiens(row) == row.bookBalance

(* The balance a debit or a new lien may use; the overdraft limit is the
   literal 0 wherever the source computes it. *)
Available(row) == row.bookBalance - row.lienAmount
=============================================================================
