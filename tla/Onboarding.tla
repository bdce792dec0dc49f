----------------------------- MODULE Onboarding -----------------------------
(***************************************************************************)
(* How customers, accounts and general ledgers come into being:            *)
(* createCustomer with an account, createSavingsAccount with an opening    *)
(* balance, createLoanAccount and createGlAccount, as racing requests.     *)
(* A request checks on connections it borrows from the pool, and writes in *)
(* one transaction that keeps its connection to the end. Account numbers   *)
(* are counted out and then decided by a unique index.                     *)
(* Loan terms and charges are checked without state (LoanLifecycle).       *)
(***************************************************************************)
EXTENDS Integers, Sequences, FiniteSets

CONSTANTS
  Process,    \* requests in flight, each answered once; they name the rows they insert
  Request,
  Office,
  Prefix,     \* [Office -> Nat]: the last three digits of the office's id
  Email,
  Code,       \* codes of general ledgers
  Ref,        \* references of transactions
  None,
  First,      \* names the rows from before
  OpeningCustomers,
  OpeningLedgers,
  PoolSize,   \* DB_POOL_SIZE
  NumberSpace \* 10^7: the numbers of an office

Attempts == 3

CustomerRow ==
  [by : Process \cup {First}, email : Email, office : Office,
   status : {"pending_verification", "active"}]

AccountRow ==
  [by : Process, customer : Process \cup {First}, type : {"savings", "loan"},
   office : Office, number : Nat \X Nat, status : {"pending", "active"}, book : Nat,
   details : BOOLEAN]

LedgerRow == [by : Process \cup {First}, code : Code, parent : Code \cup {None}]
TransactionRow == [by : Process, ref : Ref \cup (Nat \X Nat), amount : Nat]

(* The bodies of the four requests. None stands for a field that is not sent; codes are
   the ledgers a request names, linked the accounts. A reference that is not sent is
   made of the account number. *)
CreateCustomerDto ==
  [kind : {"customer"}, email : Email, office : Office, account : BOOLEAN,
   activate : BOOLEAN, codes : SUBSET Code]
CreateSavingsAccountDto ==
  [kind : {"savings"}, customer : Process \cup {First}, opening : Nat,
   cash : Code \cup {None}, ref : Ref \cup {None}, activate : BOOLEAN, codes : SUBSET Code]
CreateLoanAccountDto ==
  [kind : {"loan"}, customer : Process \cup {First}, linked : SUBSET Process,
   codes : SUBSET Code]
CreateGlAccountDto == [kind : {"ledger"}, code : Code, parent : Code \cup {None}]

ASSUME OnboardingAssumption ==
  /\ First \notin Process
  /\ None \notin Code \cup Ref \cup Process \cup Request
  /\ Request \subseteq CreateCustomerDto \cup CreateSavingsAccountDto
                       \cup CreateLoanAccountDto \cup CreateGlAccountDto
  /\ Prefix \in [Office -> Nat]
  /\ OpeningCustomers \subseteq {row \in CustomerRow : row.by = First}
  /\ OpeningLedgers \subseteq {row \in LedgerRow : row.by = First}
  /\ PoolSize \in Nat \ {0}
  /\ NumberSpace \in Nat \ {0}

VARIABLES
  customers, accounts, ledgers, transactions,  \* the rows, uncommitted ones included
  inTx,      \* the requests whose transaction is open, each with a connection of its own
  req,       \* what a request asks for
  todo,      \* the steps it has before it
  number     \* the account number it tries: [attempt, value]

rows == <<customers, accounts, ledgers, transactions>>
vars == <<rows, inTx, req, todo, number>>

-----------------------------------------------------------------------------
(* The database.                                                             *)
Committed(row) == row.by \notin inTx
Visible(table, p) == {row \in table : Committed(row) \/ row.by = p}

(* A row with the same unique key that another transaction has not committed yet makes
   an insert wait, a committed one makes it fail. *)
Waits(table, p, Same(_)) == \E row \in table : Same(row) /\ row.by # p /\ ~Committed(row)
Violates(table, p, Same(_)) == \E row \in Visible(table, p) : Same(row)

At(p, step) == todo[p] # <<>> /\ Head(todo[p]) = step
Proceed(p) == todo' = [todo EXCEPT ![p] = Tail(@)]

(* Mutant: the account is inserted outside the transaction. *)
Detached(p) == accounts

Undone(table, p) == {row \in table : row.by # p}
UndoneAccounts(p) == Undone(accounts, p)

(* Mutant: the connection is never given back. *)
Leaked(p) == inTx

Released(p) == inTx \ {p}

(* An answer, or an error that rolls the transaction back. *)
Finish(p) ==
  /\ todo' = [todo EXCEPT ![p] = <<>>]
  /\ inTx' = Released(p)
Fail(p) ==
  /\ Finish(p)
  /\ customers' = Undone(customers, p)
  /\ accounts' = UndoneAccounts(p)
  /\ transactions' = Undone(transactions, p)
  /\ UNCHANGED ledgers

(* A statement outside a transaction borrows a connection from the pool. *)
ConnectionFree == Cardinality(inTx) < PoolSize

-----------------------------------------------------------------------------
HasOpening(r) == r.kind = "savings" /\ r.opening > 0

(* The statements of a handler in their order, the ones of createAccountRecord from the
   count to the details. *)
CreateCustomer(r) ==
  IF r.account
  THEN <<"check", "begin", "customer", "ledgers", "count", "exists", "account", "details",
         "commit">>
  ELSE <<"check", "begin", "customer", "commit">>
CreateSavingsAccount(r) ==
  IF HasOpening(r) /\ r.activate
  THEN <<"check", "ledgers", "begin", "count", "exists", "account", "details", "post", "book",
         "receipt", "commit">>
  ELSE <<"check", "ledgers", "begin", "count", "exists", "account", "details", "commit">>
CreateLoanAccount ==
  <<"check", "linked", "ledgers", "begin", "count", "exists", "account", "details", "commit">>
CreateGlAccount == <<"check", "parent", "ledger">>

Plan(r) ==
  CASE r.kind = "customer" -> CreateCustomer(r)
    [] r.kind = "savings"  -> CreateSavingsAccount(r)
    [] r.kind = "loan"     -> CreateLoanAccount
    [] r.kind = "ledger"   -> CreateGlAccount

Start(p, r) ==
  /\ req[p] = None
  /\ req' = [req EXCEPT ![p] = r]
  /\ todo' = [todo EXCEPT ![p] = Plan(r)]
  /\ UNCHANGED <<rows, inTx, number>>

(* What the first query finds: a customer must be new and his office known, an account's
   customer active, a ledger's code new. *)
Rejected(r, p) ==
  CASE r.kind = "customer" -> \E c \in Visible(customers, p) : c.email = r.email
    [] r.kind = "ledger"   -> \E g \in Visible(ledgers, p) : g.code = r.code
    [] OTHER -> ~ \E c \in Visible(customers, p) : c.by = r.customer /\ c.status = "active"

Check(p) ==
  /\ At(p, "check")
  /\ ConnectionFree
  /\ IF Rejected(req[p], p) THEN Finish(p) ELSE Proceed(p) /\ UNCHANGED inTx
  /\ UNCHANGED <<rows, req, number>>

(* The accounts a loan is paid to and from are the customer's. *)
CheckLinked(p) ==
  /\ At(p, "linked")
  /\ ConnectionFree
  /\ IF \A a \in req[p].linked :
          \E row \in Visible(accounts, p) : row.by = a /\ row.customer = req[p].customer
     THEN Proceed(p) /\ UNCHANGED inTx ELSE Finish(p)
  /\ UNCHANGED <<rows, req, number>>

(* A parent exists and is no sub ledger itself. *)
CheckParent(p) ==
  LET parent == req[p].parent IN
  /\ At(p, "parent")
  /\ ConnectionFree
  /\ IF parent = None \/ \E g \in Visible(ledgers, p) : g.code = parent /\ g.parent = None
     THEN Proceed(p) /\ UNCHANGED inTx ELSE Finish(p)
  /\ UNCHANGED <<rows, req, number>>

(* The ledgers a request names exist, and an opening balance has a cash ledger. Within
   createCustomer's transaction this query too asks the pool for a connection. *)
LedgersKnown(r, p) ==
  /\ r.codes \subseteq {g.code : g \in Visible(ledgers, p)}
  /\ HasOpening(r) => r.cash \in {g.code : g \in Visible(ledgers, p)}

CheckLedgers(p) ==
  /\ At(p, "ledgers")
  /\ ConnectionFree
  /\ IF LedgersKnown(req[p], p) THEN Proceed(p) /\ UNCHANGED <<rows, inTx>> ELSE Fail(p)
  /\ UNCHANGED <<req, number>>

Begin(p) ==
  /\ At(p, "begin")
  /\ ConnectionFree
  /\ inTx' = inTx \cup {p}
  /\ Proceed(p)
  /\ UNCHANGED <<rows, req, number>>

InsertCustomer(p) ==
  LET r == req[p]  Same(row) == row.email = r.email IN
  /\ At(p, "customer")
  /\ ~Waits(customers, p, Same)
  /\ IF Violates(customers, p, Same) THEN Fail(p)
     ELSE /\ Proceed(p)
          /\ customers' = customers \cup
               {[by |-> p, email |-> r.email, office |-> r.office,
                 status |-> IF r.activate THEN "active" ELSE "pending_verification"]}
          /\ UNCHANGED <<accounts, ledgers, transactions, inTx>>
  /\ UNCHANGED <<req, number>>

-----------------------------------------------------------------------------
(* generateAccountNumber.                                                    *)
CustomerOf(p) ==
  CHOOSE c \in Visible(customers, p) : c.by = IF req[p].kind = "customer" THEN p ELSE req[p].customer

(* Mutant: the count itself is the next number. *)
NextOff(count, attempt) == count + attempt

NextSequence(count, attempt) == count + 1 + attempt

(* Mutant: the numbers are counted on a connection from the pool. *)
FromThePool(p) == ConnectionFree

OwnConnection(p) == p \in inTx

CountAccounts(p) ==
  LET office == CustomerOf(p).office
      count == Cardinality({a \in Visible(accounts, p) : a.office = office})
      next == NextSequence(count, number[p].attempt) IN
  /\ At(p, "count")
  /\ OwnConnection(p)
  /\ Proceed(p)
  /\ number' = [number EXCEPT ![p].value = <<Prefix[office], next % NumberSpace>>]
  /\ UNCHANGED <<rows, inTx, req>>

NumberExists(p) ==
  LET attempt == number[p].attempt + 1 IN
  /\ At(p, "exists")
  /\ IF ~ \E a \in Visible(accounts, p) : a.number = number[p].value
     THEN Proceed(p) /\ UNCHANGED <<rows, inTx, number>>
     ELSE /\ number' = [number EXCEPT ![p].attempt = attempt]
          /\ IF attempt = Attempts THEN Fail(p)
             ELSE /\ todo' = [todo EXCEPT ![p] = <<"count">> \o @]
                  /\ UNCHANGED <<rows, inTx>>
  /\ UNCHANGED req

-----------------------------------------------------------------------------
(* createAccountRecord: the opening balance is in the row from the start.    *)
InsertAccount(p) ==
  LET r == req[p]  Same(row) == row.number = number[p].value IN
  /\ At(p, "account")
  /\ ~Waits(accounts, p, Same)
  /\ IF Violates(accounts, p, Same) THEN Fail(p)
     ELSE /\ Proceed(p)
          /\ accounts' = accounts \cup
               {[by |-> p, customer |-> CustomerOf(p).by, office |-> CustomerOf(p).office,
                 number |-> number[p].value,
                 type |-> IF r.kind = "loan" THEN "loan" ELSE "savings",
                 status |-> IF r.kind # "loan" /\ r.activate THEN "active" ELSE "pending",
                 book |-> IF r.kind = "savings" THEN r.opening ELSE 0, details |-> FALSE]}
          /\ UNCHANGED <<customers, ledgers, transactions, inTx>>
  /\ UNCHANGED <<req, number>>

Changed(p, new(_)) ==
  accounts' = {IF a.by = p THEN new(a) ELSE a : a \in accounts}

InsertDetails(p) ==
  /\ At(p, "details")
  /\ Proceed(p)
  /\ Changed(p, LAMBDA a : [a EXCEPT !.details = TRUE])
  /\ UNCHANGED <<customers, ledgers, transactions, inTx, req, number>>

(* A transactions row under the reference of the opening balance, by the posting and
   once more by hand. The posting (Posting!Verdict, taken as able to post) adds the
   amount to the balance the row has already. *)
Reference(p) == IF req[p].ref = None THEN number[p].value ELSE req[p].ref

InsertTransaction(p, new(_)) ==
  LET Same(row) == row.ref = Reference(p) IN
  /\ ~Waits(transactions, p, Same)
  /\ IF Violates(transactions, p, Same) THEN Fail(p)
     ELSE /\ Proceed(p)
          /\ transactions' = transactions \cup
               {[by |-> p, ref |-> Reference(p), amount |-> req[p].opening]}
          /\ Changed(p, new)
          /\ UNCHANGED <<customers, ledgers, inTx>>
  /\ UNCHANGED <<req, number>>

PostOpening(p) ==
  /\ At(p, "post")
  /\ InsertTransaction(p, LAMBDA a : [a EXCEPT !.book = @ + req[p].opening])

SetBook(p) ==
  /\ At(p, "book")
  /\ Proceed(p)
  /\ Changed(p, LAMBDA a : [a EXCEPT !.book = req[p].opening])
  /\ UNCHANGED <<customers, ledgers, transactions, inTx, req, number>>

InsertReceipt(p) ==
  /\ At(p, "receipt")
  /\ InsertTransaction(p, LAMBDA a : a)

Commit(p) ==
  /\ At(p, "commit")
  /\ Finish(p)
  /\ UNCHANGED <<rows, req, number>>

(* One statement of its own; the unique index decides between two. *)
InsertLedger(p) ==
  LET r == req[p] IN
  /\ At(p, "ledger")
  /\ ConnectionFree
  /\ Finish(p)
  /\ ledgers' = IF \E g \in ledgers : g.code = r.code THEN ledgers
                ELSE ledgers \cup {[by |-> p, code |-> r.code, parent |-> r.parent]}
  /\ UNCHANGED <<customers, accounts, transactions, req, number>>

(* A service that dies loses its connections, and its transactions with them. *)
Crash(p) ==
  /\ todo[p] # <<>>
  /\ Fail(p)
  /\ UNCHANGED <<req, number>>

-----------------------------------------------------------------------------
Init ==
  /\ customers = OpeningCustomers
  /\ accounts = {}
  /\ ledgers = OpeningLedgers
  /\ transactions = {}
  /\ inTx = {}
  /\ req = [p \in Process |-> None]
  /\ todo = [p \in Process |-> <<>>]
  /\ number = [p \in Process |-> [attempt |-> 0, value |-> <<0, 0>>]]

Checks(p) == Check(p) \/ CheckLinked(p) \/ CheckParent(p) \/ CheckLedgers(p)
Statements(p) ==
  \/ Begin(p) \/ InsertCustomer(p) \/ CountAccounts(p) \/ NumberExists(p)
  \/ InsertAccount(p) \/ InsertDetails(p) \/ PostOpening(p) \/ SetBook(p)
  \/ InsertReceipt(p) \/ Commit(p) \/ InsertLedger(p)

Next ==
  \E p \in Process :
    \/ \E r \in Request : Start(p, r)
    \/ Checks(p) \/ Statements(p) \/ Crash(p)

Spec == Init /\ [][Next]_vars

-----------------------------------------------------------------------------
(* Properties.                                                               *)

(* The tables keep their rows well formed, and a transaction that is open has a
   connection and a request with something to do. *)
TypeOK ==
  /\ customers \subseteq CustomerRow
  /\ accounts \subseteq AccountRow
  /\ ledgers \subseteq LedgerRow
  /\ transactions \subseteq TransactionRow
  /\ inTx \subseteq {p \in Process : todo[p] # <<>>}
  /\ Cardinality(inTx) <= PoolSize
  /\ \A p \in Process : req[p] \in Request \cup {None}
  /\ number \in [Process -> [attempt : 0..Attempts, value : Nat \X Nat]]

(* What is committed is whole: an account has its details and a customer, a customer who
   was to get an account has it, and no transactions row of an opening balance is left
   without its account. No failure and no crash between the statements leaves a part
   ("all or nothing"). *)
AllOrNothing ==
  /\ \A a \in accounts : Committed(a) =>
       a.details /\ \E c \in customers : Committed(c) /\ c.by = a.customer
  /\ \A c \in customers : Committed(c) /\ c.by # First =>
       (\E a \in accounts : a.by = c.by) = req[c.by].account
  /\ \A t \in transactions : Committed(t) => \E a \in accounts : a.by = t.by

(* The numbers of an office are all different and stay close to the count, although
   everybody counts without a lock. A creation that collides with another one counts
   again and skips as many numbers as it has tried, so the series has gaps, but the last
   of the three numbers a new account tries is free unless another office's id ends in
   the same digits: GAN001 ("unable to generate unique account number") answers a crowd
   and never an office at rest. (As long as the numbers of the office are not used up.) *)
NumbersStayClose ==
  \A o \in Office :
    LET mine == {a \in accounts : a.office = o /\ Committed(a)}
        n == Cardinality(mine) IN
    n + Attempts < NumberSpace =>
       /\ \A a \in mine : a.number[2] \in 1..(n + Attempts - 1)
       /\ \A a, b \in mine : a.number = b.number => a = b
       /\ (\A k \in Office : Prefix[k] = Prefix[o] => k = o) =>
            \A a \in accounts : Committed(a) => a.number # <<Prefix[o], n + Attempts>>

(* What the guards of the statements come to: a request waits for a connection, or for another
   request's uncommitted row with the key it inserts. *)
OnThePool == {"check", "linked", "parent", "ledgers", "begin", "ledger"}
Blocked(p) ==
  \/ ~ConnectionFree /\ \E step \in OnThePool : At(p, step)
  \/ ~OwnConnection(p) /\ At(p, "count")
  \/ At(p, "customer") /\ Waits(customers, p, LAMBDA row : row.email = req[p].email)
  \/ At(p, "account") /\ Waits(accounts, p, LAMBDA row : row.number = number[p].value)
  \/ /\ At(p, "post") \/ At(p, "receipt")
     /\ Waits(transactions, p, LAMBDA row : row.ref = Reference(p))

(* Requests wait for rows and for connections. The only way for all of them to wait for
   ever is the look-up of the ledgers inside createCustomer's transaction: it needs a
   second connection while the transactions hold all of them. *)
StuckOnlyOnThePool ==
  /\ \E p \in Process : todo[p] # <<>>
  /\ \A p \in Process : todo[p] # <<>> => Blocked(p)
  => Cardinality(inTx) = PoolSize /\ \E p \in inTx : At(p, "ledgers")
=============================================================================
