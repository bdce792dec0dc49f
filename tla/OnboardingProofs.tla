-------------------------- MODULE OnboardingProofs --------------------------
(***************************************************************************)
(* Proofs about Onboarding, for any number of requests, customers, offices *)
(* and ledgers, any pool of connections and any space of numbers.          *)
(***************************************************************************)
EXTENDS Onboarding, FiniteSetTheorems, SequenceTheorems, TLAPS

-----------------------------------------------------------------------------
(* Plans.                                                                    *)

(* What is left of a sequence of steps from the i-th on. *)
From(s, i) == SubSeq(s, i, Len(s))

(* The next step of what is left, the rest after it, and what is left when the step before
   is put in front again. *)
LEMMA FromIs ==
  ASSUME NEW S, NEW s \in Seq(S), NEW i \in 1..Len(s)
  PROVE  /\ From(s, i) # <<>> /\ Head(From(s, i)) = s[i]
         /\ i < Len(s) => Tail(From(s, i)) = From(s, i + 1)
         /\ i > 1 => <<s[i - 1]>> \o From(s, i) = From(s, i - 1)
         /\ From(s, 1) = s
<1>1. Len(s) \in Nat /\ i \in 1..Len(s)
  OBVIOUS
<1>2. From(s, i) # <<>>
  <2>1. Len(From(s, i)) = Len(s) - i + 1
    BY <1>1, SubSeqProperties DEF From
  <2> QED BY <1>1, <2>1
<1>3. Head(From(s, i)) = s[i] /\ Tail(From(s, i)) = From(s, i + 1)
  BY <1>1, HeadTailOfSubSeq DEF From
<1>4. ASSUME i > 1 PROVE <<s[i - 1]>> \o From(s, i) = From(s, i - 1)
  <2>1. i - 1 \in 1..Len(s) /\ (i - 1) + 1 = i
    BY <1>1, <1>4
  <2> QED BY <1>1, <2>1, SubSeqRecursiveFirst DEF From
<1>5. From(s, 1) = s
  BY SubSeqFull DEF From
<1> QED BY <1>2, <1>3, <1>4, <1>5

(* The requests that post an opening balance, and those that open an account. *)
Posts(r) == HasOpening(r) /\ r.activate
Opens(r) == r.kind \in {"savings", "loan"} \/ (r.kind = "customer" /\ r.account)

Kinds == {"customer", "savings", "loan", "ledger"}

StepName == {"check", "linked", "parent", "ledgers", "begin", "customer", "count", "exists", "account",
             "details", "post", "book", "receipt", "commit", "ledger"}

(* The step after a step. *)
After(r, step) ==
  CASE step = "check"    -> (CASE r.kind = "customer" -> "begin" [] r.kind = "savings" -> "ledgers"
                               [] r.kind = "loan" -> "linked" [] OTHER -> "parent")
    [] step = "linked"   -> "ledgers"
    [] step = "parent"   -> "ledger"
    [] step = "ledgers"  -> IF r.kind = "customer" THEN "count" ELSE "begin"
    [] step = "begin"    -> IF r.kind = "customer" THEN "customer" ELSE "count"
    [] step = "customer" -> IF r.account THEN "ledgers" ELSE "commit"
    [] step = "count"    -> "exists"
    [] step = "exists"   -> "account"
    [] step = "account"  -> "details"
    [] step = "details"  -> IF Posts(r) THEN "post" ELSE "commit"
    [] step = "post"     -> "book"
    [] step = "book"     -> "receipt"
    [] step = "receipt"  -> "commit"
    [] OTHER -> "idle"

(* The steps a request can come to. *)
StepsOf(r) ==
  CASE r.kind = "customer" -> {"check", "begin", "customer", "commit"} \cup
                                (IF r.account THEN {"ledgers", "count", "exists", "account", "details"} ELSE {})
    [] r.kind = "savings"  -> {"check", "ledgers", "begin", "count", "exists", "account", "details", "commit"}
                                \cup (IF Posts(r) THEN {"post", "book", "receipt"} ELSE {})
    [] r.kind = "loan"     -> {"check", "linked", "ledgers", "begin", "count", "exists", "account", "details",
                               "commit"}
    [] OTHER               -> {"check", "parent", "ledger"}

(* A plan begins with a check, goes on with the step after each step, and comes to no other. *)
WellPlanned(r, s) ==
  /\ s \in Seq(StepName) /\ Len(s) >= 1 /\ s[1] = "check"
  /\ \A i \in 1..Len(s) :
       /\ s[i] \in StepsOf(r)
       /\ s[i] \notin {"commit", "ledger"} => i < Len(s)
       /\ i < Len(s) => s[i + 1] = After(r, s[i])
       /\ s[i] = "exists" => i > 1 /\ s[i - 1] = "count"

(* The requests are of four kinds. *)
LEMMA KindIs ==
  ASSUME NEW r \in Request
  PROVE  r.kind \in Kinds
  BY OnboardingAssumption DEF Kinds, CreateCustomerDto, CreateSavingsAccountDto, CreateLoanAccountDto,
     CreateGlAccountDto

(* The plan of every request. *)
LEMMA PlanIs ==
  ASSUME NEW r \in Request
  PROVE  WellPlanned(r, Plan(r))
<1>1. CASE r.kind = "customer" /\ r.account
  <2> DEFINE s == <<"check", "begin", "customer", "ledgers", "count", "exists", "account", "details", "commit">>
  <2>1. Plan(r) = s
    BY <1>1 DEF Plan, CreateCustomer
  <2>2. s \in Seq(StepName)
    BY DEF StepName
  <2>3. Len(s) = 9 /\ \A i \in 1..9 : i \in {1, 2, 3, 4, 5, 6, 7, 8, 9}
    OBVIOUS
  <2>4. WellPlanned(r, s)
    BY <2>2, <2>3, <1>1 DEF WellPlanned, StepsOf, After, Posts, HasOpening
  <2> QED BY <2>1, <2>4
<1>2. CASE r.kind = "customer" /\ ~r.account
  <2> DEFINE s == <<"check", "begin", "customer", "commit">>
  <2>1. Plan(r) = s
    BY <1>2 DEF Plan, CreateCustomer
  <2>2. s \in Seq(StepName)
    BY DEF StepName
  <2>3. Len(s) = 4 /\ \A i \in 1..4 : i \in {1, 2, 3, 4}
    OBVIOUS
  <2>4. WellPlanned(r, s)
    BY <2>2, <2>3, <1>2 DEF WellPlanned, StepsOf, After, Posts, HasOpening
  <2> QED BY <2>1, <2>4
<1>3. CASE r.kind = "savings" /\ Posts(r)
  <2> DEFINE s == <<"check", "ledgers", "begin", "count", "exists", "account", "details", "post", "book",
                    "receipt", "commit">>
  <2>1. Plan(r) = s
    BY <1>3 DEF Plan, CreateSavingsAccount, Posts
  <2>2. s \in Seq(StepName)
    BY DEF StepName
  <2>3. Len(s) = 11 /\ \A i \in 1..11 : i \in {1, 2, 3, 4, 5, 6, 7, 8, 9, 10, 11}
    OBVIOUS
  <2>4. WellPlanned(r, s)
    BY <2>2, <2>3, <1>3 DEF WellPlanned, StepsOf, After
  <2> QED BY <2>1, <2>4
<1>4. CASE r.kind = "savings" /\ ~Posts(r)
  <2> DEFINE s == <<"check", "ledgers", "begin", "count", "exists", "account", "details", "commit">>
  <2>1. Plan(r) = s
    BY <1>4 DEF Plan, CreateSavingsAccount, Posts
  <2>2. s \in Seq(StepName)
    BY DEF StepName
  <2>3. Len(s) = 8 /\ \A i \in 1..8 : i \in {1, 2, 3, 4, 5, 6, 7, 8}
    OBVIOUS
  <2>4. WellPlanned(r, s)
    BY <2>2, <2>3, <1>4 DEF WellPlanned, StepsOf, After
  <2> QED BY <2>1, <2>4
<1>5. CASE r.kind = "loan"
  <2> DEFINE s == <<"check", "linked", "ledgers", "begin", "count", "exists", "account", "details", "commit">>
  <2>1. Plan(r) = s
    BY <1>5 DEF Plan, CreateLoanAccount
  <2>2. s \in Seq(StepName)
    BY DEF StepName
  <2>3. Len(s) = 9 /\ \A i \in 1..9 : i \in {1, 2, 3, 4, 5, 6, 7, 8, 9}
    OBVIOUS
  <2>4. WellPlanned(r, s)
    BY <2>2, <2>3, <1>5 DEF WellPlanned, StepsOf, After, Posts, HasOpening
  <2> QED BY <2>1, <2>4
<1>6. CASE r.kind = "ledger"
  <2> DEFINE s == <<"check", "parent", "ledger">>
  <2>1. Plan(r) = s
    BY <1>6 DEF Plan, CreateGlAccount
  <2>2. s \in Seq(StepName)
    BY DEF StepName
  <2>3. Len(s) = 3 /\ \A i \in 1..3 : i \in {1, 2, 3}
    OBVIOUS
  <2>4. WellPlanned(r, s)
    BY <2>2, <2>3, <1>6 DEF WellPlanned, StepsOf, After
  <2> QED BY <2>1, <2>4
<1> QED BY <1>1, <1>2, <1>3, <1>4, <1>5, <1>6, KindIs DEF Kinds

-----------------------------------------------------------------------------
(* The inductive invariant.                                                  *)

(* The statement a request has come to, and whether it belongs to its transaction. *)
Pos(p) == IF todo[p] = <<>> THEN "idle" ELSE Head(todo[p])

Numbering == {"count", "exists", "account", "details"}
Inside(p) ==
  \/ Pos(p) \in Numbering \cup {"customer", "post", "book", "receipt", "commit"}
  \/ Pos(p) = "ledgers" /\ req[p].kind = "customer"

(* A request that runs has a rest of its plan before it. *)
Planned ==
  /\ req \in [Process -> Request \cup {None}]
  /\ todo = [p \in Process |-> todo[p]]
  /\ \A p \in Process : todo[p] # <<>> =>
       /\ req[p] \in Request
       /\ \E i \in 1..Len(Plan(req[p])) : todo[p] = From(Plan(req[p]), i)

(* The open transactions are those of the requests that have begun one and not ended it. *)
Connected ==
  /\ inTx = {p \in Process : Inside(p)}
  /\ IsFiniteSet(inTx) /\ Cardinality(inTx) <= PoolSize

(* A request that runs has not tried its last number. *)
Trying ==
  /\ number \in [Process -> [attempt : 0..Attempts, value : Nat \X Nat]]
  /\ \A p \in Process : Pos(p) # "idle" \/ req[p] = None => number[p].attempt < Attempts

Shape == Planned /\ Connected /\ Trying

Tables ==
  /\ customers \subseteq CustomerRow
  /\ accounts \subseteq AccountRow /\ IsFiniteSet(accounts)
  /\ ledgers \subseteq LedgerRow
  /\ transactions \subseteq TransactionRow

(* A customer is written by a request for one, which goes on with the account, and the
   customer of an account that is being opened is committed. *)
CustomerOwned(p) ==
  /\ \A c \in customers : c.by = p =>
       /\ req[p] \in Request /\ req[p].kind = "customer"
       /\ Pos(p) \in Numbering \cup {"idle", "ledgers", "commit"}
  /\ Inside(p) /\ req[p].kind = "customer" /\ Pos(p) # "customer" =>
       \E c \in customers : c.by = p
  /\ Pos(p) \notin {"idle", "check"} /\ req[p].kind \in {"savings", "loan"} =>
       \E c \in customers : c.by = req[p].customer /\ Committed(c)

(* An account is written by a request that opens one, for a customer who is committed with
   it or was before. *)
AccountOwned(p) ==
  /\ \A a \in accounts : a.by = p =>
       /\ req[p] \in Request /\ Opens(req[p])
       /\ Pos(p) \in {"idle", "details", "post", "book", "receipt", "commit"}
       /\ Pos(p) # "details" => a.details
       /\ \E c \in customers : c.by = a.customer /\ (Committed(c) \/ c.by = p)
  /\ Pos(p) \in {"details", "post", "book", "receipt"} \/ (Pos(p) = "commit" /\ Opens(req[p])) =>
       \E a \in accounts : a.by = p

(* A request that has ended well leaves its whole work, and a receipt comes with its account. *)
Whole(p) ==
  /\ \A c \in customers : c.by = p /\ Pos(p) = "idle" /\ req[p].account =>
       \E a \in accounts : a.by = p
  /\ \A t \in transactions : t.by = p =>
       /\ req[p] \in Request /\ Posts(req[p])
       /\ Pos(p) \in {"idle", "book", "receipt", "commit"}
       /\ \E a \in accounts : a.by = p

Owned(p) == CustomerOwned(p) /\ AccountOwned(p) /\ Whole(p)

(* The accounts an office has, and whether the next three numbers are still in its series. *)
Held(o) == {a \in accounts : a.office = o /\ Committed(a)}
Roomy(o) == Cardinality(Held(o)) + Attempts < NumberSpace

(* A number that is tried is close to the count. *)
Tried(p) ==
  Pos(p) \in {"exists", "account"} =>
    /\ number[p].value[1] = Prefix[CustomerOf(p).office]
    /\ Roomy(CustomerOf(p).office) =>
         number[p].value[2] \in 1..(Cardinality(Held(CustomerOf(p).office)) + Attempts)

(* A number that is taken is close to the count, closer once it is committed. *)
Close(a) ==
  /\ a.number[1] = Prefix[a.office]
  /\ Roomy(a.office) =>
       /\ a.number[2] \in 1..(Cardinality(Held(a.office)) + Attempts)
       /\ Committed(a) => a.number[2] < Cardinality(Held(a.office)) + Attempts

Numbered ==
  /\ \A a \in accounts : Close(a)
  /\ \A a, b \in accounts : a.number = b.number => a = b

Rows == \A p \in Process : Owned(p)
IInv == Shape /\ Tables /\ Rows /\ (\A p \in Process : Tried(p)) /\ Numbered

-----------------------------------------------------------------------------
(* Where a step leads.                                                       *)

(* What a step of one request leaves alone. *)
OthersStay(p) ==
  \A q \in Process \ {p} : /\ Pos(q)' = Pos(q) /\ req'[q] = req[q]
                           /\ q \in inTx' <=> q \in inTx

(* A step that is next is the step of the plan the request has come to. *)
LEMMA AtStep ==
  ASSUME Planned, NEW p \in Process, NEW step, At(p, step)
  PROVE  /\ req[p] \in Request /\ req[p].kind \in Kinds
         /\ step \in StepsOf(req[p]) /\ step \in StepName /\ Pos(p) = step
         /\ WellPlanned(req[p], Plan(req[p]))
         /\ \E i \in 1..Len(Plan(req[p])) :
              todo[p] = From(Plan(req[p]), i) /\ Plan(req[p])[i] = step
<1>1. todo[p] # <<>> /\ Head(todo[p]) = step
  BY DEF At
<1>2. req[p] \in Request
  BY <1>1 DEF Planned
<1>3. PICK i \in 1..Len(Plan(req[p])) : todo[p] = From(Plan(req[p]), i)
  BY <1>1 DEF Planned
<1>4. WellPlanned(req[p], Plan(req[p]))
  BY <1>2, PlanIs
<1>5. Plan(req[p])[i] = step
  <2>1. Plan(req[p]) \in Seq(StepName)
    BY <1>4 DEF WellPlanned
  <2>2. PICK plan : plan = Plan(req[p])
    OBVIOUS
  <2>3. plan \in Seq(StepName) /\ i \in 1..Len(plan) /\ todo[p] = From(plan, i)
    BY <1>3, <2>1, <2>2
  <2>4. Head(From(plan, i)) = plan[i]
    BY <2>3, FromIs
  <2> QED BY <1>1, <2>2, <2>3, <2>4, Zenon
<1>6. step \in StepsOf(req[p]) /\ step \in StepName
  BY <1>4, <1>5 DEF WellPlanned
<1>7. Pos(p) = step /\ req[p].kind \in Kinds
  BY <1>1, <1>2, KindIs DEF Pos
<1> QED BY <1>2, <1>3, <1>4, <1>5, <1>6, <1>7

(* A request that runs is at one of its steps. *)
LEMMA RunningStep ==
  ASSUME Planned, NEW p \in Process, todo[p] # <<>>
  PROVE  At(p, Head(todo[p])) /\ Pos(p) = Head(todo[p]) /\ Pos(p) # "idle"
<1>1. At(p, Head(todo[p])) /\ Pos(p) = Head(todo[p])
  BY DEF At, Pos
<1> QED BY <1>1, AtStep DEF StepName

(* A statement that is done leads to the next one of the plan. *)
LEMMA ProceedMoves ==
  ASSUME Planned, NEW p \in Process, NEW step, At(p, step), step \notin {"commit", "ledger"},
         Proceed(p), req' = req
  PROVE  Planned' /\ Pos(p)' = After(req[p], step) /\ \A q \in Process \ {p} : Pos(q)' = Pos(q)
<1>1. PICK i \in 1..Len(Plan(req[p])) : todo[p] = From(Plan(req[p]), i) /\ Plan(req[p])[i] = step
  BY AtStep
<1>2. /\ req[p] \in Request /\ Plan(req[p]) \in Seq(StepName)
      /\ i < Len(Plan(req[p])) /\ Plan(req[p])[i + 1] = After(req[p], step)
  BY <1>1, AtStep DEF WellPlanned
<1>3. Tail(todo[p]) = From(Plan(req[p]), i + 1) /\ i + 1 \in 1..Len(Plan(req[p]))
  <2>1. Tail(From(Plan(req[p]), i)) = From(Plan(req[p]), i + 1)
    BY <1>2, FromIs
  <2> QED BY <1>1, <1>2, <2>1
<1>4. From(Plan(req[p]), i + 1) # <<>> /\ Head(From(Plan(req[p]), i + 1)) = After(req[p], step)
  <2> DEFINE k == i + 1
  <2>1. k \in 1..Len(Plan(req[p]))
    BY <1>3
  <2> HIDE DEF k
  <2>2. From(Plan(req[p]), k) # <<>> /\ Head(From(Plan(req[p]), k)) = Plan(req[p])[k]
    BY <1>2, <2>1, FromIs
  <2> QED BY <1>2, <2>2 DEF k
<1>5. todo' = [todo EXCEPT ![p] = Tail(todo[p])]
  BY DEF Proceed
<1>6. todo'[p] = From(Plan(req[p]), i + 1) /\ \A q \in Process \ {p} : todo'[q] = todo[q]
  BY <1>3, <1>5 DEF Planned
<1>7. todo' = [q \in Process |-> todo'[q]]
  BY <1>5 DEF Planned
<1>8. Planned'
  BY <1>2, <1>3, <1>6, <1>7 DEF Planned
<1> QED BY <1>4, <1>6, <1>8 DEF Pos

(* A number that exists leads back to the count. *)
LEMMA RetryMoves ==
  ASSUME Planned, NEW p \in Process, At(p, "exists"),
         todo' = [todo EXCEPT ![p] = <<"count">> \o @], req' = req
  PROVE  Planned' /\ Pos(p)' = "count" /\ \A q \in Process \ {p} : Pos(q)' = Pos(q)
<1>1. PICK i \in 1..Len(Plan(req[p])) : todo[p] = From(Plan(req[p]), i) /\ Plan(req[p])[i] = "exists"
  BY AtStep
<1>2. /\ req[p] \in Request /\ Plan(req[p]) \in Seq(StepName)
      /\ i > 1 /\ Plan(req[p])[i - 1] = "count"
  BY <1>1, AtStep DEF WellPlanned
<1>3. <<"count">> \o todo[p] = From(Plan(req[p]), i - 1) /\ i - 1 \in 1..Len(Plan(req[p]))
  BY <1>1, <1>2, FromIs
<1>4. From(Plan(req[p]), i - 1) # <<>> /\ Head(From(Plan(req[p]), i - 1)) = "count"
  BY <1>2, <1>3, FromIs
<1>6. todo'[p] = From(Plan(req[p]), i - 1) /\ \A q \in Process \ {p} : todo'[q] = todo[q]
  BY <1>3 DEF Planned
<1>7. todo' = [q \in Process |-> todo'[q]]
  BY DEF Planned
<1>8. Planned'
  BY <1>2, <1>3, <1>6, <1>7 DEF Planned
<1> QED BY <1>4, <1>6, <1>8 DEF Pos

(* An answer leads nowhere. *)
LEMMA StopMoves ==
  ASSUME Planned, NEW p \in Process, todo' = [todo EXCEPT ![p] = <<>>], req' = req
  PROVE  Planned' /\ Pos(p)' = "idle" /\ \A q \in Process \ {p} : Pos(q)' = Pos(q)
<1>1. todo'[p] = <<>> /\ (\A q \in Process \ {p} : todo'[q] = todo[q]) /\ todo' = [q \in Process |-> todo'[q]]
  BY DEF Planned
<1> QED BY <1>1 DEF Planned, Pos

(* A request starts with a check. *)
LEMMA StartMoves ==
  ASSUME Planned, NEW p \in Process, NEW r \in Request, Start(p, r)
  PROVE  /\ Planned' /\ Pos(p)' = "check" /\ req'[p] = r /\ req[p] = None /\ Pos(p) = "idle"
         /\ \A q \in Process \ {p} : Pos(q)' = Pos(q) /\ req'[q] = req[q]
<1>0. /\ req[p] = None /\ req' = [req EXCEPT ![p] = r] /\ todo' = [todo EXCEPT ![p] = Plan(r)]
  BY DEF Start
<1>1. /\ todo'[p] = Plan(r) /\ (\A q \in Process \ {p} : todo'[q] = todo[q])
      /\ todo' = [q \in Process |-> todo'[q]]
      /\ req' \in [Process -> Request \cup {None}] /\ req'[p] = r
      /\ \A q \in Process \ {p} : req'[q] = req[q]
  BY <1>0 DEF Planned
<1>2. Plan(r) \in Seq(StepName) /\ Len(Plan(r)) >= 1 /\ Plan(r)[1] = "check"
  BY PlanIs DEF WellPlanned
<1>3. 1 \in 1..Len(Plan(r)) /\ Plan(r) = From(Plan(r), 1) /\ Plan(r) # <<>> /\ Head(Plan(r)) = "check"
  <2>1. 1 \in 1..Len(Plan(r))
    BY <1>2
  <2>2. Plan(r) = From(Plan(r), 1) /\ From(Plan(r), 1) # <<>> /\ Head(From(Plan(r), 1)) = "check"
    BY <1>2, <2>1, FromIs
  <2> QED BY <2>1, <2>2
<1>4. None \notin Request /\ todo[p] = <<>>
  BY <1>0, OnboardingAssumption DEF Planned
<1>5. Planned'
  BY <1>1, <1>3 DEF Planned
<1> QED BY <1>0, <1>1, <1>3, <1>4, <1>5 DEF Pos

-----------------------------------------------------------------------------
(* What a step of one request leaves alone.                                  *)

(* Of a table, only the rows of one request change. *)
Alike(old, new, p) ==
  /\ \A row \in old : row.by # p => row \in new
  /\ \A row \in new : row.by # p => row \in old

(* A request that writes has an open transaction or no rows at all. *)
Writing(p) ==
  p \in inTx \/ \A row \in customers \cup accounts \cup transactions : row.by # p

Alone(p) ==
  /\ Writing(p) /\ inTx \subseteq Process /\ inTx' \subseteq Process
  /\ Alike(customers, customers', p) /\ Alike(accounts, accounts', p)
  /\ Alike(transactions, transactions', p)
  /\ \A q \in Process \ {p} : /\ Pos(q)' = Pos(q) /\ req'[q] = req[q] /\ number'[q] = number[q]
                              /\ q \in inTx' <=> q \in inTx

(* Before its transaction a request has no rows. *)
LEMMA WritesInside ==
  ASSUME Connected, NEW p \in Process, Owned(p), Pos(p) # "idle" \/ req[p] = None
  PROVE  Writing(p)
<1>1. CASE req[p] = None
  <2>1. req[p] \notin Request
    BY <1>1, OnboardingAssumption
  <2> QED BY <2>1 DEF Owned, CustomerOwned, AccountOwned, Whole, Writing
<1>2. CASE Pos(p) # "idle" /\ p \notin inTx
  <2>1. ~Inside(p)
    BY <1>2 DEF Connected
  <2> QED BY <1>2, <2>1 DEF Owned, CustomerOwned, AccountOwned, Whole, Writing, Inside, Numbering
<1> QED BY <1>1, <1>2 DEF Writing

(* A committed customer stays one. *)
LEMMA CustomersStay ==
  ASSUME Tables, NEW p \in Process, Alone(p), NEW c \in customers, Committed(c)
  PROVE  c \in customers' /\ Committed(c)' /\ c.by # p
<1>1. c.by \in Process \cup {First}
  BY DEF Tables, CustomerRow
<1>2. c.by # p
  BY DEF Alone, Writing, Committed
<1>3. c \in customers'
  BY <1>2 DEF Alone, Alike
<1>4. c.by \notin inTx'
  BY <1>1, <1>2, OnboardingAssumption DEF Alone, Committed
<1> QED BY <1>2, <1>3, <1>4 DEF Committed

(* What another request has written stays whole. *)
LEMMA OthersOwned ==
  ASSUME Tables, NEW p \in Process, Alone(p), NEW q \in Process \ {p}, Owned(q)
  PROVE  Owned(q)'
<1> USE DEF Alone, Alike
<1>1. /\ Pos(q)' = Pos(q) /\ req'[q] = req[q] /\ q \in Process /\ q # p
      /\ Inside(q)' <=> Inside(q)
  BY DEF Inside
<1>2. CustomerOwned(q)'
  <2>1. ASSUME NEW c \in customers', c.by = q
        PROVE  req'[q] \in Request /\ req'[q].kind = "customer" /\ Pos(q)' \in Numbering \cup {"idle", "ledgers", "commit"}
    <3>1. c \in customers
      BY <1>1, <2>1
    <3> QED BY <1>1, <2>1, <3>1 DEF Owned, CustomerOwned
  <2>2. ASSUME Inside(q)', req'[q].kind = "customer", Pos(q)' # "customer"
        PROVE  \E c \in customers' : c.by = q
    <3>1. PICK c \in customers : c.by = q
      BY <1>1, <2>2 DEF Owned, CustomerOwned
    <3> QED BY <1>1, <3>1
  <2>3. ASSUME Pos(q)' \notin {"idle", "check"}, req'[q].kind \in {"savings", "loan"}
        PROVE  \E c \in customers' : c.by = req'[q].customer /\ Committed(c)'
    <3>1. PICK c \in customers : c.by = req[q].customer /\ Committed(c)
      BY <1>1, <2>3 DEF Owned, CustomerOwned
    <3>2. c \in customers' /\ Committed(c)'
      BY <3>1, CustomersStay
    <3> QED BY <1>1, <3>1, <3>2
  <2> QED BY <2>1, <2>2, <2>3 DEF CustomerOwned
<1>3. AccountOwned(q)'
  <2>1. ASSUME NEW a \in accounts', a.by = q
        PROVE  /\ req'[q] \in Request /\ Opens(req'[q])
               /\ Pos(q)' \in {"idle", "details", "post", "book", "receipt", "commit"}
               /\ Pos(q)' # "details" => a.details
               /\ \E c \in customers' : c.by = a.customer /\ (Committed(c)' \/ c.by = q)
    <3>1. a \in accounts
      BY <1>1, <2>1
    <3>2. /\ req[q] \in Request /\ Opens(req[q])
          /\ Pos(q) \in {"idle", "details", "post", "book", "receipt", "commit"}
          /\ Pos(q) # "details" => a.details
      BY <2>1, <3>1 DEF Owned, AccountOwned
    <3>3. PICK c \in customers : c.by = a.customer /\ (Committed(c) \/ c.by = q)
      BY <2>1, <3>1 DEF Owned, AccountOwned
    <3>4. c \in customers' /\ (Committed(c)' \/ c.by = q)
      BY <1>1, <3>3, CustomersStay
    <3> QED BY <1>1, <3>2, <3>3, <3>4
  <2>2. ASSUME Pos(q)' \in {"details", "post", "book", "receipt"} \/ (Pos(q)' = "commit" /\ Opens(req'[q]))
        PROVE  \E a \in accounts' : a.by = q
    <3>1. PICK a \in accounts : a.by = q
      BY <1>1, <2>2 DEF Owned, AccountOwned
    <3> QED BY <1>1, <3>1
  <2> QED BY <2>1, <2>2 DEF AccountOwned
<1>4. Whole(q)'
  <2>1. ASSUME \E a \in accounts : a.by = q PROVE \E a \in accounts' : a.by = q
    BY <1>1, <2>1
  <2>2. ASSUME NEW c \in customers', c.by = q, Pos(q)' = "idle", req'[q].account
        PROVE  \E a \in accounts' : a.by = q
    <3>1. c \in customers
      BY <1>1, <2>2
    <3> QED BY <1>1, <2>1, <2>2, <3>1 DEF Owned, Whole
  <2>3. ASSUME NEW t \in transactions', t.by = q
        PROVE  /\ req'[q] \in Request /\ Posts(req'[q])
               /\ Pos(q)' \in {"idle", "book", "receipt", "commit"}
               /\ \E a \in accounts' : a.by = q
    <3>1. t \in transactions
      BY <1>1, <2>3
    <3> QED BY <1>1, <2>1, <2>3, <3>1 DEF Owned, Whole
  <2> QED BY <2>2, <2>3 DEF Whole
<1> QED BY <1>2, <1>3, <1>4 DEF Owned
-----------------------------------------------------------------------------
(* Whose account a request opens, and in which series of numbers.            *)

(* The request for an account that has begun has a customer it can see. *)
WhoseIs(p) == IF req[p].kind = "customer" THEN p ELSE req[p].customer

(* A process that opens an account finds the customer, which its own request *)
(* made or which was there before.                                           *)
LEMMA CustomerFound ==
  ASSUME Planned, Tables, NEW p \in Process, Owned(p), Pos(p) \in Numbering
  PROVE  /\ CustomerOf(p) \in Visible(customers, p) /\ CustomerOf(p).by = WhoseIs(p)
         /\ CustomerOf(p) \in customers /\ CustomerOf(p).office \in Office
         /\ req[p].kind # "customer" => \E c \in customers : c.by = WhoseIs(p) /\ Committed(c)
<1>1. At(p, Pos(p))
  BY DEF Pos, At, Numbering
<1>2. Pos(p) \in StepsOf(req[p]) /\ req[p].kind \in Kinds
  BY <1>1, AtStep
<1>3. req[p].kind \in {"customer", "savings", "loan"}
  BY <1>2 DEF StepsOf, Kinds, Numbering
<1>4. CASE req[p].kind = "customer"
  <2>1. PICK c \in customers : c.by = p
    BY <1>4 DEF Owned, CustomerOwned, Inside, Numbering
  <2>2. \E d \in Visible(customers, p) : d.by = WhoseIs(p)
    BY <1>4, <2>1 DEF Visible, WhoseIs
  <2>3. CustomerOf(p) \in Visible(customers, p) /\ CustomerOf(p).by = WhoseIs(p)
    BY <2>2 DEF CustomerOf, WhoseIs
  <2> QED BY <1>4, <2>3 DEF Visible, Tables, CustomerRow
<1>5. CASE req[p].kind # "customer"
  <2>1. PICK c \in customers : c.by = WhoseIs(p) /\ Committed(c)
    BY <1>3, <1>5 DEF Owned, CustomerOwned, Numbering, WhoseIs
  <2>2. \E d \in Visible(customers, p) : d.by = WhoseIs(p)
    BY <2>1 DEF Visible
  <2>3. CustomerOf(p) \in Visible(customers, p) /\ CustomerOf(p).by = WhoseIs(p)
    BY <2>2 DEF CustomerOf, WhoseIs
  <2> QED BY <2>1, <2>3 DEF Visible, Tables, CustomerRow
<1> QED BY <1>4, <1>5

(* A request that sees the same rows of its customer sees the same customer. *)
LEMMA SameCustomer ==
  ASSUME NEW p \in Process, req'[p] = req[p],
         \A c : (c \in Visible(customers, p) /\ c.by = WhoseIs(p))
                <=> (c \in Visible(customers, p)' /\ c.by = WhoseIs(p))
  PROVE  CustomerOf(p)' = CustomerOf(p)
<1>1. CustomerOf(p) = CHOOSE c : c \in Visible(customers, p) /\ c.by = WhoseIs(p)
  BY Zenon DEF CustomerOf, WhoseIs
<1>2. WhoseIs(p)' = WhoseIs(p)
  BY DEF WhoseIs
<1>3. CustomerOf(p)' = CHOOSE c : c \in Visible(customers, p)' /\ c.by = WhoseIs(p)'
  BY Zenon DEF CustomerOf, WhoseIs
<1>4. CustomerOf(p)' = CHOOSE c : c \in Visible(customers, p)' /\ c.by = WhoseIs(p)
  BY <1>2, <1>3, Zenon
<1>5. (CHOOSE c : c \in Visible(customers, p)' /\ c.by = WhoseIs(p))
      = CHOOSE c : c \in Visible(customers, p) /\ c.by = WhoseIs(p)
  OBVIOUS
<1> QED BY <1>1, <1>4, <1>5

(* A step of one request leaves the customer of another what it was. *)
LEMMA CustomerKept ==
  ASSUME Planned, Tables, Tables', NEW p \in Process, Alone(p), NEW q \in Process \ {p}, Owned(q),
         Pos(q) \in Numbering
  PROVE  CustomerOf(q)' = CustomerOf(q)
<1> DEFINE x == WhoseIs(q)
<1>1. \A c : c.by = x => (c \in Visible(customers, q) <=> c \in Visible(customers, q)')
  <2>1. CASE req[q].kind = "customer"
    <3>1. x = q /\ q # p
      BY <2>1 DEF WhoseIs
    <3> QED BY <3>1 DEF Alone, Alike, Visible
  <2>2. CASE req[q].kind # "customer"
    <3>1. PICK d \in customers : d.by = x /\ Committed(d)
      BY <2>2, CustomerFound
    <3>2. x # p /\ x \notin inTx /\ x \notin inTx'
      BY <3>1, CustomersStay DEF Committed
    <3> QED BY <3>1, <3>2 DEF Alone, Alike, Visible, Committed
  <2> QED BY <2>1, <2>2
<1>2. req'[q] = req[q]
  BY DEF Alone
<1> QED BY <1>1, <1>2, SameCustomer

-----------------------------------------------------------------------------
(* The numbers that are taken.                                               *)

(* What an office holds is counted, and no office holds less after a step. *)
HeldGrows == \A o \in Office : /\ Cardinality(Held(o)) \in Nat /\ Cardinality(Held(o))' \in Nat
                               /\ Cardinality(Held(o)) <= Cardinality(Held(o))'

(* The accounts an office holds can be counted. *)
LEMMA HeldCounts ==
  ASSUME Tables, NEW o
  PROVE  IsFiniteSet(Held(o)) /\ Cardinality(Held(o)) \in Nat
  BY FS_Subset, FS_CardinalityType DEF Tables, Held

(* A number that another request tries stays close to the count. *)
LEMMA OthersTried ==
  ASSUME Planned, Tables, Tables', NEW p \in Process, Alone(p), NEW q \in Process \ {p}, Owned(q),
         HeldGrows, Tried(q), number[q].value \in Nat \X Nat
  PROVE  Tried(q)'
<1> SUFFICES ASSUME Pos(q)' \in {"exists", "account"}
             PROVE  /\ number'[q].value[1] = Prefix[CustomerOf(q)'.office]
                    /\ Roomy(CustomerOf(q).office)' =>
                         number'[q].value[2] \in 1..(Cardinality(Held(CustomerOf(q).office))' + Attempts)
  BY DEF Tried
<1>1. Pos(q) \in {"exists", "account"} /\ number'[q] = number[q]
  BY DEF Alone
<1>2. CustomerOf(q)' = CustomerOf(q) /\ CustomerOf(q).office \in Office
  BY <1>1, CustomerKept, CustomerFound DEF Numbering
<1>3. PICK o \in Office : o = CustomerOf(q).office
  BY <1>2
<1>4. o = CustomerOf(q)'.office
  BY <1>2, <1>3
<1>5. /\ number[q].value[1] = Prefix[o]
      /\ Roomy(o) => number[q].value[2] \in 1..(Cardinality(Held(o)) + Attempts)
  BY <1>1, <1>3 DEF Tried
<1>6. Roomy(o)' => number[q].value[2] \in 1..(Cardinality(Held(o))' + Attempts)
  BY <1>5, OnboardingAssumption DEF HeldGrows, Roomy, Attempts
<1>7. Roomy(CustomerOf(q).office)' = Roomy(o)' /\ Held(CustomerOf(q).office)' = Held(o)'
  BY <1>4, Zenon
<1> QED BY <1>1, <1>4, <1>5, <1>6, <1>7
(* The numbers of the accounts of one request. *)
OwnNumbers(p) ==
  \A a \in accounts : a.by = p => /\ Close(a)
                                  /\ \A b \in accounts : a.number = b.number => a = b

(* A step that leaves its accounts uncommitted leaves every office the accounts it holds. *)
LEMMA HeldSame ==
  ASSUME Tables, Tables', NEW p \in Process, Alone(p), p \in inTx' \/ \A a \in accounts' : a.by # p
  PROVE  (\A o : Held(o)' = Held(o)) /\ HeldGrows
<1>1. ASSUME NEW o PROVE Held(o)' = Held(o)
  <2>1. ASSUME NEW a \in accounts', Committed(a)' PROVE a \in accounts /\ Committed(a)
    <3>1. a.by \in Process /\ a.by # p
      BY <2>1 DEF Tables, AccountRow, Committed
    <3> QED BY <2>1, <3>1 DEF Alone, Alike, Committed
  <2>2. ASSUME NEW a \in accounts, Committed(a) PROVE a \in accounts' /\ Committed(a)'
    <3>1. a.by \in Process /\ a.by # p
      BY <2>2 DEF Tables, AccountRow, Committed, Alone, Writing
    <3> QED BY <2>2, <3>1 DEF Alone, Alike, Committed
  <2> QED BY <2>1, <2>2 DEF Held
<1>2. HeldGrows
  <2> SUFFICES ASSUME NEW o \in Office
               PROVE  /\ Cardinality(Held(o)) \in Nat /\ Cardinality(Held(o))' \in Nat
                      /\ Cardinality(Held(o)) <= Cardinality(Held(o))'
    BY DEF HeldGrows
  <2>1. Cardinality(Held(o)) \in Nat
    BY HeldCounts
  <2>2. Cardinality(Held(o))' = Cardinality(Held(o))
    BY <1>1, Zenon
  <2> QED BY <2>1, <2>2
<1> QED BY <1>1, <1>2

(* An account of another request keeps its distance from the count. *)
LEMMA OthersClose ==
  ASSUME Tables, Tables', NEW p \in Process, Alone(p), HeldGrows,
         NEW a \in accounts', a.by # p, Close(a)
  PROVE  Close(a)'
<1>1. a.by \in Process /\ a.office \in Office /\ (Committed(a)' <=> Committed(a))
  BY DEF Tables, AccountRow, Alone, Committed
<1>2. PICK o \in Office : o = a.office
  BY <1>1
<1>3. /\ Cardinality(Held(o)) \in Nat /\ Cardinality(Held(o))' \in Nat
      /\ Cardinality(Held(o)) <= Cardinality(Held(o))'
  BY DEF HeldGrows
<1>4. /\ a.number[1] = Prefix[a.office]
      /\ Roomy(o) => /\ a.number[2] \in 1..(Cardinality(Held(o)) + Attempts)
                     /\ Committed(a) => a.number[2] < Cardinality(Held(o)) + Attempts
  BY <1>2, Zenon DEF Close
<1>5. Roomy(o)' => /\ a.number[2] \in 1..(Cardinality(Held(o))' + Attempts)
                   /\ Committed(a)' => a.number[2] < Cardinality(Held(o))' + Attempts
  BY <1>1, <1>3, <1>4, OnboardingAssumption DEF Roomy, Attempts
<1>6. Roomy(a.office)' = Roomy(o)' /\ Held(a.office)' = Held(o)'
  BY <1>2, Zenon
<1> QED BY <1>4, <1>5, <1>6 DEF Close

(* What is left to show of a step: the rows and the numbers of the request that takes it. *)
LEMMA StepKeeps ==
  ASSUME IInv, NEW p \in Process, Alone(p), Shape', Tables', HeldGrows, Owned(p)', Tried(p)', OwnNumbers(p)'
  PROVE  IInv'
<1> USE DEF IInv, Shape
<1>1. Rows'
  <2> SUFFICES ASSUME NEW q \in Process PROVE Owned(q)'
    BY DEF Rows
  <2> QED BY OthersOwned DEF Rows
<1>2. \A q \in Process : Tried(q)'
  <2> SUFFICES ASSUME NEW q \in Process \ {p} PROVE Tried(q)'
    OBVIOUS
  <2>1. number[q].value \in Nat \X Nat
    BY DEF Trying
  <2> QED BY <2>1, OthersTried DEF Rows
<1>3. Numbered'
  <2>1. ASSUME NEW a \in accounts' PROVE Close(a)'
    <3>1. CASE a.by = p
      BY <3>1 DEF OwnNumbers
    <3>2. CASE a.by # p
      <4>1. Close(a)
        BY <3>2 DEF Alone, Alike, Numbered
      <4> QED BY <3>2, <4>1, OthersClose
    <3> QED BY <3>1, <3>2
  <2>2. ASSUME NEW a \in accounts', NEW b \in accounts', a.number = b.number PROVE a = b
    <3>1. CASE a.by = p \/ b.by = p
      BY <2>2, <3>1 DEF OwnNumbers
    <3>2. CASE a.by # p /\ b.by # p
      BY <2>2, <3>2 DEF Alone, Alike, Numbered
    <3> QED BY <3>1, <3>2
  <2> QED BY <2>1, <2>2 DEF Numbered
<1> QED BY <1>1, <1>2, <1>3

-----------------------------------------------------------------------------
(* The steps.                                                                *)

(* The open transactions after a step that leaves them alone. *)
LEMMA ConnectedStill ==
  ASSUME Connected, NEW p \in Process, inTx' = inTx, Inside(p)' <=> Inside(p),
         \A q \in Process \ {p} : Pos(q)' = Pos(q) /\ req'[q] = req[q]
  PROVE  Connected'
<1>1. \A q \in Process : Inside(q)' <=> Inside(q)
  BY DEF Inside
<1> QED BY <1>1 DEF Connected

(* A step that writes no row and opens no transaction. *)
Quiet(p) ==
  /\ UNCHANGED <<rows, inTx, req>>
  /\ \A q \in Process \ {p} : Pos(q)' = Pos(q) /\ number'[q] = number[q]

(* Such a step leaves every row with its owner and every number as it was.  *)
LEMMA QuietStep ==
  ASSUME IInv, NEW p \in Process, Quiet(p), Pos(p) # "idle", Planned', Trying',
         Inside(p)' <=> Inside(p)
  PROVE  /\ Alone(p) /\ Shape' /\ Tables' /\ HeldGrows /\ OwnNumbers(p)'
         /\ CustomerOf(p)' = CustomerOf(p)
         /\ \A o : Held(o)' = Held(o)
<1> USE DEF IInv, Shape, Quiet, rows
<1>1. Alone(p)
  <2>1. Writing(p)
    BY WritesInside DEF Rows
  <2> QED BY <2>1 DEF Alone, Alike, Connected
<1>2. Connected'
  BY ConnectedStill
<1>3. Tables'
  BY DEF Tables
<1>4. \A o : Held(o)' = Held(o)
  BY DEF Held, Committed
<1>5. HeldGrows
  <2> SUFFICES ASSUME NEW o \in Office
               PROVE  /\ Cardinality(Held(o)) \in Nat /\ Cardinality(Held(o))' \in Nat
                      /\ Cardinality(Held(o)) <= Cardinality(Held(o))'
    BY DEF HeldGrows
  <2>1. Cardinality(Held(o)) \in Nat
    BY HeldCounts
  <2>2. Cardinality(Held(o))' = Cardinality(Held(o))
    BY <1>4, Zenon
  <2> QED BY <2>1, <2>2
<1>6. ASSUME NEW a \in accounts', a.by = p
      PROVE  Close(a)' /\ \A b \in accounts' : a.number = b.number => a = b
  <2>1. Close(a)
    BY DEF Numbered
  <2>2. Held(a.office)' = Held(a.office) /\ Committed(a)' = Committed(a)
    BY <1>4 DEF Committed
  <2>3. Roomy(a.office)' = Roomy(a.office) /\ Cardinality(Held(a.office))' = Cardinality(Held(a.office))
    BY <2>2, Zenon DEF Roomy
  <2>4. Close(a)'
    BY <2>1, <2>2, <2>3 DEF Close
  <2> QED BY <2>4 DEF Numbered
<1>7. CustomerOf(p)' = CustomerOf(p)
  <2>1. Visible(customers, p)' = Visible(customers, p)
    BY DEF Visible, Committed
  <2> QED BY <2>1, SameCustomer
<1> QED BY <1>1, <1>2, <1>3, <1>4, <1>5, <1>6, <1>7 DEF OwnNumbers

(* A request starts without rows. *)
LEMMA StartStep ==
  ASSUME IInv, NEW p \in Process, NEW r \in Request, Start(p, r)
  PROVE  IInv'
<1> USE DEF IInv, Shape
<1>1. /\ Planned' /\ Pos(p)' = "check" /\ req'[p] = r /\ req[p] = None /\ Pos(p) = "idle"
      /\ \A q \in Process \ {p} : Pos(q)' = Pos(q) /\ req'[q] = req[q]
  BY StartMoves
<1>2. UNCHANGED <<customers, accounts, ledgers, transactions, inTx, number>>
  BY DEF Start, rows
<1>3. Writing(p) /\ p \notin inTx
  BY <1>1, WritesInside DEF Rows, Connected, Inside, Numbering
<1>4. Alone(p)
  BY <1>1, <1>2, <1>3 DEF Alone, Alike, Connected
<1>5. Connected'
  <2>1. Inside(p)' <=> Inside(p)
    BY <1>1 DEF Inside, Numbering
  <2> QED BY <1>1, <1>2, <2>1, ConnectedStill
<1>6. Trying'
  BY <1>1, <1>2 DEF Trying
<1>7. Tables'
  BY <1>2 DEF Tables
<1>8. \A row \in customers' \cup accounts' \cup transactions' : row.by # p
  BY <1>2, <1>3 DEF Writing
<1>9. Owned(p)'
  BY <1>1, <1>8 DEF Owned, CustomerOwned, AccountOwned, Whole, Inside, Numbering
<1>10. Tried(p)' /\ OwnNumbers(p)' /\ HeldGrows
  BY <1>1, <1>4, <1>7, <1>8, HeldSame DEF Tried, OwnNumbers
<1> QED BY <1>1, <1>4, <1>5, <1>6, <1>7, <1>9, <1>10, StepKeeps

(* An end gives the connection back. *)
LEMMA FinishConnected ==
  ASSUME Connected, NEW p \in Process, Finish(p), req' = req, Pos(p)' = "idle",
         \A q \in Process \ {p} : Pos(q)' = Pos(q)
  PROVE  Connected'
<1>1. inTx' = inTx \ {p}
  BY DEF Finish, Released
<1>2. \A q \in Process \ {p} : Inside(q)' <=> Inside(q)
  BY DEF Inside
<1>3. inTx' = {q \in Process : Inside(q)'}
  BY <1>1, <1>2 DEF Connected, Inside, Numbering
<1>4. IsFiniteSet(inTx') /\ Cardinality(inTx') <= Cardinality(inTx)
  BY <1>1, FS_Subset DEF Connected
<1>5. Cardinality(inTx') \in Nat /\ Cardinality(inTx) \in Nat
  BY <1>4, FS_CardinalityType DEF Connected
<1> QED BY <1>3, <1>4, <1>5, OnboardingAssumption DEF Connected

(* A request that ends before its commit leaves no rows. *)
LEMMA EndStep ==
  ASSUME IInv, NEW p \in Process, Pos(p) # "idle", Finish(p), req' = req,
         customers' = Undone(customers, p), accounts' = Undone(accounts, p),
         transactions' = Undone(transactions, p), ledgers' \subseteq LedgerRow,
         number' \in [Process -> [attempt : 0..Attempts, value : Nat \X Nat]],
         \A q \in Process \ {p} : number'[q] = number[q]
  PROVE  IInv'
<1> USE DEF IInv, Shape
<1>1. Planned' /\ Pos(p)' = "idle" /\ \A q \in Process \ {p} : Pos(q)' = Pos(q)
  BY StopMoves DEF Finish
<1>2. inTx' = inTx \ {p}
  BY DEF Finish, Released
<1>3. Writing(p)
  BY WritesInside DEF Rows
<1>4. Alone(p)
  BY <1>1, <1>2, <1>3 DEF Alone, Alike, Connected, Undone
<1>5. Connected'
  BY <1>1, FinishConnected
<1>6. Trying'
  <2>1. req[p] # None
    BY OnboardingAssumption DEF Planned, Pos
  <2> QED BY <1>1, <2>1 DEF Trying
<1>7. Tables'
  <2>1. Undone(accounts, p) \subseteq accounts /\ IsFiniteSet(accounts)
    BY DEF Undone, Tables
  <2>2. IsFiniteSet(Undone(accounts, p))
    BY <2>1, FS_Subset
  <2> QED BY <2>1, <2>2 DEF Tables, Undone
<1>8. \A row \in customers' \cup accounts' \cup transactions' : row.by # p
  BY DEF Undone
<1>9. Owned(p)'
  BY <1>1, <1>8 DEF Owned, CustomerOwned, AccountOwned, Whole, Inside, Numbering
<1>10. Tried(p)' /\ OwnNumbers(p)' /\ HeldGrows
  BY <1>1, <1>4, <1>7, <1>8, HeldSame DEF Tried, OwnNumbers
<1> QED BY <1>1, <1>4, <1>5, <1>6, <1>7, <1>9, <1>10, StepKeeps

(* An error ends a request. *)
LEMMA FailStep ==
  ASSUME IInv, NEW p \in Process, Pos(p) # "idle", Fail(p), req' = req,
         number' \in [Process -> [attempt : 0..Attempts, value : Nat \X Nat]],
         \A q \in Process \ {p} : number'[q] = number[q]
  PROVE  IInv'
<1>1. /\ Finish(p) /\ customers' = Undone(customers, p) /\ accounts' = Undone(accounts, p)
      /\ transactions' = Undone(transactions, p) /\ ledgers' = ledgers
  BY DEF Fail, UndoneAccounts
<1>2. ledgers' \subseteq LedgerRow
  BY <1>1 DEF IInv, Tables
<1> QED BY <1>1, <1>2, EndStep

(* So does an answer outside the transaction. *)
LEMMA RefuseStep ==
  ASSUME IInv, NEW p \in Process, Pos(p) # "idle", p \notin inTx, Finish(p), req' = req, number' = number,
         UNCHANGED <<customers, accounts, transactions>>, ledgers' \subseteq LedgerRow
  PROVE  IInv'
<1>1. Writing(p)
  BY WritesInside DEF IInv, Shape, Rows
<1>2. /\ customers' = Undone(customers, p) /\ accounts' = Undone(accounts, p)
      /\ transactions' = Undone(transactions, p)
  BY <1>1 DEF Writing, Undone
<1>3. number' \in [Process -> [attempt : 0..Attempts, value : Nat \X Nat]]
  BY DEF IInv, Shape, Trying
<1> QED BY <1>2, <1>3, EndStep

-----------------------------------------------------------------------------
(* The checks.                                                               *)

(* A check of a request outside its transaction, answered or passed: what the next step
   needs is there already. *)
LEMMA CheckStep ==
  ASSUME IInv, NEW p \in Process, NEW step \in {"check", "linked", "parent", "ledgers"}, At(p, step),
         Proceed(p), UNCHANGED <<rows, inTx, req, number>>,
         step = "check" /\ req[p].kind \in {"savings", "loan"} =>
           \E c \in customers : c.by = req[p].customer /\ (Committed(c) \/ c.by = p)
  PROVE  IInv'
<1> USE DEF IInv, Shape
<1>1. /\ req[p] \in Request /\ req[p].kind \in Kinds /\ step \in StepsOf(req[p]) /\ Pos(p) = step
  BY AtStep
<1>2. Planned' /\ Pos(p)' = After(req[p], step) /\ \A q \in Process \ {p} : Pos(q)' = Pos(q)
  BY ProceedMoves
<1>3. Quiet(p) /\ Pos(p) # "idle"
  BY <1>1, <1>2 DEF Quiet
<1>4. Inside(p)' <=> Inside(p)
  BY <1>1, <1>2, <1>3 DEF Inside, Numbering, After, Kinds, StepsOf, Quiet
<1>5. Trying'
  BY <1>1, <1>2, <1>3 DEF Trying, Quiet
<1>6. /\ Alone(p) /\ Shape' /\ Tables' /\ HeldGrows /\ OwnNumbers(p)'
  BY <1>2, <1>3, <1>4, <1>5, QuietStep
<1>7. Tried(p)'
  BY <1>1, <1>2 DEF Tried, After, Kinds, StepsOf
<1>8. Owned(p)'
  <2> USE DEF rows
  <2>1. CASE p \notin inTx
    <3>1. \A row \in customers' \cup accounts' \cup transactions' : row.by # p
      BY <2>1, <1>6 DEF Alone, Writing
    <3>2. Pos(p)' \in {"linked", "parent", "ledgers", "begin", "ledger"} /\ ~Inside(p)'
      BY <1>1, <1>2, <1>4, <2>1 DEF After, Kinds, StepsOf, Connected, Inside
    <3>3. req[p].kind \in {"savings", "loan"} => \E c \in customers : c.by = req[p].customer /\ Committed(c)
      <4>1. CASE step = "check"
        BY <1>6, <2>1, <4>1 DEF Alone, Writing
      <4>2. CASE step # "check"
        BY <1>1, <4>2 DEF Rows, Owned, CustomerOwned
      <4> QED BY <4>1, <4>2
    <3> QED BY <3>1, <3>2, <3>3 DEF Owned, CustomerOwned, AccountOwned, Whole, Committed
  <2>2. CASE p \in inTx
    <3>1. step = "ledgers" /\ req[p].kind = "customer" /\ Pos(p)' = "count"
      BY <1>1, <1>2, <2>2 DEF Connected, Inside, Numbering, After
    <3>2. Owned(p)
      BY DEF Rows
    <3> QED BY <1>1, <3>1, <3>2 DEF Owned, CustomerOwned, AccountOwned, Whole, Committed, Inside, Numbering
  <2> QED BY <2>1, <2>2
<1> QED BY <1>6, <1>7, <1>8, StepKeeps

(* A transaction begins without rows. *)
LEMMA BeginStep ==
  ASSUME IInv, NEW p \in Process, Begin(p)
  PROVE  IInv'
<1> USE DEF IInv, Shape
<1>0. /\ At(p, "begin") /\ Cardinality(inTx) < PoolSize /\ inTx' = inTx \cup {p} /\ Proceed(p)
      /\ UNCHANGED <<customers, accounts, ledgers, transactions, req, number>>
  BY DEF Begin, ConnectionFree, rows
<1>1. /\ req[p] \in Request /\ req[p].kind \in Kinds /\ "begin" \in StepsOf(req[p]) /\ Pos(p) = "begin"
  BY <1>0, AtStep
<1>2. Planned' /\ Pos(p)' = After(req[p], "begin") /\ \A q \in Process \ {p} : Pos(q)' = Pos(q)
  BY <1>0, ProceedMoves
<1>3. /\ Pos(p)' \in {"customer", "count"} /\ (req[p].kind = "customer" => Pos(p)' = "customer") /\ Inside(p)'
      /\ ~Inside(p) /\ p \notin inTx
  BY <1>1, <1>2 DEF After, Inside, Numbering, Connected
<1>4. Alone(p)
  <2>1. Writing(p)
    BY <1>1, WritesInside DEF Rows
  <2> QED BY <1>0, <1>2, <2>1 DEF Alone, Alike, Connected
<1>5. Connected'
  <2>1. \A q \in Process \ {p} : Inside(q)' <=> Inside(q)
    BY <1>0, <1>2 DEF Inside
  <2>2. inTx' = {q \in Process : Inside(q)'}
    BY <1>0, <1>3, <2>1 DEF Connected
  <2>3. IsFiniteSet(inTx') /\ Cardinality(inTx') = Cardinality(inTx) + 1
    BY <1>0, <1>3, FS_AddElement DEF Connected
  <2>4. Cardinality(inTx) \in Nat
    BY FS_CardinalityType DEF Connected
  <2> QED BY <1>0, <2>2, <2>3, <2>4, OnboardingAssumption DEF Connected
<1>6. Trying'
  BY <1>0, <1>1, <1>2 DEF Trying
<1>7. Tables'
  BY <1>0 DEF Tables
<1>8. \A row \in customers' \cup accounts' \cup transactions' : row.by # p
  BY <1>0, <1>3, <1>4 DEF Alone, Writing
<1>9. Owned(p)'
  <2>1. req[p].kind \in {"savings", "loan"} => \E c \in customers' : c.by = req[p].customer /\ Committed(c)'
    <3> SUFFICES ASSUME req[p].kind \in {"savings", "loan"}
                 PROVE  \E c \in customers' : c.by = req[p].customer /\ Committed(c)'
      OBVIOUS
    <3>1. PICK c \in customers : c.by = req[p].customer /\ Committed(c)
      BY <1>1 DEF Rows, Owned, CustomerOwned
    <3> QED BY <1>4, <3>1, CustomersStay
  <2> QED BY <1>0, <1>3, <1>8, <2>1 DEF Owned, CustomerOwned, AccountOwned, Whole
<1>10. Tried(p)' /\ OwnNumbers(p)' /\ HeldGrows
  BY <1>3, <1>4, <1>7, <1>8, HeldSame DEF Tried, OwnNumbers
<1> QED BY <1>2, <1>4, <1>5, <1>6, <1>7, <1>9, <1>10, StepKeeps

-----------------------------------------------------------------------------
(* The numbers.                                                              *)

(* A number below the size of the series is itself. *)
LEMMA SmallModulo ==
  ASSUME NEW x \in Nat, NEW n \in Nat \ {0}
  PROVE  x % n \in Nat /\ (x < n => x % n = x)
  OBVIOUS

(* A count leads to a number close to it. *)
LEMMA CountStep ==
  ASSUME IInv, NEW p \in Process, CountAccounts(p)
  PROVE  IInv'
<1> USE DEF IInv, Shape
<1> DEFINE o == CustomerOf(p).office
           k == Cardinality({a \in Visible(accounts, p) : a.office = o})
           v == <<Prefix[o], (k + 1 + number[p].attempt) % NumberSpace>>
<1>0. /\ At(p, "count") /\ p \in inTx /\ Proceed(p) /\ number' = [number EXCEPT ![p].value = v]
      /\ UNCHANGED <<customers, accounts, ledgers, transactions, inTx, req>>
  BY DEF CountAccounts, OwnConnection, NextSequence, rows
<1>1. /\ req[p] \in Request /\ Pos(p) = "count" /\ Owned(p)
  BY <1>0, AtStep DEF Rows
<1>2. Planned' /\ Pos(p)' = "exists" /\ \A q \in Process \ {p} : Pos(q)' = Pos(q)
  BY <1>0, ProceedMoves DEF After
<1>3. o \in Office /\ Prefix[o] \in Nat
  BY <1>1, CustomerFound, OnboardingAssumption DEF Numbering
<1>4. k = Cardinality(Held(o)) /\ k \in Nat
  <2>1. \A a \in accounts : a.by # p
    BY <1>1 DEF Owned, AccountOwned
  <2>2. {a \in Visible(accounts, p) : a.office = o} = Held(o)
    BY <2>1 DEF Visible, Held
  <2>3. k = Cardinality(Held(o))
    BY <2>2, Zenon
  <2> QED BY <2>3, HeldCounts
<1>5. number[p] \in [attempt : 0..Attempts, value : Nat \X Nat] /\ number[p].attempt < Attempts
  BY <1>1 DEF Trying
<1>6. k + 1 + number[p].attempt \in Nat
  BY <1>4, <1>5 DEF Attempts
<1>7. (k + 1 + number[p].attempt) % NumberSpace \in Nat
  BY <1>6, SmallModulo, OnboardingAssumption
<1>8. v \in Nat \X Nat /\ v[1] = Prefix[o] /\ v[2] = (k + 1 + number[p].attempt) % NumberSpace
  BY <1>3, <1>7
<1>9. Roomy(o) => v[2] \in 1..(Cardinality(Held(o)) + Attempts)
  <2> SUFFICES ASSUME Roomy(o) PROVE v[2] \in 1..(Cardinality(Held(o)) + Attempts)
    OBVIOUS
  <2>1. k + 3 < NumberSpace
    BY <1>4 DEF Roomy, Attempts
  <2>2. /\ k + 1 + number[p].attempt < NumberSpace
        /\ k + 1 + number[p].attempt \in 1..(k + 3)
    BY <1>4, <1>5, <2>1, OnboardingAssumption DEF Attempts
  <2>3. v[2] = k + 1 + number[p].attempt
    BY <1>6, <1>8, <2>2, SmallModulo, OnboardingAssumption
  <2> QED BY <1>4, <2>2, <2>3 DEF Attempts
<1> HIDE DEF v, k, o
<1>10. /\ number' \in [Process -> [attempt : 0..Attempts, value : Nat \X Nat]]
       /\ number'[p].attempt = number[p].attempt /\ number'[p].value = v
       /\ \A q \in Process \ {p} : number'[q] = number[q]
  BY <1>0, <1>5, <1>8 DEF Trying
<1>11. Trying'
  BY <1>0, <1>2, <1>5, <1>10 DEF Trying
<1>12. Quiet(p) /\ Pos(p) # "idle" /\ (Inside(p)' <=> Inside(p))
  BY <1>0, <1>1, <1>2, <1>10 DEF Quiet, rows, Inside, Numbering
<1>13. /\ Alone(p) /\ Shape' /\ Tables' /\ HeldGrows /\ OwnNumbers(p)'
       /\ CustomerOf(p)' = CustomerOf(p) /\ \A office : Held(office)' = Held(office)
  BY <1>2, <1>11, <1>12, QuietStep
<1>14. Tried(p)'
  <2>1. PICK x \in Office : x = o
    BY <1>3
  <2>2. x = CustomerOf(p).office /\ x = CustomerOf(p)'.office
    BY <1>13, <2>1 DEF o
  <2>3. Held(CustomerOf(p).office)' = Held(x)' /\ Held(x)' = Held(x)
    BY <1>13, <2>2, Zenon
  <2>4. Cardinality(Held(CustomerOf(p).office))' = Cardinality(Held(x))
    BY <2>3, Zenon
  <2>5. Roomy(CustomerOf(p).office)' = Roomy(x)
    BY <2>4, Zenon DEF Roomy
  <2>6. v[1] = Prefix[x] /\ (Roomy(x) => v[2] \in 1..(Cardinality(Held(x)) + Attempts))
    BY <1>8, <1>9, <2>1, Zenon
  <2> QED BY <1>10, <2>2, <2>4, <2>5, <2>6 DEF Tried
<1>15. Owned(p)'
  BY <1>0, <1>1, <1>2 DEF Owned, CustomerOwned, AccountOwned, Whole, Inside, Numbering, Committed
<1> QED BY <1>13, <1>14, <1>15, StepKeeps

(* A number that is free is tried, one that is taken is counted out again. *)
LEMMA ExistsStep ==
  ASSUME IInv, NEW p \in Process, NumberExists(p)
  PROVE  IInv'
<1> USE DEF IInv, Shape
<1>0. At(p, "exists") /\ req' = req
  BY DEF NumberExists
<1>1. req[p] \in Request /\ Pos(p) = "exists" /\ Owned(p) /\ Tried(p)
  BY <1>0, AtStep DEF Rows
<1>2. number[p] \in [attempt : 0..Attempts, value : Nat \X Nat] /\ number[p].attempt < Attempts
  BY <1>1 DEF Trying
<1>3. CASE ~ \E a \in Visible(accounts, p) : a.number = number[p].value
  <2>1. Proceed(p) /\ UNCHANGED <<customers, accounts, ledgers, transactions, inTx, number>>
    BY <1>3 DEF NumberExists, rows
  <2>2. Planned' /\ Pos(p)' = "account" /\ \A q \in Process \ {p} : Pos(q)' = Pos(q)
    BY <1>0, <2>1, ProceedMoves DEF After
  <2>3. Trying'
    BY <1>0, <1>1, <2>1, <2>2 DEF Trying
  <2>4. Quiet(p) /\ Pos(p) # "idle" /\ (Inside(p)' <=> Inside(p))
    BY <1>0, <1>1, <2>1, <2>2 DEF Quiet, rows, Inside, Numbering
  <2>5. /\ Alone(p) /\ Shape' /\ Tables' /\ HeldGrows /\ OwnNumbers(p)'
        /\ CustomerOf(p)' = CustomerOf(p) /\ \A o : Held(o)' = Held(o)
    BY <2>2, <2>3, <2>4, QuietStep
  <2>6. Tried(p)'
    <3>1. CustomerOf(p).office \in Office
      BY <1>1, CustomerFound DEF Numbering
    <3>2. PICK x \in Office : x = CustomerOf(p).office
      BY <3>1
    <3>3. x = CustomerOf(p)'.office
      BY <2>5, <3>2
    <3>4. Held(CustomerOf(p).office)' = Held(x)' /\ Held(x)' = Held(x)
      BY <2>5, <3>3, Zenon
    <3>5. Cardinality(Held(CustomerOf(p).office))' = Cardinality(Held(x))
      BY <3>4, Zenon
    <3>6. Roomy(CustomerOf(p).office)' = Roomy(x)
      BY <3>5, Zenon DEF Roomy
    <3>7. /\ number[p].value[1] = Prefix[x]
          /\ Roomy(x) => number[p].value[2] \in 1..(Cardinality(Held(x)) + Attempts)
      BY <1>1, <3>2, Zenon DEF Tried
    <3> QED BY <2>1, <3>3, <3>5, <3>6, <3>7 DEF Tried
  <2>7. Owned(p)'
    BY <1>0, <1>1, <2>1, <2>2 DEF Owned, CustomerOwned, AccountOwned, Whole, Inside, Numbering, Committed
  <2> QED BY <2>5, <2>6, <2>7, StepKeeps
<1>4. CASE \E a \in Visible(accounts, p) : a.number = number[p].value
  <2>1. number' = [number EXCEPT ![p].attempt = number[p].attempt + 1]
    BY <1>4 DEF NumberExists
  <2>2. /\ number' \in [Process -> [attempt : 0..Attempts, value : Nat \X Nat]]
        /\ number'[p].attempt = number[p].attempt + 1
        /\ \A q \in Process \ {p} : number'[q] = number[q]
    <3>1. number[p].attempt + 1 \in 0..Attempts
      BY <1>2 DEF Attempts
    <3>2. number \in [Process -> [attempt : 0..Attempts, value : Nat \X Nat]]
      BY DEF Trying
    <3> QED BY <1>2, <2>1, <3>1, <3>2
  <2>3. CASE number[p].attempt + 1 = Attempts
    <3>1. Fail(p)
      BY <1>4, <2>3 DEF NumberExists
    <3> QED BY <1>0, <1>1, <2>2, <3>1, FailStep
  <2>4. CASE number[p].attempt + 1 # Attempts
    <3>1. /\ todo' = [todo EXCEPT ![p] = <<"count">> \o @]
          /\ UNCHANGED <<customers, accounts, ledgers, transactions, inTx>>
      BY <1>4, <2>4 DEF NumberExists, rows
    <3>2. Planned' /\ Pos(p)' = "count" /\ \A q \in Process \ {p} : Pos(q)' = Pos(q)
      BY <1>0, <3>1, RetryMoves
    <3>3. Trying'
      <4>1. number'[p].attempt < Attempts
        BY <1>2, <2>2, <2>4 DEF Attempts
      <4> QED BY <1>0, <2>2, <3>2, <4>1 DEF Trying
    <3>4. Quiet(p) /\ Pos(p) # "idle" /\ (Inside(p)' <=> Inside(p))
      BY <1>0, <1>1, <2>2, <3>1, <3>2 DEF Quiet, rows, Inside, Numbering
    <3>5. /\ Alone(p) /\ Shape' /\ Tables' /\ HeldGrows /\ OwnNumbers(p)'
      BY <3>2, <3>3, <3>4, QuietStep
    <3>6. Tried(p)'
      BY <3>2 DEF Tried
    <3>7. Owned(p)'
      BY <1>0, <1>1, <3>1, <3>2 DEF Owned, CustomerOwned, AccountOwned, Whole, Inside, Numbering, Committed
    <3> QED BY <3>5, <3>6, <3>7, StepKeeps
  <2> QED BY <2>3, <2>4
<1> QED BY <1>3, <1>4

-----------------------------------------------------------------------------
(* The statements of a transaction.                                          *)

(* The bodies of the requests, by kind. *)
LEMMA BodyIs ==
  ASSUME NEW r \in Request
  PROVE  /\ r.kind = "customer" => r \in CreateCustomerDto
         /\ r.kind = "savings" => r \in CreateSavingsAccountDto
         /\ r.kind = "loan" => r \in CreateLoanAccountDto
         /\ r.kind = "ledger" => r \in CreateGlAccountDto
  BY OnboardingAssumption DEF CreateCustomerDto, CreateSavingsAccountDto, CreateLoanAccountDto,
     CreateGlAccountDto

(* A statement that is followed by another one of its transaction. *)
LEMMA InsideStep ==
  ASSUME IInv, NEW p \in Process, Inside(p), Inside(p)', Pos(p) # "idle",
         Planned', Tables', UNCHANGED <<inTx, req, number>>,
         \A q \in Process \ {p} : Pos(q)' = Pos(q),
         Alike(customers, customers', p), Alike(accounts, accounts', p),
         Alike(transactions, transactions', p)
  PROVE  Alone(p) /\ Shape' /\ HeldGrows /\ p \in inTx' /\ \A o : Held(o)' = Held(o)
<1> USE DEF IInv, Shape
<1>1. Alone(p) /\ p \in inTx'
  BY DEF Alone, Writing, Connected
<1>2. Connected'
  BY ConnectedStill
<1>3. Trying'
  <2>1. req[p] # None
    BY OnboardingAssumption DEF Planned, Pos
  <2> QED BY <2>1 DEF Trying
<1> QED BY <1>1, <1>2, <1>3, HeldSame

(* A customer is new, and alone with his request. *)
LEMMA CustomerStep ==
  ASSUME IInv, NEW p \in Process, InsertCustomer(p)
  PROVE  IInv'
<1> USE DEF IInv, Shape
<1> DEFINE Same(row) == row.email = req[p].email
           new == [by |-> p, email |-> req[p].email, office |-> req[p].office,
                   status |-> IF req[p].activate THEN "active" ELSE "pending_verification"]
<1>0. At(p, "customer") /\ req' = req /\ number' = number
  BY DEF InsertCustomer
<1>1. req[p] \in Request /\ "customer" \in StepsOf(req[p]) /\ req[p].kind \in Kinds /\ Pos(p) = "customer"
      /\ Owned(p)
  BY <1>0, AtStep DEF Rows
<1>2. CASE Violates(customers, p, Same)
  <2>1. Fail(p)
    BY <1>2 DEF InsertCustomer
  <2>2. number \in [Process -> [attempt : 0..Attempts, value : Nat \X Nat]]
    BY DEF Trying
  <2> QED BY <1>0, <1>1, <2>1, <2>2, FailStep
<1>3. CASE ~Violates(customers, p, Same)
  <2>1. /\ Proceed(p) /\ customers' = customers \cup {new}
        /\ UNCHANGED <<accounts, ledgers, transactions, inTx>>
    BY <1>3 DEF InsertCustomer
  <2>2. Planned' /\ Pos(p)' = After(req[p], "customer") /\ \A q \in Process \ {p} : Pos(q)' = Pos(q)
    BY <1>0, <2>1, ProceedMoves
  <2>3. req[p].kind = "customer" /\ req[p] \in CreateCustomerDto
    BY <1>1, BodyIs DEF StepsOf, Kinds
  <2>4. new \in CustomerRow
    BY <2>3 DEF CreateCustomerDto, CustomerRow
  <2>5. Tables'
    BY <2>1, <2>4 DEF Tables
  <2>6. /\ Pos(p)' \in {"ledgers", "commit"} /\ Inside(p) /\ Inside(p)'
        /\ req[p].account => Pos(p)' = "ledgers"
    BY <1>0, <1>1, <2>2, <2>3 DEF After, Inside
  <2>7. Alike(customers, customers', p) /\ Alike(accounts, accounts', p) /\ Alike(transactions, transactions', p)
    BY <2>1 DEF Alike
  <2>8. Alone(p) /\ Shape' /\ HeldGrows
    BY <1>0, <1>1, <2>1, <2>2, <2>5, <2>6, <2>7, InsideStep
  <2>9. (\A a \in accounts' : a.by # p) /\ (\A t \in transactions' : t.by # p)
    BY <1>1, <2>1 DEF Owned, AccountOwned, Whole
  <2>10. Tried(p)' /\ OwnNumbers(p)'
    BY <2>6, <2>9 DEF Tried, OwnNumbers
  <2>11. Owned(p)'
    <3>1. new \in customers' /\ new.by = p
      BY <2>1
    <3>2. CustomerOwned(p)'
      BY <1>0, <1>1, <2>3, <2>6, <3>1 DEF CustomerOwned
    <3>3. AccountOwned(p)'
      BY <1>0, <2>3, <2>6, <2>9 DEF AccountOwned, Opens
    <3>4. Whole(p)'
      BY <2>6, <2>9 DEF Whole
    <3> QED BY <3>2, <3>3, <3>4 DEF Owned
  <2> QED BY <2>5, <2>8, <2>10, <2>11, StepKeeps
<1> QED BY <1>2, <1>3

(* An account is new, whole but for its details, and its number is nobody else's. *)
LEMMA AccountStep ==
  ASSUME IInv, NEW p \in Process, InsertAccount(p)
  PROVE  IInv'
<1> USE DEF IInv, Shape
<1> DEFINE Same(row) == row.number = number[p].value
           new == [by |-> p, customer |-> CustomerOf(p).by, office |-> CustomerOf(p).office,
                   number |-> number[p].value,
                   type |-> IF req[p].kind = "loan" THEN "loan" ELSE "savings",
                   status |-> IF req[p].kind # "loan" /\ req[p].activate THEN "active" ELSE "pending",
                   book |-> IF req[p].kind = "savings" THEN req[p].opening ELSE 0, details |-> FALSE]
<1>0. At(p, "account") /\ req' = req /\ number' = number /\ ~Waits(accounts, p, Same)
  BY DEF InsertAccount
<1>1. req[p] \in Request /\ "account" \in StepsOf(req[p]) /\ req[p].kind \in Kinds /\ Pos(p) = "account"
      /\ Owned(p) /\ Tried(p)
  BY <1>0, AtStep DEF Rows
<1>2. number \in [Process -> [attempt : 0..Attempts, value : Nat \X Nat]]
  BY DEF Trying
<1>3. CASE Violates(accounts, p, Same)
  <2>1. Fail(p)
    BY <1>3 DEF InsertAccount
  <2> QED BY <1>0, <1>1, <1>2, <2>1, FailStep
<1>4. CASE ~Violates(accounts, p, Same)
  <2>1. /\ Proceed(p) /\ accounts' = accounts \cup {new}
        /\ UNCHANGED <<customers, ledgers, transactions, inTx>>
    BY <1>4 DEF InsertAccount
  <2>2. Planned' /\ Pos(p)' = "details" /\ \A q \in Process \ {p} : Pos(q)' = Pos(q)
    BY <1>0, <2>1, ProceedMoves DEF After
  <2>3. /\ CustomerOf(p) \in customers /\ CustomerOf(p) \in Visible(customers, p)
        /\ CustomerOf(p).office \in Office /\ CustomerOf(p).by \in Process \cup {First}
    BY <1>1, CustomerFound DEF Numbering, Tables, CustomerRow
  <2>4. new \in AccountRow
    <3>1. number[p].value \in Nat \X Nat
      BY <1>2
    <3>2. req[p].kind = "savings" => req[p].opening \in Nat
      BY <1>1, BodyIs DEF CreateSavingsAccountDto
    <3>3. (IF req[p].kind = "savings" THEN req[p].opening ELSE 0) \in Nat
      BY <3>2
    <3> HIDE DEF new
    <3> QED BY <2>3, <3>1, <3>3 DEF AccountRow, new
  <2>5. PICK row \in AccountRow : row = new
    BY <2>4
  <2>5a. /\ row.by = p /\ row.customer = CustomerOf(p).by /\ row.office = CustomerOf(p).office
         /\ row.number = number[p].value /\ accounts' = accounts \cup {row}
    BY <2>1, <2>5
  <2> HIDE DEF new
  <2>6. Tables'
    BY <2>1, <2>5a, FS_AddElement DEF Tables
  <2>7. Inside(p) /\ Inside(p)' /\ Opens(req[p])
    BY <1>0, <1>1, <2>2 DEF Inside, Numbering, StepsOf, Opens, Kinds
  <2>8. Alike(customers, customers', p) /\ Alike(accounts, accounts', p) /\ Alike(transactions, transactions', p)
    BY <2>1, <2>5a DEF Alike
  <2>9. Alone(p) /\ Shape' /\ HeldGrows /\ p \in inTx' /\ \A o : Held(o)' = Held(o)
    BY <1>0, <1>1, <2>1, <2>2, <2>6, <2>7, <2>8, InsideStep
  <2>10. (\A a \in accounts : a.by # p) /\ (\A t \in transactions : t.by # p)
    BY <1>1 DEF Owned, AccountOwned, Whole
  <2>11. \A b \in accounts : b.number # row.number
    <3> SUFFICES ASSUME NEW b \in accounts, b.number = number[p].value PROVE FALSE
      BY <2>5a
    <3>1. Committed(b)
      BY <1>0, <2>10 DEF Waits
    <3> QED BY <1>4, <3>1 DEF Violates, Visible
  <2>12. Close(row)'
    <3>1. PICK x \in Office : x = CustomerOf(p).office
      BY <2>3
    <3>2. /\ number[p].value[1] = Prefix[x]
          /\ Roomy(x) => number[p].value[2] \in 1..(Cardinality(Held(x)) + Attempts)
      BY <1>1, <3>1, Zenon DEF Tried
    <3>3. row.office = x /\ row.number = number[p].value /\ row.by = p
      BY <2>5a, <3>1
    <3>4. Held(row.office)' = Held(x)
      BY <2>9, <3>3, Zenon
    <3>5. Cardinality(Held(row.office))' = Cardinality(Held(x)) /\ (Roomy(row.office)' <=> Roomy(x))
      BY <3>4, Zenon DEF Roomy
    <3>6. ~Committed(row)'
      BY <2>9, <3>3 DEF Committed
    <3> QED BY <3>2, <3>3, <3>5, <3>6 DEF Close
  <2>13. OwnNumbers(p)'
    <3> SUFFICES ASSUME NEW a \in accounts', a.by = p
                 PROVE  Close(a)' /\ \A b \in accounts' : a.number = b.number => a = b
      BY DEF OwnNumbers
    <3>1. a = row
      BY <2>5a, <2>10
    <3> QED BY <2>5a, <2>11, <2>12, <3>1
  <2>14. Tried(p)'
    BY <2>2 DEF Tried
  <2>15. Owned(p)'
    <3>1. CustomerOwned(p)'
      BY <1>0, <1>1, <2>1, <2>2 DEF Owned, CustomerOwned, Inside, Numbering, Committed
    <3>2. AccountOwned(p)'
      <4>1. CustomerOf(p) \in customers' /\ (Committed(CustomerOf(p)) \/ CustomerOf(p).by = p)
        BY <2>1, <2>3 DEF Visible
      <4>2. \E c \in customers' : c.by = row.customer /\ (c.by \notin inTx' \/ c.by = p)
        BY <2>1, <2>5a, <4>1 DEF Committed
      <4>3. \A a \in accounts' : a.by = p => a = row
        BY <2>5a, <2>10
      <4>4. row \in accounts' /\ row.by = p
        BY <2>5a
      <4> QED BY <1>0, <1>1, <2>2, <2>7, <4>2, <4>3, <4>4 DEF AccountOwned, Committed
    <3>3. Whole(p)'
      BY <2>1, <2>2, <2>10 DEF Whole
    <3> QED BY <3>1, <3>2, <3>3 DEF Owned
  <2> QED BY <2>6, <2>9, <2>13, <2>14, <2>15, StepKeeps
<1> QED BY <1>3, <1>4

(* A statement that changes the account of the request, and may write a transactions row. *)
LEMMA ChangedStep ==
  ASSUME IInv, NEW p \in Process, NEW step \in {"details", "post", "book", "receipt"}, At(p, step), Proceed(p),
         NEW f \in [AccountRow -> AccountRow],
         \A a \in AccountRow :
           /\ f[a].by = a.by /\ f[a].customer = a.customer /\ f[a].office = a.office /\ f[a].number = a.number
           /\ a.details \/ step = "details" => f[a].details,
         accounts' = {IF a.by = p THEN f[a] ELSE a : a \in accounts},
         UNCHANGED <<customers, ledgers, inTx, req, number>>,
         transactions' \subseteq TransactionRow, Alike(transactions, transactions', p),
         \A t \in transactions' : t.by = p => t \in transactions \/ step \in {"post", "receipt"}
  PROVE  IInv'
<1> USE DEF IInv, Shape
<1>1. req[p] \in Request /\ step \in StepsOf(req[p]) /\ req[p].kind \in Kinds /\ Pos(p) = step /\ Owned(p)
  BY AtStep DEF Rows
<1>2. Planned' /\ Pos(p)' = After(req[p], step) /\ \A q \in Process \ {p} : Pos(q)' = Pos(q)
  BY ProceedMoves
<1>3. /\ Pos(p)' \in {"post", "book", "receipt", "commit"} /\ Inside(p) /\ Inside(p)'
      /\ step # "details" => Pos(p)' # "post"
  BY <1>1, <1>2 DEF After, Inside, Numbering
<1>4. ASSUME NEW b \in accounts'
      PROVE  \E a \in accounts : /\ b = (IF a.by = p THEN f[a] ELSE a) /\ b \in AccountRow
                                 /\ b.by = a.by /\ b.customer = a.customer /\ b.office = a.office
                                 /\ b.number = a.number
                                 /\ a.details \/ (step = "details" /\ a.by = p) => b.details
                                 /\ b.by # p => b = a
  <2>1. PICK a \in accounts : b = (IF a.by = p THEN f[a] ELSE a)
    OBVIOUS
  <2>2. a \in AccountRow
    BY DEF Tables
  <2> QED BY <2>1, <2>2
<1>5. ASSUME NEW a \in accounts
      PROVE  \E b \in accounts' : b = (IF a.by = p THEN f[a] ELSE a) /\ b.by = a.by
  <2>1. a \in AccountRow
    BY DEF Tables
  <2>2. (IF a.by = p THEN f[a] ELSE a) \in accounts'
    OBVIOUS
  <2> QED BY <2>1, <2>2
<1>6. Tables'
  <2>1. IsFiniteSet(accounts')
    <3> DEFINE F == [a \in accounts |-> IF a.by = p THEN f[a] ELSE a]
    <3>1. F \in Surjection(accounts, accounts')
      BY DEF Surjection
    <3> HIDE DEF F
    <3> QED BY <3>1, FS_Surjection DEF Tables
  <2>2. accounts' \subseteq AccountRow
    BY <1>4
  <2> QED BY <2>1, <2>2 DEF Tables
<1>7. Alike(customers, customers', p) /\ Alike(accounts, accounts', p)
  <2>1. ASSUME NEW a \in accounts, a.by # p PROVE a \in accounts'
    BY <1>5, <2>1
  <2>2. ASSUME NEW b \in accounts', b.by # p PROVE b \in accounts
    BY <1>4, <2>2
  <2> QED BY <2>1, <2>2 DEF Alike
<1>8. Alone(p) /\ Shape' /\ HeldGrows /\ p \in inTx' /\ \A o : Held(o)' = Held(o)
  BY <1>1, <1>2, <1>3, <1>6, <1>7, InsideStep
<1>9. ASSUME NEW b \in accounts', b.by = p
      PROVE  Close(b)' /\ \A c \in accounts' : b.number = c.number => b = c
  <2>1. PICK a \in accounts : b = (IF a.by = p THEN f[a] ELSE a) /\ b.by = a.by /\ b.office = a.office
                              /\ b.number = a.number
    BY <1>4
  <2>2. Close(b)'
    <3>1. PICK x \in Office : x = a.office
      BY DEF Tables, AccountRow
    <3>2. /\ a.number[1] = Prefix[x]
          /\ Roomy(x) => a.number[2] \in 1..(Cardinality(Held(x)) + Attempts)
      BY <3>1, Zenon DEF Numbered, Close
    <3>3. Held(b.office)' = Held(x)
      BY <1>8, <2>1, <3>1, Zenon
    <3>4. Cardinality(Held(b.office))' = Cardinality(Held(x)) /\ (Roomy(b.office)' <=> Roomy(x))
      BY <3>3, Zenon DEF Roomy
    <3>5. ~Committed(b)'
      BY <1>8, <1>9 DEF Committed
    <3> QED BY <2>1, <3>1, <3>2, <3>4, <3>5 DEF Close
  <2>3. ASSUME NEW c \in accounts', b.number = c.number PROVE b = c
    <3>1. PICK d \in accounts : c = (IF d.by = p THEN f[d] ELSE d) /\ c.number = d.number
      BY <1>4
    <3>2. a.number = d.number
      BY <2>1, <2>3, <3>1
    <3>3. a = d
      BY <3>2 DEF Numbered
    <3> QED BY <2>1, <3>1, <3>3
  <2> QED BY <2>2, <2>3
<1>10. OwnNumbers(p)' /\ Tried(p)'
  BY <1>3, <1>9 DEF OwnNumbers, Tried
<1>11. Owned(p)'
  <2>1. CustomerOwned(p)'
    <3>1. Pos(p)' \in {"post", "book", "receipt"} => req[p].kind = "savings"
      BY <1>1, <1>2, <1>3 DEF StepsOf, After, Kinds, Posts, HasOpening
    <3> QED BY <1>1, <1>3, <3>1 DEF Owned, CustomerOwned, Inside, Numbering, Committed
  <2>2. \E b \in accounts' : b.by = p
    <3>1. PICK a \in accounts : a.by = p
      BY <1>1 DEF Owned, AccountOwned
    <3> QED BY <1>5, <3>1
  <2>3. AccountOwned(p)'
    <3>1. ASSUME NEW b \in accounts', b.by = p
          PROVE  /\ Opens(req[p]) /\ b.details
                 /\ \E c \in customers : c.by = b.customer /\ (Committed(c) \/ c.by = p)
      <4>1. PICK a \in accounts : /\ a.by = p /\ b.customer = a.customer
                                  /\ a.details \/ (step = "details" /\ a.by = p) => b.details
        BY <1>4, <3>1
      <4>2. Opens(req[p]) /\ (step # "details" => a.details)
        BY <1>1, <4>1 DEF Owned, AccountOwned
      <4>3. \E c \in customers : c.by = a.customer /\ (Committed(c) \/ c.by = p)
        BY <1>1, <4>1 DEF Owned, AccountOwned
      <4> QED BY <4>1, <4>2, <4>3
    <3> QED BY <1>1, <1>3, <2>2, <3>1 DEF AccountOwned, Committed
  <2>4. Whole(p)'
    <3>1. ASSUME NEW t \in transactions', t.by = p
          PROVE  Posts(req[p]) /\ Pos(p)' \in {"book", "receipt", "commit"}
      <4>1. CASE t \in transactions
        <5>1. Posts(req[p]) /\ step # "details"
          BY <1>1, <3>1, <4>1 DEF Owned, Whole
        <5> QED BY <1>3, <5>1
      <4>2. CASE step \in {"post", "receipt"}
        <5>1. Posts(req[p])
          BY <1>1, <4>2 DEF StepsOf
        <5> QED BY <1>3, <4>2, <5>1
      <4> QED BY <3>1, <4>1, <4>2
    <3> QED BY <1>1, <1>3, <2>2, <3>1 DEF Whole
  <2> QED BY <2>1, <2>3, <2>4 DEF Owned
<1> QED BY <1>6, <1>8, <1>10, <1>11, StepKeeps

(* The details of an account. *)
LEMMA DetailsStep ==
  ASSUME IInv, NEW p \in Process, InsertDetails(p)
  PROVE  IInv'
<1> DEFINE f == [a \in AccountRow |-> [a EXCEPT !.details = TRUE]]
<1>1. accounts \subseteq AccountRow /\ transactions \subseteq TransactionRow
  BY DEF IInv, Tables
<1>2. f \in [AccountRow -> AccountRow]
  BY DEF AccountRow
<1>3. \A a \in AccountRow :
        /\ f[a].by = a.by /\ f[a].customer = a.customer /\ f[a].office = a.office /\ f[a].number = a.number
        /\ f[a].details
  BY DEF AccountRow
<1>4. accounts' = {IF a.by = p THEN f[a] ELSE a : a \in accounts}
  BY <1>1 DEF InsertDetails, Changed
<1>5. /\ At(p, "details") /\ Proceed(p) /\ UNCHANGED <<customers, ledgers, inTx, req, number>>
      /\ transactions' = transactions
  BY DEF InsertDetails
<1> HIDE DEF f
<1> QED BY <1>1, <1>2, <1>3, <1>4, <1>5, ChangedStep DEF Alike

(* The hand-written balance. *)
LEMMA BookStep ==
  ASSUME IInv, NEW p \in Process, SetBook(p)
  PROVE  IInv'
<1> DEFINE f == [a \in AccountRow |-> [a EXCEPT !.book = req[p].opening]]
<1>1. accounts \subseteq AccountRow /\ transactions \subseteq TransactionRow
  BY DEF IInv, Tables
<1>2. /\ At(p, "book") /\ Proceed(p) /\ UNCHANGED <<customers, ledgers, inTx, req, number>>
      /\ transactions' = transactions
  BY DEF SetBook
<1>3. req[p].opening \in Nat
  <2>1. req[p] \in Request /\ "book" \in StepsOf(req[p]) /\ req[p].kind \in Kinds
    BY <1>2, AtStep DEF IInv, Shape
  <2> QED BY <2>1, BodyIs DEF StepsOf, Kinds, CreateSavingsAccountDto
<1>4. f \in [AccountRow -> AccountRow]
  BY <1>3 DEF AccountRow
<1>5. \A a \in AccountRow :
        /\ f[a].by = a.by /\ f[a].customer = a.customer /\ f[a].office = a.office /\ f[a].number = a.number
        /\ f[a].details = a.details
  BY DEF AccountRow
<1>6. accounts' = {IF a.by = p THEN f[a] ELSE a : a \in accounts}
  BY <1>1 DEF SetBook, Changed
<1> HIDE DEF f
<1> QED BY <1>1, <1>2, <1>4, <1>5, <1>6, ChangedStep DEF Alike

(* The two transactions rows of an opening balance. *)
LEMMA PostStep ==
  ASSUME IInv, NEW p \in Process, PostOpening(p) \/ InsertReceipt(p)
  PROVE  IInv'
<1> DEFINE Same(row) == row.ref = Reference(p)
           step == IF At(p, "post") THEN "post" ELSE "receipt"
           new == [by |-> p, ref |-> Reference(p), amount |-> req[p].opening]
           f == [a \in AccountRow |-> IF PostOpening(p) THEN [a EXCEPT !.book = @ + req[p].opening] ELSE a]
<1>0. /\ accounts \subseteq AccountRow /\ transactions \subseteq TransactionRow
      /\ number \in [Process -> [attempt : 0..Attempts, value : Nat \X Nat]]
  BY DEF IInv, Shape, Trying, Tables
<1>1. At(p, step) /\ step \in {"post", "receipt"} /\ req' = req /\ number' = number
  BY DEF PostOpening, InsertReceipt, InsertTransaction
<1>2. req[p] \in Request /\ step \in StepsOf(req[p]) /\ req[p].kind \in Kinds /\ Pos(p) = step
  BY <1>1, AtStep DEF IInv, Shape
<1>3. req[p] \in CreateSavingsAccountDto
  BY <1>1, <1>2, BodyIs DEF StepsOf, Kinds
<1>4. CASE Violates(transactions, p, Same)
  <2>1. Fail(p)
    BY <1>4 DEF PostOpening, InsertReceipt, InsertTransaction
  <2> QED BY <1>0, <1>1, <1>2, <2>1, FailStep
<1>5. CASE ~Violates(transactions, p, Same)
  <2>1. /\ Proceed(p) /\ transactions' = transactions \cup {new}
        /\ UNCHANGED <<customers, ledgers, inTx>>
    BY <1>5 DEF PostOpening, InsertReceipt, InsertTransaction
  <2>2. new \in TransactionRow /\ new.by = p
    <3>1. Reference(p) \in Ref \cup (Nat \X Nat)
      BY <1>0, <1>3 DEF Reference, CreateSavingsAccountDto
    <3> QED BY <1>3, <3>1 DEF TransactionRow, CreateSavingsAccountDto
  <2>3. transactions' \subseteq TransactionRow /\ Alike(transactions, transactions', p)
    BY <1>0, <2>1, <2>2 DEF Alike
  <2>4. accounts' = {IF a.by = p THEN f[a] ELSE a : a \in accounts}
    <3>1. CASE PostOpening(p)
      BY <1>0, <1>5, <3>1 DEF PostOpening, InsertTransaction, Changed
    <3>2. CASE ~PostOpening(p)
      BY <1>0, <1>5, <3>2 DEF InsertReceipt, InsertTransaction, Changed
    <3> QED BY <3>1, <3>2
  <2>5. ASSUME NEW a \in AccountRow
        PROVE  /\ f[a] \in AccountRow /\ f[a].by = a.by /\ f[a].customer = a.customer
               /\ f[a].office = a.office /\ f[a].number = a.number /\ f[a].details = a.details
    <3>1. a.book + req[p].opening \in Nat
      BY <1>3 DEF AccountRow, CreateSavingsAccountDto
    <3> QED BY <3>1 DEF AccountRow
  <2>6. f \in [AccountRow -> AccountRow]
    BY <2>5
  <2>7. PICK k \in {"post", "receipt"} : k = step
    BY <1>1
  <2>8. PICK g \in [AccountRow -> AccountRow] : g = f
    BY <2>6
  <2> HIDE DEF f, new, step
  <2>9. /\ accounts' = {IF a.by = p THEN g[a] ELSE a : a \in accounts}
        /\ \A a \in AccountRow :
             /\ g[a].by = a.by /\ g[a].customer = a.customer /\ g[a].office = a.office
             /\ g[a].number = a.number /\ (a.details \/ k = "details" => g[a].details)
    BY <2>4, <2>5, <2>7, <2>8
  <2>10. At(p, k) /\ k \in {"details", "post", "book", "receipt"} /\ k \in {"post", "receipt"}
    BY <1>1, <2>7, Zenon
  <2>11. UNCHANGED <<customers, ledgers, inTx, req, number>> /\ Proceed(p)
    BY <1>1, <2>1
  <2> QED BY <2>3, <2>9, <2>10, <2>11, ChangedStep
<1> QED BY <1>4, <1>5

(* A commit leaves the whole work of the request, and one account more in its office. *)
LEMMA CommitStep ==
  ASSUME IInv, NEW p \in Process, Commit(p)
  PROVE  IInv'
<1> USE DEF IInv, Shape
<1>0. /\ At(p, "commit") /\ Finish(p) /\ inTx' = inTx \ {p}
      /\ UNCHANGED <<customers, accounts, ledgers, transactions, req, number>>
  BY DEF Commit, Finish, Released, rows
<1>1. req[p] \in Request /\ Pos(p) = "commit" /\ req[p].kind \in Kinds /\ Owned(p) /\ p \in inTx
  BY <1>0, AtStep DEF Rows, Connected, Inside
<1>2. Planned' /\ Pos(p)' = "idle" /\ \A q \in Process \ {p} : Pos(q)' = Pos(q)
  BY <1>0, StopMoves DEF Finish
<1>3. Alone(p)
  BY <1>0, <1>1, <1>2 DEF Alone, Alike, Writing, Connected
<1>4. Connected'
  BY <1>0, <1>2, FinishConnected
<1>5. Trying'
  <2>1. req[p] # None
    BY <1>1, OnboardingAssumption
  <2> QED BY <1>0, <1>2, <2>1 DEF Trying
<1>6. Tables'
  BY <1>0 DEF Tables
<1>7. ASSUME NEW o
      PROVE  /\ Cardinality(Held(o)) \in Nat /\ Cardinality(Held(o))' \in Nat
             /\ Cardinality(Held(o)) <= Cardinality(Held(o))'
             /\ \A a \in accounts : a.by = p /\ a.office = o => Cardinality(Held(o)) < Cardinality(Held(o))'
  <2>1. IsFiniteSet(Held(o)) /\ Cardinality(Held(o)) \in Nat
    BY HeldCounts
  <2>2. IsFiniteSet(Held(o)') /\ Held(o) \subseteq Held(o)'
    <3>1. Held(o) \subseteq Held(o)' /\ Held(o)' \subseteq accounts
      BY <1>0 DEF Held, Committed
    <3> QED BY <3>1, FS_Subset DEF Tables
  <2>3. Cardinality(Held(o)') \in Nat /\ Cardinality(Held(o)) <= Cardinality(Held(o)')
    BY <2>2, FS_Subset, FS_CardinalityType
  <2>4. ASSUME NEW a \in accounts, a.by = p, a.office = o
        PROVE  Cardinality(Held(o)) < Cardinality(Held(o)')
    <3>1. a \in Held(o)' /\ a \notin Held(o)
      BY <1>0, <1>1, <2>4 DEF Held, Committed
    <3>2. Cardinality(Held(o)) # Cardinality(Held(o)')
      BY <2>2, <3>1, FS_Subset
    <3> QED BY <2>1, <2>3, <3>2
  <2> QED BY <2>1, <2>3, <2>4
<1>8. HeldGrows
  BY <1>7 DEF HeldGrows
<1>9. OwnNumbers(p)'
  <2> SUFFICES ASSUME NEW a \in accounts', a.by = p
               PROVE  Close(a)' /\ \A b \in accounts' : a.number = b.number => a = b
    BY DEF OwnNumbers
  <2>1. a \in accounts
    BY <1>0
  <2>2. PICK x \in Office : x = a.office
    BY <2>1 DEF Tables, AccountRow
  <2>3. /\ a.number[1] = Prefix[x]
        /\ Roomy(x) => a.number[2] \in 1..(Cardinality(Held(x)) + Attempts)
    BY <2>1, <2>2, Zenon DEF Numbered, Close
  <2>4. /\ Cardinality(Held(x)) \in Nat /\ Cardinality(Held(x))' \in Nat
        /\ Cardinality(Held(x)) < Cardinality(Held(x))'
    BY <1>7, <2>1, <2>2
  <2>5. Roomy(x)' => /\ a.number[2] \in 1..(Cardinality(Held(x))' + Attempts)
                     /\ a.number[2] < Cardinality(Held(x))' + Attempts
    BY <2>3, <2>4, OnboardingAssumption DEF Roomy, Attempts
  <2>6. Held(a.office)' = Held(x)' /\ Roomy(a.office)' = Roomy(x)'
    BY <2>2, Zenon
  <2>7. Close(a)'
    BY <2>2, <2>3, <2>5, <2>6 DEF Close
  <2> QED BY <1>0, <2>1, <2>7 DEF Numbered
<1>10. Owned(p)'
  <2>1. CustomerOwned(p)'
    BY <1>0, <1>1, <1>2 DEF Owned, CustomerOwned, Inside, Numbering
  <2>2. AccountOwned(p)'
    <3>1. ASSUME NEW a \in accounts, a.by = p
          PROVE  /\ Opens(req[p]) /\ a.details
                 /\ \E c \in customers' : c.by = a.customer /\ (Committed(c)' \/ c.by = p)
      <4>1. Opens(req[p]) /\ a.details
        BY <1>1, <3>1 DEF Owned, AccountOwned
      <4>2. PICK c \in customers : c.by = a.customer /\ (Committed(c) \/ c.by = p)
        BY <1>1, <3>1 DEF Owned, AccountOwned
      <4>3. c \in customers' /\ (Committed(c)' \/ c.by = p)
        BY <1>0, <1>3, <4>2, CustomersStay
      <4> QED BY <4>1, <4>2, <4>3
    <3> QED BY <1>0, <1>1, <1>2, <3>1 DEF AccountOwned
  <2>3. Whole(p)'
    <3>1. ASSUME NEW c \in customers, c.by = p, req[p].account PROVE \E a \in accounts : a.by = p
      <4>1. Opens(req[p])
        BY <1>1, <3>1 DEF Owned, CustomerOwned, Opens
      <4> QED BY <1>1, <4>1 DEF Owned, AccountOwned
    <3> QED BY <1>0, <1>1, <1>2, <3>1 DEF Owned, Whole
  <2> QED BY <2>1, <2>2, <2>3 DEF Owned
<1>11. Tried(p)'
  BY <1>2 DEF Tried
<1> QED BY <1>2, <1>3, <1>4, <1>5, <1>6, <1>8, <1>9, <1>10, <1>11, StepKeeps

(* A ledger is written by a single statement. *)
LEMMA LedgerStep ==
  ASSUME IInv, NEW p \in Process, InsertLedger(p)
  PROVE  IInv'
<1>1. /\ At(p, "ledger") /\ Finish(p) /\ req' = req /\ number' = number
      /\ UNCHANGED <<customers, accounts, transactions>>
      /\ \/ ledgers' = ledgers
         \/ ledgers' = ledgers \cup {[by |-> p, code |-> req[p].code, parent |-> req[p].parent]}
  BY DEF InsertLedger
<1>2. req[p] \in Request /\ "ledger" \in StepsOf(req[p]) /\ req[p].kind \in Kinds /\ Pos(p) = "ledger"
  BY <1>1, AtStep DEF IInv, Shape
<1>3. p \notin inTx
  BY <1>2 DEF IInv, Shape, Connected, Inside, Numbering
<1>4. req[p] \in CreateGlAccountDto
  BY <1>2, BodyIs DEF StepsOf, Kinds
<1>5. ledgers' \subseteq LedgerRow
  BY <1>1, <1>4 DEF IInv, Tables, LedgerRow, CreateGlAccountDto
<1> QED BY <1>1, <1>2, <1>3, <1>5, RefuseStep

(* The checks before a transaction, and the look-up of the ledgers. *)
LEMMA ChecksStep ==
  ASSUME IInv, NEW p \in Process, Checks(p)
  PROVE  IInv'
<1> USE DEF rows
<1>0. ledgers \subseteq LedgerRow /\ number \in [Process -> [attempt : 0..Attempts, value : Nat \X Nat]]
      /\ Planned /\ inTx = {q \in Process : Inside(q)}
  BY DEF IInv, Shape, Tables, Trying, Connected
<1>1. CASE Check(p)
  <2>1. At(p, "check") /\ UNCHANGED <<customers, accounts, ledgers, transactions, req, number>>
    BY <1>1 DEF Check
  <2>2. Pos(p) = "check" /\ p \notin inTx /\ req[p].kind \in Kinds
    <3>1. Pos(p) = "check" /\ req[p].kind \in Kinds
      BY <1>0, <2>1, AtStep
    <3> QED BY <1>0, <3>1 DEF Inside, Numbering
  <2>3. CASE Rejected(req[p], p)
    <3>1. Finish(p)
      BY <1>1, <2>3 DEF Check
    <3> QED BY <1>0, <2>1, <2>2, <3>1, RefuseStep
  <2>4. CASE ~Rejected(req[p], p)
    <3>1. Proceed(p) /\ inTx' = inTx
      BY <1>1, <2>4 DEF Check
    <3>2. req[p].kind \in {"savings", "loan"} =>
            \E c \in customers : c.by = req[p].customer /\ (Committed(c) \/ c.by = p)
      BY <2>4 DEF Rejected, Visible
    <3> QED BY <2>1, <3>1, <3>2, CheckStep
  <2> QED BY <2>3, <2>4
<1>2. CASE CheckLinked(p)
  <2>1. At(p, "linked") /\ UNCHANGED <<customers, accounts, ledgers, transactions, req, number>>
        /\ (Finish(p) \/ (Proceed(p) /\ inTx' = inTx))
    BY <1>2 DEF CheckLinked
  <2>2. Pos(p) = "linked" /\ p \notin inTx
    <3>1. Pos(p) = "linked"
      BY <1>0, <2>1, AtStep
    <3> QED BY <1>0, <3>1 DEF Inside, Numbering
  <2>3. CASE Finish(p)
    BY <1>0, <2>1, <2>2, <2>3, RefuseStep
  <2>4. CASE Proceed(p) /\ inTx' = inTx
    BY <2>1, <2>4, CheckStep
  <2> QED BY <2>1, <2>3, <2>4
<1>3. CASE CheckParent(p)
  <2>1. At(p, "parent") /\ UNCHANGED <<customers, accounts, ledgers, transactions, req, number>>
        /\ (Finish(p) \/ (Proceed(p) /\ inTx' = inTx))
    BY <1>3 DEF CheckParent
  <2>2. Pos(p) = "parent" /\ p \notin inTx
    <3>1. Pos(p) = "parent"
      BY <1>0, <2>1, AtStep
    <3> QED BY <1>0, <3>1 DEF Inside, Numbering
  <2>3. CASE Finish(p)
    BY <1>0, <2>1, <2>2, <2>3, RefuseStep
  <2>4. CASE Proceed(p) /\ inTx' = inTx
    BY <2>1, <2>4, CheckStep
  <2> QED BY <2>1, <2>3, <2>4
<1>4. CASE CheckLedgers(p)
  <2>1. /\ At(p, "ledgers") /\ UNCHANGED <<req, number>>
        /\ Fail(p) \/ (Proceed(p) /\ UNCHANGED <<customers, accounts, ledgers, transactions, inTx>>)
    BY <1>4 DEF CheckLedgers
  <2>2. Pos(p) = "ledgers"
    BY <1>0, <2>1, AtStep
  <2>3. CASE Fail(p)
    BY <1>0, <2>1, <2>2, <2>3, FailStep
  <2>4. CASE Proceed(p) /\ UNCHANGED <<customers, accounts, ledgers, transactions, inTx>>
    BY <2>1, <2>4, CheckStep
  <2> QED BY <2>1, <2>3, <2>4
<1> QED BY <1>1, <1>2, <1>3, <1>4 DEF Checks

-----------------------------------------------------------------------------
(* The theorems.                                                             *)

(* No request has rows or a transaction at first. *)
LEMMA InitIInv == Init => IInv
<1> SUFFICES ASSUME Init PROVE IInv
  OBVIOUS
<1> USE DEF Init
<1>1. \A p \in Process : todo[p] = <<>> /\ req[p] = None /\ Pos(p) = "idle" /\ ~Inside(p)
  BY DEF Pos, Inside, Numbering
<1>2. Planned
  BY <1>1 DEF Planned
<1>3. Connected
  BY <1>1, FS_EmptySet, OnboardingAssumption DEF Connected
<1>4. Trying
  <2>1. [attempt |-> 0, value |-> <<0, 0>>] \in [attempt : 0..Attempts, value : Nat \X Nat]
    BY DEF Attempts
  <2> QED BY <2>1 DEF Trying, Attempts
<1>5. Tables
  BY FS_EmptySet, OnboardingAssumption DEF Tables
<1>6. \A p \in Process : \A row \in customers \cup accounts \cup transactions : row.by # p
  BY OnboardingAssumption
<1>7. Rows
  BY <1>1, <1>6 DEF Rows, Owned, CustomerOwned, AccountOwned, Whole, Inside, Numbering
<1>8. (\A p \in Process : Tried(p)) /\ Numbered
  BY <1>1 DEF Tried, Numbered
<1> QED BY <1>2, <1>3, <1>4, <1>5, <1>7, <1>8 DEF IInv, Shape

(* Every step keeps the inductive invariant. *)
LEMMA NextIInv == IInv /\ [Next]_vars => IInv'
<1> SUFFICES ASSUME IInv, [Next]_vars PROVE IInv'
  OBVIOUS
<1>1. ASSUME NEW p \in Process, NEW r \in Request, Start(p, r) PROVE IInv'
  BY <1>1, StartStep
<1>2. ASSUME NEW p \in Process, Checks(p) PROVE IInv'
  BY <1>2, ChecksStep
<1>3. ASSUME NEW p \in Process, Statements(p) PROVE IInv'
  BY <1>3, BeginStep, CustomerStep, CountStep, ExistsStep, AccountStep, DetailsStep, PostStep, BookStep,
     CommitStep, LedgerStep DEF Statements
<1>4. ASSUME NEW p \in Process, Crash(p) PROVE IInv'
  <2>1. Fail(p) /\ req' = req /\ number' = number /\ Pos(p) # "idle"
    BY <1>4, RunningStep DEF Crash, IInv, Shape
  <2> QED BY <2>1, FailStep DEF IInv, Shape, Trying
<1>5. CASE UNCHANGED vars
  <2> USE <1>5 DEF vars, rows
  <2>1. Shape' /\ Tables'
    BY DEF IInv, Shape, Planned, Connected, Trying, Tables, Inside, Pos
  <2>2. Rows'
    BY DEF IInv, Rows, Owned, CustomerOwned, AccountOwned, Whole, Inside, Pos, Committed
  <2>3. ASSUME NEW p \in Process PROVE Tried(p)'
    <3>1. Visible(customers, p)' = Visible(customers, p) /\ req'[p] = req[p] /\ Pos(p)' = Pos(p)
      BY DEF Visible, Committed, Pos
    <3>2. CustomerOf(p)' = CustomerOf(p)
      BY <3>1, SameCustomer
    <3>3. PICK x : x = CustomerOf(p).office
      OBVIOUS
    <3>4. x = CustomerOf(p)'.office
      BY <3>2, <3>3
    <3>5. Held(x)' = Held(x) /\ Held(CustomerOf(p).office)' = Held(x)'
      BY <3>4 DEF Held, Committed
    <3>6. Cardinality(Held(CustomerOf(p).office))' = Cardinality(Held(x))
      BY <3>5, Zenon
    <3>7. Roomy(CustomerOf(p).office)' = Roomy(x)
      BY <3>6, Zenon DEF Roomy
    <3>8. Pos(p) \in {"exists", "account"} =>
            /\ number[p].value[1] = Prefix[x]
            /\ Roomy(x) => number[p].value[2] \in 1..(Cardinality(Held(x)) + Attempts)
      BY <3>3, Zenon DEF IInv, Tried
    <3> QED BY <3>1, <3>4, <3>6, <3>7, <3>8 DEF Tried
  <2>4. Numbered'
    BY DEF IInv, Numbered, Close, Roomy, Held, Committed
  <2> QED BY <2>1, <2>2, <2>3, <2>4 DEF IInv
<1> QED BY <1>1, <1>2, <1>3, <1>4, <1>5 DEF Next

(* The inductive invariant holds in every state. *)
LEMMA Inductive == Spec => []IInv
  BY InitIInv, NextIInv, PTL DEF Spec

(* The tables keep rows of their kind, only a request with something to do holds a connection, and
   no more connections are held than the pool has. *)
THEOREM TypeCorrectness == Spec => []TypeOK
<1>1. IInv => TypeOK
  <2> SUFFICES ASSUME IInv PROVE TypeOK
    OBVIOUS
  <2>1. inTx \subseteq {p \in Process : todo[p] # <<>>}
    BY DEF IInv, Shape, Connected, Inside, Pos, Numbering
  <2> QED BY <2>1 DEF IInv, Shape, Planned, Connected, Trying, Tables, TypeOK
<1> QED BY <1>1, Inductive, PTL

(* Whatever fails or crashes between the statements of createCustomer, createSavingsAccount and
   createLoanAccount, the database keeps the whole of a request or nothing of it. *)
THEOREM NothingByHalves == Spec => []AllOrNothing
<1>1. IInv => AllOrNothing
  <2> SUFFICES ASSUME IInv PROVE AllOrNothing
    OBVIOUS
  <2> USE DEF IInv, Shape, Rows, Owned
  <2>1. ASSUME NEW row \in customers \cup accounts \cup transactions, row.by \in Process, Committed(row)
        PROVE  Owned(row.by) /\ ~Inside(row.by)
    BY <2>1 DEF Connected, Committed
  <2>2. ASSUME NEW a \in accounts, Committed(a)
        PROVE  a.details /\ \E c \in customers : Committed(c) /\ c.by = a.customer
    <3>1. a.by \in Process
      BY DEF Tables, AccountRow
    <3>2. Pos(a.by) # "details" /\ AccountOwned(a.by)
      BY <2>1, <2>2, <3>1 DEF Inside, Numbering
    <3>3. PICK c \in customers : c.by = a.customer /\ (Committed(c) \/ c.by = a.by)
      BY <3>2 DEF AccountOwned
    <3>4. Committed(c)
      BY <2>2, <3>3 DEF Committed
    <3> QED BY <3>2, <3>3, <3>4 DEF AccountOwned
  <2>3. ASSUME NEW c \in customers, Committed(c), c.by # First
        PROVE  (\E a \in accounts : a.by = c.by) = req[c.by].account
    <3>1. c.by \in Process
      BY <2>3 DEF Tables, CustomerRow
    <3>2. CustomerOwned(c.by) /\ AccountOwned(c.by) /\ Whole(c.by) /\ ~Inside(c.by)
      BY <2>1, <2>3, <3>1
    <3>3. req[c.by] \in CreateCustomerDto /\ Pos(c.by) = "idle" /\ req[c.by].kind = "customer"
      BY <3>2, BodyIs DEF CustomerOwned, Inside
    <3>4. req[c.by].account \in BOOLEAN
      BY <3>3 DEF CreateCustomerDto
    <3>5. (\E a \in accounts : a.by = c.by) => req[c.by].account
      BY <3>2, <3>3 DEF AccountOwned, Opens
    <3>6. req[c.by].account => \E a \in accounts : a.by = c.by
      BY <3>2, <3>3 DEF Whole
    <3> QED BY <3>4, <3>5, <3>6
  <2>4. ASSUME NEW t \in transactions PROVE \E a \in accounts : a.by = t.by
    <3>1. t.by \in Process
      BY DEF Tables, TransactionRow
    <3> QED BY <3>1 DEF Whole
  <2> QED BY <2>2, <2>3, <2>4 DEF AllOrNothing
<1> QED BY <1>1, Inductive, PTL

(* The account numbers of an office, counted without a lock, are all different and close to the
   number of its accounts, so that the last of the three numbers a request tries is free. *)
THEOREM NumbersClose == Spec => []NumbersStayClose
<1>1. IInv => NumbersStayClose
  <2> SUFFICES ASSUME IInv, NEW o \in Office, Cardinality(Held(o)) + Attempts < NumberSpace
               PROVE  /\ \A a \in Held(o) : a.number[2] \in 1..(Cardinality(Held(o)) + Attempts - 1)
                      /\ \A a, b \in Held(o) : a.number = b.number => a = b
                      /\ (\A k \in Office : Prefix[k] = Prefix[o] => k = o) =>
                           \A a \in accounts : Committed(a) =>
                             a.number # <<Prefix[o], Cardinality(Held(o)) + Attempts>>
    BY Zenon DEF NumbersStayClose, Held
  <2>0. Cardinality(Held(o)) \in Nat
    BY HeldCounts DEF IInv
  <2>1. ASSUME NEW a \in accounts, a.office = o, Committed(a)
        PROVE  a.number[2] \in 1..(Cardinality(Held(o)) + Attempts - 1)
    <3>1. Roomy(o)
      BY DEF Roomy
    <3>2. /\ a.number[2] \in 1..(Cardinality(Held(o)) + Attempts)
          /\ a.number[2] < Cardinality(Held(o)) + Attempts
      BY <2>1, <3>1, Zenon DEF IInv, Numbered, Close
    <3> QED BY <2>0, <3>2, OnboardingAssumption DEF Attempts
  <2>2. \A a \in Held(o) : a.number[2] \in 1..(Cardinality(Held(o)) + Attempts - 1)
    BY <2>1 DEF Held
  <2>3. \A a, b \in Held(o) : a.number = b.number => a = b
    BY DEF IInv, Numbered, Held
  <2>4. ASSUME \A k \in Office : Prefix[k] = Prefix[o] => k = o, NEW a \in accounts, Committed(a),
               a.number = <<Prefix[o], Cardinality(Held(o)) + Attempts>>
        PROVE  FALSE
    <3>1. a.office \in Office /\ a.number[1] = Prefix[a.office]
      BY DEF IInv, Tables, AccountRow, Numbered, Close
    <3>2. a.number[1] = Prefix[o] /\ a.number[2] = Cardinality(Held(o)) + Attempts
      BY <2>4
    <3>3. a.office = o
      BY <2>4, <3>1, <3>2
    <3>4. a.number[2] \in 1..(Cardinality(Held(o)) + Attempts - 1)
      BY <2>1, <2>4, <3>3
    <3> QED BY <2>0, <3>2, <3>4 DEF Attempts
  <2> QED BY <2>2, <2>3, <2>4
<1> QED BY <1>1, Inductive, PTL

-----------------------------------------------------------------------------
(* Opening balances and waiting.                                             *)

(* References are unique, and the only rows under them are those of requests that have posted and
   have not ended yet. *)
Receipts ==
  /\ \A s, t \in transactions : s.ref = t.ref => s = t
  /\ \A t \in transactions : Pos(t.by) \in {"book", "receipt"}
  /\ \A p \in Process : Pos(p) \in {"book", "receipt"} =>
       \E t \in transactions : t.by = p /\ t.ref = Reference(p)

(* The other requests go on with the references they had. *)
Apart(p) == \A q \in Process \ {p} : Pos(q)' = Pos(q) /\ Reference(q)' = Reference(q)

(* A request that ends takes its row along. *)
LEMMA RowsGo ==
  ASSUME Receipts, transactions \subseteq TransactionRow, NEW p \in Process, Apart(p),
         transactions' = Undone(transactions, p), Pos(p)' = "idle"
  PROVE  Receipts'
<1>1. \A t \in transactions' : t \in transactions /\ t.by # p /\ t.by \in Process
  BY DEF Undone, TransactionRow
<1>2. \A t \in transactions' : Pos(t.by)' \in {"book", "receipt"}
  BY <1>1 DEF Receipts, Apart
<1>3. ASSUME NEW q \in Process, Pos(q)' \in {"book", "receipt"}
      PROVE  \E t \in transactions' : t.by = q /\ t.ref = Reference(q)'
  <2>1. q # p
    BY <1>3
  <2>2. PICK t \in transactions : t.by = q /\ t.ref = Reference(q)
    BY <1>3, <2>1 DEF Receipts, Apart
  <2>3. t \in transactions' /\ Reference(q)' = Reference(q)
    BY <2>1, <2>2 DEF Undone, Apart
  <2> QED BY <2>2, <2>3
<1> QED BY <1>1, <1>2, <1>3 DEF Receipts

(* A request that is not between its two rows leaves the table alone. *)
LEMMA RowsStay ==
  ASSUME Receipts, transactions \subseteq TransactionRow, NEW p \in Process, Apart(p),
         transactions' = transactions, Pos(p) \notin {"book", "receipt"},
         Pos(p)' \notin {"book", "receipt"}
  PROVE  Receipts'
<1>1. \A t \in transactions : t.by \in Process /\ t.by # p
  BY DEF Receipts, TransactionRow
<1>2. \A t \in transactions : Pos(t.by)' \in {"book", "receipt"}
  BY <1>1 DEF Receipts, Apart
<1>3. ASSUME NEW q \in Process, Pos(q)' \in {"book", "receipt"}
      PROVE  \E t \in transactions : t.by = q /\ t.ref = Reference(q)'
  <2>1. q # p
    BY <1>3
  <2>2. PICK t \in transactions : t.by = q /\ t.ref = Reference(q)
    BY <1>3, <2>1 DEF Receipts, Apart
  <2>3. Reference(q)' = Reference(q)
    BY <2>1 DEF Apart
  <2> QED BY <2>2, <2>3
<1> QED BY <1>2, <1>3 DEF Receipts

(* The first row: the reference was free. *)
LEMMA PostedReceipts ==
  ASSUME IInv, Receipts, NEW p \in Process, PostOpening(p)
  PROVE  Receipts'
<1> DEFINE Same(row) == row.ref = Reference(p)
           new == [by |-> p, ref |-> Reference(p), amount |-> req[p].opening]
<1>1. /\ At(p, "post") /\ ~Waits(transactions, p, Same) /\ req' = req /\ number' = number
  BY DEF PostOpening, InsertTransaction
<1>2. /\ Planned /\ Trying /\ transactions \subseteq TransactionRow
  BY DEF IInv, Shape, Tables
<1>3. Pos(p) = "post" /\ req[p] \in Request /\ "post" \in StepsOf(req[p])
  BY <1>1, <1>2, AtStep
<1>4. \A q \in Process : Reference(q)' = Reference(q)
  BY <1>1 DEF Reference
<1>5. CASE Violates(transactions, p, Same)
  <2>1. Fail(p)
    BY <1>5 DEF PostOpening, InsertTransaction
  <2>2. Pos(p)' = "idle" /\ \A q \in Process \ {p} : Pos(q)' = Pos(q)
    BY <1>1, <1>2, <2>1, StopMoves DEF Fail, Finish
  <2> QED BY <1>2, <1>4, <2>1, <2>2, RowsGo DEF Fail, Apart
<1>6. CASE ~Violates(transactions, p, Same)
  <2>1. Proceed(p) /\ transactions' = transactions \cup {new}
    BY <1>6 DEF PostOpening, InsertTransaction
  <2>2. Pos(p)' = "book" /\ \A q \in Process \ {p} : Pos(q)' = Pos(q)
    BY <1>1, <1>2, <2>1, ProceedMoves DEF After
  <2>3. \A t \in transactions : t.ref # Reference(p)
    BY <1>1, <1>6 DEF Waits, Violates, Visible
  <2>4. new.by = p /\ new.ref = Reference(p)
    OBVIOUS
  <2>5. \A t \in transactions : t.by \in Process
    BY <1>2 DEF TransactionRow
  <2> HIDE DEF new
  <2>6. \A s, t \in transactions' : s.ref = t.ref => s = t
    BY <2>1, <2>3, <2>4 DEF Receipts
  <2>7. \A t \in transactions' : Pos(t.by)' \in {"book", "receipt"}
    BY <2>1, <2>2, <2>4, <2>5 DEF Receipts
  <2>8. ASSUME NEW q \in Process, Pos(q)' \in {"book", "receipt"}
        PROVE  \E t \in transactions' : t.by = q /\ t.ref = Reference(q)'
    BY <1>4, <2>1, <2>2, <2>4, <2>8 DEF Receipts
  <2> QED BY <2>6, <2>7, <2>8 DEF Receipts
<1> QED BY <1>5, <1>6

(* The second row: the reference is taken by the first one. *)
LEMMA ReceiptFails ==
  ASSUME IInv, Receipts, NEW p \in Process, InsertReceipt(p)
  PROVE  Fail(p) /\ Receipts'
<1> DEFINE Same(row) == row.ref = Reference(p)
<1>1. At(p, "receipt") /\ req' = req /\ number' = number
  BY DEF InsertReceipt, InsertTransaction
<1>2. Planned /\ transactions \subseteq TransactionRow
  BY DEF IInv, Shape, Tables
<1>3. Pos(p) = "receipt"
  BY <1>1, <1>2, AtStep
<1>4. Violates(transactions, p, Same)
  <2>1. PICK t \in transactions : t.by = p /\ t.ref = Reference(p)
    BY <1>3 DEF Receipts
  <2> QED BY <2>1 DEF Violates, Visible
<1>5. Fail(p)
  BY <1>4 DEF InsertReceipt, InsertTransaction
<1>6. Pos(p)' = "idle" /\ \A q \in Process \ {p} : Pos(q)' = Pos(q)
  BY <1>1, <1>2, <1>5, StopMoves DEF Fail, Finish
<1>7. \A q \in Process : Reference(q)' = Reference(q)
  BY <1>1 DEF Reference
<1>8. Receipts'
  BY <1>2, <1>5, <1>6, <1>7, RowsGo DEF Fail, Apart
<1> QED BY <1>5, <1>8

(* Between the two rows the balance is written. *)
LEMMA BookReceipts ==
  ASSUME IInv, Receipts, NEW p \in Process, SetBook(p)
  PROVE  Receipts'
<1>1. At(p, "book") /\ Proceed(p) /\ req' = req /\ number' = number /\ transactions' = transactions
  BY DEF SetBook
<1>2. Planned /\ transactions \subseteq TransactionRow
  BY DEF IInv, Shape, Tables
<1>3. /\ Pos(p) = "book" /\ Pos(p)' = "receipt"
      /\ \A q \in Process \ {p} : Pos(q)' = Pos(q)
  BY <1>1, <1>2, AtStep, ProceedMoves DEF After
<1>4. \A q \in Process : Reference(q)' = Reference(q)
  BY <1>1 DEF Reference
<1>5. \A t \in transactions : t.by \in Process
  BY <1>2 DEF TransactionRow
<1>6. \A t \in transactions : Pos(t.by)' \in {"book", "receipt"}
  BY <1>3, <1>5 DEF Receipts
<1>7. \A q \in Process : Pos(q)' \in {"book", "receipt"} => Pos(q) \in {"book", "receipt"}
  BY <1>3
<1> QED BY <1>1, <1>4, <1>6, <1>7 DEF Receipts

(* A statement of a request: an error, an answer, the next statement, or another try for a number.
   It writes accounts of its own. *)
Step(p, step) ==
  /\ At(p, step) /\ req' = req
  /\ \A q \in Process \ {p} : number'[q] = number[q]
  /\ \A a \in accounts' : a.by # p => \E b \in accounts : b.by = a.by
  /\ \/ Fail(p)
     \/ /\ step \in {"check", "linked", "parent", "ledger", "commit"}
        /\ Finish(p) /\ UNCHANGED <<accounts, transactions>>
     \/ /\ step \notin {"commit", "ledger"} /\ Proceed(p)
        /\ step \notin {"post", "receipt"} => transactions' = transactions
     \/ /\ step = "exists" /\ todo' = [todo EXCEPT ![p] = <<"count">> \o @]
        /\ transactions' = transactions

(* Every statement is one of those. *)
LEMMA StepIs ==
  ASSUME IInv, NEW p \in Process, Checks(p) \/ Statements(p)
  PROVE  \E step \in StepName : Step(p, step)
<1>0. /\ accounts \subseteq AccountRow /\ Trying
      /\ \A step \in StepName : Step(p, step) => \E k \in StepName : Step(p, k)
  BY DEF IInv, Shape, Tables
<1>a. accounts' = accounts \/ Fail(p) => \A a \in accounts' : a.by # p => \E b \in accounts : b.by = a.by
  BY DEF Fail, UndoneAccounts, Undone
<1>b. number' = number => \A q \in Process \ {p} : number'[q] = number[q]
  OBVIOUS
<1>c. ASSUME NEW f \in [AccountRow -> AccountRow], \A a \in AccountRow : f[a].by = a.by,
             accounts' = {IF a.by = p THEN f[a] ELSE a : a \in accounts}
      PROVE  \A a \in accounts' : a.by # p => \E b \in accounts : b.by = a.by
  BY <1>0, <1>c
<1> USE DEF rows
<1>3. CASE Check(p)
  <2>1. "check" \in StepName
    BY DEF StepName
  <2> QED BY <1>0, <1>a, <1>b, <1>3, <2>1 DEF Check, Step
<1>4. CASE CheckLinked(p)
  <2>1. "linked" \in StepName
    BY DEF StepName
  <2> QED BY <1>0, <1>a, <1>b, <1>4, <2>1 DEF CheckLinked, Step
<1>5. CASE CheckParent(p)
  <2>1. "parent" \in StepName
    BY DEF StepName
  <2> QED BY <1>0, <1>a, <1>b, <1>5, <2>1 DEF CheckParent, Step
<1>6. CASE CheckLedgers(p)
  <2>1. "ledgers" \in StepName
    BY DEF StepName
  <2> QED BY <1>0, <1>a, <1>b, <1>6, <2>1 DEF CheckLedgers, Step
<1>7. CASE Begin(p)
  <2>1. "begin" \in StepName
    BY DEF StepName
  <2> QED BY <1>0, <1>a, <1>b, <1>7, <2>1 DEF Begin, Step
<1>8. CASE InsertCustomer(p)
  <2>1. "customer" \in StepName
    BY DEF StepName
  <2> QED BY <1>0, <1>a, <1>b, <1>8, <2>1 DEF InsertCustomer, Step
<1>9. CASE CountAccounts(p)
  <2>1. "count" \in StepName
    BY DEF StepName
  <2>2. \A q \in Process \ {p} : number'[q] = number[q]
    BY <1>0, <1>9 DEF CountAccounts, Trying
  <2> QED BY <1>0, <1>a, <1>9, <2>1, <2>2 DEF CountAccounts, Step
<1>10. CASE NumberExists(p)
  <2>1. "exists" \in StepName
    BY DEF StepName
  <2>2. \A q \in Process \ {p} : number'[q] = number[q]
    BY <1>0, <1>10 DEF NumberExists, Trying
  <2> QED BY <1>0, <1>a, <1>10, <2>1, <2>2 DEF NumberExists, Step
<1>11. CASE InsertAccount(p)
  <2>1. "account" \in StepName
    BY DEF StepName
  <2>2. CASE Fail(p)
    BY <1>0, <1>a, <1>b, <1>11, <2>1, <2>2 DEF InsertAccount, Step
  <2>3. CASE ~Fail(p)
    <3> DEFINE new == [by |-> p, customer |-> CustomerOf(p).by, office |-> CustomerOf(p).office,
                         number |-> number[p].value,
                         type |-> IF req[p].kind = "loan" THEN "loan" ELSE "savings",
                         status |-> IF req[p].kind # "loan" /\ req[p].activate THEN "active" ELSE "pending",
                         book |-> IF req[p].kind = "savings" THEN req[p].opening ELSE 0, details |-> FALSE]
    <3>1. accounts' = accounts \cup {new} /\ new.by = p
      BY <1>11, <2>3 DEF InsertAccount
    <3> HIDE DEF new
    <3>2. \A a \in accounts' : a.by # p => \E b \in accounts : b.by = a.by
      BY <3>1
    <3> QED BY <1>b, <1>11, <2>1, <2>3, <3>2 DEF InsertAccount, Step
  <2> QED BY <2>2, <2>3
<1>12. CASE InsertDetails(p)
  <2>1. "details" \in StepName
    BY DEF StepName
  <2>2. accounts' = {IF a.by = p THEN [a EXCEPT !.details = TRUE] ELSE a : a \in accounts}
    BY <1>12 DEF InsertDetails, Changed
  <2>3. \A a \in AccountRow : [a EXCEPT !.details = TRUE].by = a.by
    BY DEF AccountRow
  <2>4. \A a \in accounts' : a.by # p => \E b \in accounts : b.by = a.by
    BY <1>0, <2>2, <2>3
  <2> QED BY <1>b, <1>12, <2>1, <2>4 DEF InsertDetails, Step
<1>13. CASE PostOpening(p)
  <2>1. "post" \in StepName
    BY DEF StepName
  <2>0. CASE Fail(p)
    BY <1>0, <1>a, <1>b, <1>13, <2>0, <2>1 DEF PostOpening, InsertTransaction, Step
  <2>9. CASE ~Fail(p)
    <3>2. accounts' = {IF a.by = p THEN [a EXCEPT !.book = @ + req[p].opening] ELSE a : a \in accounts}
      BY <1>13, <2>9 DEF PostOpening, InsertTransaction, Changed
    <3>3. \A a \in AccountRow : [a EXCEPT !.book = @ + req[p].opening].by = a.by
      BY DEF AccountRow
    <3>4. \A a \in accounts' : a.by # p => \E b \in accounts : b.by = a.by
      BY <1>0, <3>2, <3>3
    <3> QED BY <1>b, <1>13, <2>1, <2>9, <3>4 DEF PostOpening, InsertTransaction, Step
  <2> QED BY <2>0, <2>9
<1>14. CASE SetBook(p)
  <2>1. "book" \in StepName
    BY DEF StepName
  <2>2. accounts' = {IF a.by = p THEN [a EXCEPT !.book = req[p].opening] ELSE a : a \in accounts}
    BY <1>14 DEF SetBook, Changed
  <2>3. \A a \in AccountRow : [a EXCEPT !.book = req[p].opening].by = a.by
    BY DEF AccountRow
  <2>4. \A a \in accounts' : a.by # p => \E b \in accounts : b.by = a.by
    BY <1>0, <2>2, <2>3
  <2> QED BY <1>b, <1>14, <2>1, <2>4 DEF SetBook, Step
<1>15. CASE InsertReceipt(p)
  <2>1. "receipt" \in StepName
    BY DEF StepName
  <2>0. CASE Fail(p)
    BY <1>0, <1>a, <1>b, <1>15, <2>0, <2>1 DEF InsertReceipt, InsertTransaction, Step
  <2>9. CASE ~Fail(p)
    <3>1. accounts' = {IF a.by = p THEN a ELSE a : a \in accounts}
      BY <1>15, <2>9 DEF InsertReceipt, InsertTransaction, Changed
    <3>2. accounts' = accounts
      BY <3>1
    <3> QED BY <1>a, <1>b, <1>15, <2>1, <2>9, <3>2 DEF InsertReceipt, InsertTransaction, Step
  <2> QED BY <2>0, <2>9
<1>16. CASE Commit(p)
  <2>1. "commit" \in StepName
    BY DEF StepName
  <2> QED BY <1>0, <1>a, <1>b, <1>16, <2>1 DEF Commit, Step
<1>17. CASE InsertLedger(p)
  <2>1. "ledger" \in StepName
    BY DEF StepName
  <2> QED BY <1>0, <1>a, <1>b, <1>17, <2>1 DEF InsertLedger, Step
<1> QED BY <1>3, <1>4, <1>5, <1>6, <1>7, <1>8, <1>9, <1>10, <1>11, <1>12, <1>13, <1>14, <1>15, <1>16, <1>17
        DEF Checks, Statements

(* Where a statement leads its request, and that the others stay where they are. *)
LEMMA StepMoves ==
  ASSUME Planned, NEW p \in Process, NEW step \in StepName, Step(p, step)
  PROVE  /\ Apart(p) /\ Pos(p) = step
         /\ \A q \in Process \ {p} : req'[q] = req[q]
         /\ \/ Fail(p) /\ Pos(p)' = "idle"
            \/ /\ step \in {"check", "linked", "parent", "ledger", "commit"} /\ Pos(p)' = "idle"
               /\ UNCHANGED <<accounts, transactions>>
            \/ /\ step \notin {"commit", "ledger"} /\ Pos(p)' = After(req[p], step)
               /\ step \notin {"post", "receipt"} => transactions' = transactions
            \/ step = "exists" /\ Pos(p)' = "count" /\ transactions' = transactions
<1>1. At(p, step) /\ req' = req /\ Pos(p) = step
  BY AtStep DEF Step
<1>2. \A q \in Process \ {p} : Reference(q)' = Reference(q)
  BY DEF Step, Reference
<1>3. CASE Fail(p) \/ Finish(p)
  <2>1. Pos(p)' = "idle" /\ \A q \in Process \ {p} : Pos(q)' = Pos(q)
    BY <1>1, <1>3, StopMoves DEF Fail, Finish
  <2>2. \/ Fail(p)
        \/ /\ step \in {"check", "linked", "parent", "ledger", "commit"}
           /\ UNCHANGED <<accounts, transactions>>
        \/ Proceed(p) \/ (step = "exists" /\ todo' = [todo EXCEPT ![p] = <<"count">> \o @])
    BY DEF Step
  <2>3. ~Proceed(p) \/ step = "commit" \/ step = "ledger"
    <3>1. ASSUME Proceed(p), step \notin {"commit", "ledger"} PROVE FALSE
      <4>1. Pos(p)' = After(req[p], step)
        BY <1>1, <3>1, ProceedMoves
      <4> QED BY <2>1, <3>1, <4>1 DEF After, StepName
    <3> QED BY <3>1
  <2>4. ~(step = "exists" /\ todo' = [todo EXCEPT ![p] = <<"count">> \o @])
    BY <1>1, <2>1, RetryMoves
  <2>5. \/ Fail(p)
        \/ /\ step \in {"check", "linked", "parent", "ledger", "commit"}
           /\ UNCHANGED <<accounts, transactions>>
    BY <2>3, <2>4 DEF Step
  <2> QED BY <1>1, <1>2, <2>1, <2>5 DEF Apart
<1>4. CASE step \notin {"commit", "ledger"} /\ Proceed(p) /\
           (step \notin {"post", "receipt"} => transactions' = transactions)
  <2>1. Pos(p)' = After(req[p], step) /\ \A q \in Process \ {p} : Pos(q)' = Pos(q)
    BY <1>1, <1>4, ProceedMoves
  <2> QED BY <1>1, <1>2, <1>4, <2>1 DEF Apart
<1>5. CASE /\ step = "exists" /\ todo' = [todo EXCEPT ![p] = <<"count">> \o @]
           /\ transactions' = transactions
  <2>1. Pos(p)' = "count" /\ \A q \in Process \ {p} : Pos(q)' = Pos(q)
    BY <1>1, <1>5, RetryMoves
  <2> QED BY <1>1, <1>2, <1>5, <2>1 DEF Apart
<1> QED BY <1>3, <1>4, <1>5 DEF Step

(* A request comes to the three statements of its opening balance by themselves. *)
LEMMA OtherSteps ==
  ASSUME NEW p, Checks(p) \/ Statements(p), ~(PostOpening(p) \/ SetBook(p) \/ InsertReceipt(p))
  PROVE  ~At(p, "post") /\ ~At(p, "book") /\ ~At(p, "receipt")
<1>1. /\ (Check(p) => At(p, "check")) /\ (CheckLinked(p) => At(p, "linked")) /\ (CheckParent(p) => At(p, "parent"))
      /\ (CheckLedgers(p) => At(p, "ledgers")) /\ (Begin(p) => At(p, "begin")) /\ (InsertCustomer(p) => At(p, "customer"))
      /\ (CountAccounts(p) => At(p, "count")) /\ (NumberExists(p) => At(p, "exists")) /\ (InsertAccount(p) => At(p, "account"))
      /\ (InsertDetails(p) => At(p, "details")) /\ (Commit(p) => At(p, "commit")) /\ (InsertLedger(p) => At(p, "ledger"))
  BY DEF Check, CheckLinked, CheckParent, CheckLedgers, Begin, InsertCustomer, CountAccounts,
     NumberExists, InsertAccount, InsertDetails, Commit, InsertLedger
<1> SUFFICES ASSUME NEW step \in {"post", "book", "receipt"}, At(p, step)
             PROVE  FALSE
  OBVIOUS
<1>2. \A other : At(p, other) => other = step
  BY DEF At
<1>3. ~Checks(p)
  BY <1>1, <1>2 DEF Checks
<1>4. ~Statements(p)
  BY <1>1, <1>2 DEF Statements
<1> QED BY <1>3, <1>4

(* Every other statement writes no transactions row. *)
LEMMA OtherReceipts ==
  ASSUME IInv, Receipts, NEW p \in Process, NEW step \in StepName \ {"post", "book", "receipt"},
         Step(p, step)
  PROVE  Receipts'
<1>1. Planned /\ transactions \subseteq TransactionRow
  BY DEF IInv, Shape, Tables
<1>2. Apart(p) /\ Pos(p) = step
  BY <1>1, StepMoves
<1>3. \/ Fail(p) /\ Pos(p)' = "idle"
      \/ transactions' = transactions /\ Pos(p)' \in {"idle", "count", After(req[p], step)}
  BY <1>1, StepMoves
<1>4. After(req[p], step) \notin {"book", "receipt"}
  BY DEF After, StepName
<1>5. CASE Fail(p) /\ Pos(p)' = "idle"
  BY <1>1, <1>2, <1>5, RowsGo DEF Fail
<1>6. CASE transactions' = transactions /\ Pos(p)' \in {"idle", "count", After(req[p], step)}
  BY <1>1, <1>2, <1>4, <1>6, RowsStay
<1> QED BY <1>3, <1>5, <1>6

(* Every step keeps the rows unique and in the hands of those who have not ended. *)
LEMMA NextReceipts == IInv /\ Receipts /\ [Next]_vars => Receipts'
<1> SUFFICES ASSUME IInv, Receipts, [Next]_vars PROVE Receipts'
  OBVIOUS
<1>1. Planned /\ Trying /\ transactions \subseteq TransactionRow
  BY DEF IInv, Shape, Tables
<1>2. ASSUME NEW p \in Process, NEW r \in Request, Start(p, r) PROVE Receipts'
  <2>1. /\ Pos(p) = "idle" /\ Pos(p)' = "check"
        /\ \A q \in Process \ {p} : Pos(q)' = Pos(q) /\ req'[q] = req[q]
    BY <1>1, <1>2, StartMoves
  <2>2. transactions' = transactions /\ number' = number
    BY <1>2 DEF Start, rows
  <2>3. Apart(p)
    BY <2>1, <2>2 DEF Apart, Reference
  <2> QED BY <1>1, <2>1, <2>2, <2>3, RowsStay
<1>3. ASSUME NEW p \in Process, Checks(p) \/ Statements(p) PROVE Receipts'
  <2>1. CASE PostOpening(p) \/ SetBook(p) \/ InsertReceipt(p)
    BY <2>1, PostedReceipts, ReceiptFails, BookReceipts
  <2>2. CASE ~(PostOpening(p) \/ SetBook(p) \/ InsertReceipt(p))
    <3>1. PICK step \in StepName : Step(p, step)
      BY <1>3, StepIs
    <3>2. step \notin {"post", "book", "receipt"}
      BY <1>3, <2>2, <3>1, OtherSteps DEF Step
    <3> QED BY <3>1, <3>2, OtherReceipts
  <2> QED BY <2>1, <2>2
<1>4. ASSUME NEW p \in Process, Crash(p) PROVE Receipts'
  <2>1. Fail(p) /\ req' = req /\ number' = number
    BY <1>4 DEF Crash
  <2>2. Pos(p)' = "idle" /\ \A q \in Process \ {p} : Pos(q)' = Pos(q)
    BY <1>1, <2>1, StopMoves DEF Fail, Finish
  <2>3. Apart(p)
    BY <2>1, <2>2 DEF Apart, Reference
  <2> QED BY <1>1, <2>1, <2>2, <2>3, RowsGo DEF Fail
<1>5. CASE UNCHANGED vars
  BY <1>5 DEF vars, rows, Receipts, Pos, Reference
<1> QED BY <1>2, <1>3, <1>4, <1>5 DEF Next

(* At first there are no rows. *)
LEMMA InitReceipts == Init => Receipts
  BY DEF Init, Receipts, Pos

(* The references stay unique. *)
LEMMA ReceiptsHold == Spec => []Receipts
  BY Inductive, InitReceipts, NextReceipts, PTL DEF Spec

(* A request with an opening balance to post does not come to its commit, and has no account when
   it has ended. *)
Unposted ==
  \A p \in Process : Posts(req[p]) =>
    /\ Pos(p) # "commit"
    /\ Pos(p) = "idle" => \A a \in accounts : a.by # p

(* No statement brings such a request to its commit: the last one before it fails. *)
LEMMA NextUnposted == IInv /\ Receipts /\ Unposted /\ [Next]_vars => Unposted'
<1> SUFFICES ASSUME IInv, Receipts, Unposted, [Next]_vars, NEW q \in Process, Posts(req[q])'
             PROVE  Pos(q)' # "commit" /\ (Pos(q)' = "idle" => \A a \in accounts' : a.by # q)
  BY DEF Unposted
<1>1. Planned /\ AccountOwned(q)
  BY DEF IInv, Shape, Rows, Owned
<1>2. ASSUME NEW p \in Process, NEW r \in Request, Start(p, r)
      PROVE  Pos(q)' # "commit" /\ (Pos(q)' = "idle" => \A a \in accounts' : a.by # q)
  <2>1. /\ Pos(p)' = "check"
        /\ \A o \in Process \ {p} : Pos(o)' = Pos(o) /\ req'[o] = req[o]
    BY <1>1, <1>2, StartMoves
  <2>2. accounts' = accounts
    BY <1>2 DEF Start, rows
  <2> QED BY <2>1, <2>2 DEF Unposted, Posts, HasOpening
<1>3. ASSUME NEW p \in Process, Checks(p) \/ Statements(p)
      PROVE  Pos(q)' # "commit" /\ (Pos(q)' = "idle" => \A a \in accounts' : a.by # q)
  <2>1. PICK step \in StepName : Step(p, step)
    BY <1>3, StepIs
  <2>2. req' = req /\ Posts(req[q]) /\ \A a \in accounts' : a.by # p => \E b \in accounts : b.by = a.by
    BY <2>1 DEF Step, Posts, HasOpening
  <2>3. CASE q # p
    <3>1. Pos(q)' = Pos(q)
      BY <1>1, <2>1, <2>3, StepMoves DEF Apart
    <3> QED BY <2>2, <2>3, <3>1 DEF Unposted
  <2>4. CASE q = p
    <3>1. Pos(p) = step /\ step # "commit" /\ req[p].kind = "savings"
      BY <1>1, <2>1, <2>2, <2>4, StepMoves DEF Unposted, Posts, HasOpening
    <3>2. CASE Fail(p) /\ Pos(p)' = "idle"
      BY <2>4, <3>2 DEF Fail, UndoneAccounts, Undone
    <3>3. CASE step \in {"check", "linked", "parent", "ledger"} /\ Pos(p)' = "idle" /\ accounts' = accounts
      BY <1>1, <2>4, <3>1, <3>3 DEF AccountOwned
    <3>4. CASE step \notin {"commit", "ledger"} /\ Pos(p)' = After(req[p], step)
      <4>1. CASE step = "receipt"
        <5>1. InsertReceipt(p)
          BY <1>3, <2>1, <4>1, OtherSteps DEF Step, PostOpening, SetBook, At
        <5>2. Fail(p)
          BY <5>1, ReceiptFails
        <5>3. Pos(p)' = "idle"
          BY <1>1, <5>2, <2>2, StopMoves DEF Fail, Finish
        <5> QED BY <2>4, <5>2, <5>3 DEF Fail, UndoneAccounts, Undone
      <4>2. CASE step # "receipt"
        <5>1. After(req[p], step) \notin {"commit", "idle"}
          <6>1. step \in StepsOf(req[p])
            BY <1>1, <2>1, AtStep DEF Step
          <6>2. step \in {"check", "ledgers", "begin", "count", "exists", "account", "details", "post", "book"}
            BY <3>1, <4>2, <6>1 DEF StepsOf
          <6> QED BY <2>2, <2>4, <3>1, <6>2 DEF After
        <5> QED BY <2>4, <3>4, <5>1
      <4> QED BY <4>1, <4>2
    <3>5. CASE Pos(p)' = "count"
      BY <2>4, <3>5
    <3> QED BY <1>1, <2>1, <3>1, <3>2, <3>3, <3>4, <3>5, StepMoves
  <2> QED BY <2>3, <2>4
<1>4. ASSUME NEW p \in Process, Crash(p)
      PROVE  Pos(q)' # "commit" /\ (Pos(q)' = "idle" => \A a \in accounts' : a.by # q)
  <2>1. Fail(p) /\ req' = req
    BY <1>4 DEF Crash
  <2>2. Pos(p)' = "idle" /\ \A o \in Process \ {p} : Pos(o)' = Pos(o)
    BY <1>1, <2>1, StopMoves DEF Fail, Finish
  <2>3. accounts' = {a \in accounts : a.by # p}
    BY <2>1 DEF Fail, UndoneAccounts, Undone
  <2> QED BY <2>1, <2>2, <2>3 DEF Unposted, Posts, HasOpening
<1>5. CASE UNCHANGED vars
  BY <1>5 DEF vars, rows, Unposted, Pos, Posts, HasOpening
<1> QED BY <1>2, <1>3, <1>4, <1>5 DEF Next

(* createSavingsAccount posts an opening balance and then inserts a second row under the reference
   of the posting: an account that is activated with an opening balance is never opened, and no row
   of such a posting is ever committed. *)
NeverPosted ==
  /\ \A t \in transactions : ~Committed(t)
  /\ \A a \in accounts : Committed(a) => ~Posts(req[a.by])

(* Nothing is committed for an opening balance that is to be posted, whatever the requests do. *)
THEOREM OpeningBalancesAreNeverPosted == Spec => []NeverPosted
<1>1. Init => Unposted
  BY OnboardingAssumption DEF Init, Unposted, Pos
<1>2. IInv /\ Receipts /\ Unposted => NeverPosted
  <2> SUFFICES ASSUME IInv, Receipts, Unposted PROVE NeverPosted
    OBVIOUS
  <2>1. inTx = {q \in Process : Inside(q)}
    BY DEF IInv, Shape, Connected
  <2>2. ASSUME NEW t \in transactions PROVE t.by \in inTx
    <3>1. t.by \in Process /\ Pos(t.by) \in {"book", "receipt"}
      BY DEF IInv, Tables, TransactionRow, Receipts
    <3> QED BY <2>1, <3>1 DEF Inside
  <2>3. ASSUME NEW a \in accounts, Committed(a), Posts(req[a.by]) PROVE FALSE
    <3>1. a.by \in Process
      BY DEF IInv, Tables, AccountRow
    <3>2. Pos(a.by) \in {"idle", "details", "post", "book", "receipt", "commit"} /\ ~Inside(a.by)
      BY <2>1, <2>3, <3>1 DEF IInv, Rows, Owned, AccountOwned, Committed
    <3>3. Pos(a.by) = "idle"
      BY <3>2 DEF Inside, Numbering
    <3> QED BY <2>3, <3>1, <3>3 DEF Unposted
  <2> QED BY <2>2, <2>3 DEF NeverPosted, Committed
<1> QED BY <1>1, <1>2, Inductive, ReceiptsHold, NextUnposted, PTL DEF Spec

(* Among open transactions, a request waits only for one that is further in its plan: a customer for
   an account or its opening balance, an account for an opening balance, and that one for nobody. *)
LEMMA TransactionsDoNotCircle ==
  ASSUME IInv, Receipts, NEW p \in inTx, \A q \in inTx : Blocked(q) /\ ~At(q, "ledgers")
  PROVE  FALSE
<1>1. Planned /\ inTx = {q \in Process : Inside(q)}
  BY DEF IInv, Shape, Connected
<1>2. ASSUME NEW q \in inTx
      PROVE  /\ Pos(q) \in {"customer", "account", "post", "receipt"} /\ At(q, Pos(q))
             /\ Pos(q) = "customer" => Waits(customers, q, LAMBDA row : row.email = req[q].email)
             /\ Pos(q) = "account" => Waits(accounts, q, LAMBDA row : row.number = number[q].value)
             /\ Pos(q) \in {"post", "receipt"} =>
                  Waits(transactions, q, LAMBDA row : row.ref = Reference(q))
  <2>1. q \in Process /\ Inside(q) /\ Blocked(q) /\ OwnConnection(q) /\ ~At(q, "ledgers")
    BY <1>1, <1>2 DEF OwnConnection
  <2>2. \A step : At(q, step) => Pos(q) = step
    BY DEF At, Pos
  <2>3. todo[q] # <<>> /\ At(q, Pos(q))
    BY <2>1 DEF Inside, Pos, At, Numbering
  <2>4. Pos(q) \notin OnThePool
    BY <2>1, <2>3 DEF Inside, Numbering, OnThePool
  <2>5. /\ ~\E step \in OnThePool : At(q, step)
        /\ At(q, "customer") <=> Pos(q) = "customer"
        /\ At(q, "account") <=> Pos(q) = "account"
        /\ At(q, "post") \/ At(q, "receipt") <=> Pos(q) \in {"post", "receipt"}
    BY <2>2, <2>3, <2>4
  <2> QED BY <2>1, <2>3, <2>5 DEF Blocked
<1>3. ASSUME NEW q \in inTx, Pos(q) = "receipt" PROVE FALSE
  <2>1. PICK t \in transactions : t.ref = Reference(q) /\ t.by # q
    BY <1>2, <1>3 DEF Waits
  <2>2. PICK s \in transactions : s.by = q /\ s.ref = Reference(q)
    BY <1>1, <1>3 DEF Receipts
  <2> QED BY <2>1, <2>2 DEF Receipts
<1>4. ASSUME NEW q \in inTx, Pos(q) = "post" PROVE FALSE
  <2>1. PICK t \in transactions : t.by \in inTx
    BY <1>2, <1>4 DEF Waits, Committed
  <2>2. Pos(t.by) \in {"book", "receipt"}
    BY DEF Receipts
  <2> QED BY <1>2, <1>3, <2>1, <2>2
<1>5. ASSUME NEW q \in inTx, Pos(q) = "account" PROVE FALSE
  <2>1. PICK a \in accounts : a.by \in inTx
    BY <1>2, <1>5 DEF Waits, Committed
  <2>2. Pos(a.by) \in {"details", "post", "book", "receipt", "commit"}
    <3>1. a.by \in Process /\ Inside(a.by)
      BY <1>1, <2>1
    <3> QED BY <3>1 DEF IInv, Rows, Owned, AccountOwned, Inside, Numbering
  <2> QED BY <1>2, <1>3, <1>4, <2>1, <2>2
<1>6. ASSUME NEW q \in inTx, Pos(q) = "customer" PROVE FALSE
  <2>1. PICK c \in customers : c.by \in inTx
    BY <1>2, <1>6 DEF Waits, Committed
  <2>2. Pos(c.by) \in Numbering \cup {"ledgers", "commit"}
    <3>1. c.by \in Process /\ Inside(c.by)
      BY <1>1, <2>1
    <3> QED BY <3>1 DEF IInv, Rows, Owned, CustomerOwned, Inside, Numbering
  <2> QED BY <1>2, <1>5, <2>1, <2>2 DEF Numbering
<1> QED BY <1>2, <1>3, <1>4, <1>5, <1>6

(* Requests that wait for each other's rows never do so in a circle: if all that run wait, all
   connections are held by transactions, and one of them asks for a second connection to look up
   its ledgers. *)
THEOREM OnlyThePoolBlocks == Spec => []StuckOnlyOnThePool
<1>1. IInv /\ Receipts => StuckOnlyOnThePool
  <2> SUFFICES ASSUME IInv, Receipts, NEW p \in Process, todo[p] # <<>>,
                      \A q \in Process : todo[q] # <<>> => Blocked(q)
               PROVE  Cardinality(inTx) = PoolSize /\ \E q \in inTx : At(q, "ledgers")
    BY DEF StuckOnlyOnThePool
  <2>1. /\ Planned /\ inTx = {q \in Process : Inside(q)} /\ IsFiniteSet(inTx)
        /\ Cardinality(inTx) <= PoolSize
    BY DEF IInv, Shape, Connected
  <2>2. \A q \in inTx : q \in Process /\ todo[q] # <<>> /\ Blocked(q)
    BY <2>1 DEF Inside, Pos, Numbering
  <2>3. \A q \in Process : \A step \in OnThePool : todo[q] # <<>> /\ At(q, step) => ~ConnectionFree
    <3> SUFFICES ASSUME NEW q \in Process, NEW step \in OnThePool, todo[q] # <<>>, At(q, step)
                 PROVE  ~ConnectionFree
      OBVIOUS
    <3>1. Blocked(q)
      OBVIOUS
    <3>2. \A other \in {"count", "customer", "account", "post", "receipt"} : ~At(q, other)
      BY DEF At, OnThePool
    <3> QED BY <3>1, <3>2 DEF Blocked
  <2>4. CASE ConnectionFree
    <3>1. \A q \in inTx : Blocked(q) /\ ~At(q, "ledgers")
      BY <2>2, <2>3, <2>4 DEF OnThePool
    <3>2. p \in inTx
      <4>1. Pos(p) \in {"count", "customer", "account", "post", "receipt"}
        BY <2>4 DEF Blocked, At, Pos
      <4> QED BY <2>1, <4>1 DEF Inside, Numbering
    <3> QED BY <3>1, <3>2, TransactionsDoNotCircle
  <2>5. CASE ~ConnectionFree
    <3>1. Cardinality(inTx) = PoolSize /\ PoolSize \in Nat \ {0}
      <4>1. Cardinality(inTx) \in Nat
        BY <2>1, FS_CardinalityType
      <4> QED BY <2>1, <2>5, <4>1, OnboardingAssumption DEF ConnectionFree
    <3>2. inTx # {}
      BY <3>1, FS_EmptySet
    <3>3. \E q \in inTx : At(q, "ledgers")
      BY <2>2, <3>2, TransactionsDoNotCircle
    <3> QED BY <3>1, <3>3
  <2> QED BY <2>4, <2>5
<1> QED BY <1>1, Inductive, ReceiptsHold, PTL
=============================================================================
