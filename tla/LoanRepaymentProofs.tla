------------------------ MODULE LoanRepaymentProofs -------------------------
(***************************************************************************)
(* Proofs about LoanRepayment, for any loans, schedules, strategies,       *)
(* workers, accounts and histories.                                        *)
(***************************************************************************)
EXTENDS LoanRepayment, SumTheorems, SequenceTheorems, TLAPS

-----------------------------------------------------------------------------
(* One instalment.                                                           *)

(* A strategy names the three buckets one after the other. *)
LEMMA StrategyIs ==
  ASSUME NEW l \in Loan
  PROVE  LET s == Strategy[l] IN
         /\ s[1] \in Bucket /\ s[2] \in Bucket /\ s[3] \in Bucket
         /\ s[1] # s[2] /\ s[1] # s[3] /\ s[2] # s[3]
         /\ Before(s, s[1]) = {} /\ Before(s, s[2]) = {s[1]} /\ Before(s, s[3]) = {s[1], s[2]}
         /\ \A b \in Bucket : b = s[1] \/ b = s[2] \/ b = s[3]
<1> DEFINE s == Strategy[l]
<1>1. s \in [1..3 -> Bucket] /\ {s[i] : i \in 1..3} = Bucket
  BY RepaymentAssumption
<1>2. s[1] \in Bucket /\ s[2] \in Bucket /\ s[3] \in Bucket
  BY <1>1
<1>3. {s[i] : i \in 1..3} = {s[1], s[2], s[3]}
  <2>1. 1..3 = {1, 2, 3}
    OBVIOUS
  <2> QED BY <2>1
<1>4. s[1] # s[2] /\ s[1] # s[3] /\ s[2] # s[3] /\ \A b \in Bucket : b = s[1] \/ b = s[2] \/ b = s[3]
  BY <1>1, <1>2, <1>3 DEF Bucket
<1>5. /\ {j \in 1..3 : \E k \in (j+1)..3 : s[k] = s[1]} = {}
      /\ {j \in 1..3 : \E k \in (j+1)..3 : s[k] = s[2]} = {1}
      /\ {j \in 1..3 : \E k \in (j+1)..3 : s[k] = s[3]} = {1, 2}
  <2>1. \A j \in 1..3 : \A k \in (j+1)..3 : (j = 1 /\ k \in {2, 3}) \/ (j = 2 /\ k = 3)
    OBVIOUS
  <2>2. 2 \in (1+1)..3 /\ 3 \in (1+1)..3 /\ 3 \in (2+1)..3
    OBVIOUS
  <2>3. {j \in 1..3 : \E k \in (j+1)..3 : s[k] = s[1]} = {}
    BY <1>4, <2>1
  <2>4. {j \in 1..3 : \E k \in (j+1)..3 : s[k] = s[2]} = {1}
    BY <1>4, <2>1, <2>2
  <2>5. {j \in 1..3 : \E k \in (j+1)..3 : s[k] = s[3]} = {1, 2}
    BY <1>4, <2>1, <2>2
  <2> QED BY <2>3, <2>4, <2>5
<1>6. Before(s, s[1]) = {}
  BY <1>5, Zenon DEF Before
<1>7. Before(s, s[2]) = {s[1]}
  <2>1. Before(s, s[2]) = {s[i] : i \in {1}}
    BY <1>5, Zenon DEF Before
  <2> QED BY <2>1
<1>8. Before(s, s[3]) = {s[1], s[2]}
  <2>1. Before(s, s[3]) = {s[i] : i \in {1, 2}}
    BY <1>5, Zenon DEF Before
  <2> QED BY <2>1
<1> QED BY <1>2, <1>4, <1>6, <1>7, <1>8

(* The buckets of a strategy add up to all buckets. *)
LEMMA SumOfStrategy ==
  ASSUME NEW l \in Loan, NEW f \in [Bucket -> Int]
  PROVE  Sum(f) = f[Strategy[l][1]] + f[Strategy[l][2]] + f[Strategy[l][3]] /\ Sum(f) \in Int
<1>1. f["P"] \in Int /\ f["C"] \in Int /\ f["I"] \in Int
  BY DEF Bucket
<1> QED BY <1>1, StrategyIs DEF Sum, Bucket

(* What the buckets take of an amount: none more than it is owed, all together not more than there
   is, everything if something is left, and a bucket only what those before it leave. *)
TakesInOrder(l, avail, owed, take) ==
  /\ take \in Amounts
  /\ \A b \in Bucket : take[b] <= owed[b]
  /\ Sum(take) <= avail
  /\ Sum(take) < avail => \A b \in Bucket : take[b] = owed[b]
  /\ \A i, j \in 1..3 : i < j /\ take[Strategy[l][j]] > 0 =>
       take[Strategy[l][i]] = owed[Strategy[l][i]]

(* That is what Taken computes. *)
LEMMA TakenIs ==
  ASSUME NEW l \in Loan, NEW avail \in Nat, NEW owed \in Amounts,
         NEW take, take = Taken(avail, owed, Strategy[l])
  PROVE  TakesInOrder(l, avail, owed, take)
<1> DEFINE s == Strategy[l]
           o1 == owed[s[1]]  o2 == owed[s[2]]  o3 == owed[s[3]]
<1>1. /\ s[1] \in Bucket /\ s[2] \in Bucket /\ s[3] \in Bucket
      /\ s[1] # s[2] /\ s[1] # s[3] /\ s[2] # s[3]
      /\ Before(s, s[1]) = {} /\ Before(s, s[2]) = {s[1]} /\ Before(s, s[3]) = {s[1], s[2]}
      /\ \A b \in Bucket : b = s[1] \/ b = s[2] \/ b = s[3]
  BY StrategyIs
<1>2. o1 \in Nat /\ o2 \in Nat /\ o3 \in Nat
  BY <1>1 DEF Amounts
<1>3. SumFunctionOnSet(owed, {}) = 0
  BY SumEmpty
<1>4. SumFunctionOnSet(owed, {s[1]}) = o1
  BY <1>2, SumOne
<1>5. SumFunctionOnSet(owed, {s[1], s[2]}) = o1 + o2
  <2>1. IsFiniteSet({s[1]})
    BY FS_Singleton
  <2>2. SumFunctionOnSet(owed, {s[1]} \cup {s[2]}) = o2 + o1
    <3> HIDE DEF s
    <3>1. s[2] \notin {s[1]} /\ \A x \in {s[1]} \cup {s[2]} : owed[x] \in Int
      BY <1>1, <1>2
    <3>2. SumFunctionOnSet(owed, {s[1]} \cup {s[2]}) = owed[s[2]] + SumFunctionOnSet(owed, {s[1]})
      BY <2>1, <3>1, SumAdd
    <3> QED BY <1>4, <3>2
  <2>3. {s[1]} \cup {s[2]} = {s[1], s[2]}
    OBVIOUS
  <2>4. SumFunctionOnSet(owed, {s[1], s[2]}) = o2 + o1
    BY <2>2, <2>3, Zenon
  <2> QED BY <1>2, <2>4
<1>6. /\ take[s[1]] = Smaller(o1, Larger(0, avail - 0))
      /\ take[s[2]] = Smaller(o2, Larger(0, avail - o1))
      /\ take[s[3]] = Smaller(o3, Larger(0, avail - (o1 + o2)))
  <2>1. \A b \in Bucket :
          take[b] = Smaller(owed[b], Larger(0, avail - SumFunctionOnSet(owed, Before(s, b))))
    BY DEF Taken
  <2>2. take[s[1]] = Smaller(o1, Larger(0, avail - SumFunctionOnSet(owed, Before(s, s[1]))))
    BY <1>1, <2>1
  <2>3. take[s[2]] = Smaller(o2, Larger(0, avail - SumFunctionOnSet(owed, Before(s, s[2]))))
    BY <1>1, <2>1
  <2>4. take[s[3]] = Smaller(o3, Larger(0, avail - SumFunctionOnSet(owed, Before(s, s[3]))))
    BY <1>1, <2>1
  <2>5. /\ SumFunctionOnSet(owed, Before(s, s[1])) = 0
        /\ SumFunctionOnSet(owed, Before(s, s[2])) = o1
        /\ SumFunctionOnSet(owed, Before(s, s[3])) = o1 + o2
    BY <1>1, <1>3, <1>4, <1>5, Zenon
  <2> QED BY <2>2, <2>3, <2>4, <2>5, Zenon
<1>7. take = [b \in Bucket |-> take[b]]
  BY DEF Taken
<1> HIDE DEF s
<1>8. /\ take[s[1]] \in Nat /\ take[s[1]] <= o1 /\ take[s[2]] \in Nat /\ take[s[2]] <= o2
      /\ take[s[3]] \in Nat /\ take[s[3]] <= o3
      /\ take[s[1]] + take[s[2]] + take[s[3]] <= avail
      /\ take[s[1]] + take[s[2]] + take[s[3]] < avail =>
           take[s[1]] = o1 /\ take[s[2]] = o2 /\ take[s[3]] = o3
      /\ take[s[2]] > 0 => take[s[1]] = o1
      /\ take[s[3]] > 0 => take[s[1]] = o1 /\ take[s[2]] = o2
  <2> HIDE DEF o1, o2, o3
  <2> QED BY <1>2, <1>6 DEF Smaller, Larger
<1>9. take \in Amounts
  <2>1. \A b \in Bucket : take[b] \in Nat
    BY <1>1, <1>8
  <2> QED BY <1>7, <2>1 DEF Amounts
<1>10. Sum(take) = take[s[1]] + take[s[2]] + take[s[3]]
  <2>1. take \in [Bucket -> Int]
    BY <1>9 DEF Amounts
  <2> QED BY <2>1, SumOfStrategy DEF s
<1>11. \A i, j \in 1..3 : i < j /\ take[s[j]] > 0 => take[s[i]] = owed[s[i]]
  <2>1. \A i, j \in 1..3 : i < j => (i = 1 /\ j = 2) \/ (i = 1 /\ j = 3) \/ (i = 2 /\ j = 3)
    OBVIOUS
  <2> QED BY <1>8, <2>1
<1> QED BY <1>1, <1>8, <1>9, <1>10, <1>11 DEF s, TakesInOrder

-----------------------------------------------------------------------------
(* The instalments of a loan.                                                *)

(* An instalment is settled. *)
Done(l, k, row) == row.status = "paid" \/ Sum(Uncollected(Instalment[l][k], row)) = 0

(* What has been paid of one instalment fits what is due, and follows the strategy. *)
RowFits(l, k, row) ==
  /\ \A b \in Bucket : row.got[b] <= Instalment[l][k].amount[b]
  /\ row.total = Sum(row.got)
  /\ \A i, j \in 1..3 : i < j /\ row.got[Strategy[l][j]] > 0 =>
       row.got[Strategy[l][i]] = Instalment[l][k].amount[Strategy[l][i]]

Fits(l, rr) ==
  /\ rr \in Seq(Row) /\ Len(rr) = Len(Instalment[l])
  /\ \A k \in 1..Len(rr) :
       /\ RowFits(l, k, rr[k])
       /\ rr[k].total > 0 => \A j \in 1..(k - 1) : Done(l, j, rr[j])

(* What has been collected of a bucket. *)
GotOf(rr, b) == SumFunction([k \in DOMAIN rr |-> rr[k].got[b]])

(* The type of what is due and of what is paid. *)
LEMMA DueType ==
  ASSUME NEW l \in Loan, NEW rr \in Seq(Row), Len(rr) = Len(Instalment[l]), NEW k \in 1..Len(rr)
  PROVE  /\ Instalment[l][k] \in Due /\ Instalment[l][k].amount \in Amounts
         /\ rr[k] \in Row /\ rr[k].got \in Amounts
         /\ \A b \in Bucket : Instalment[l][k].amount[b] \in Nat /\ rr[k].got[b] \in Nat
<1>1. Instalment[l] \in Seq(Due) /\ Len(Instalment[l]) = Len(rr)
  BY RepaymentAssumption
<1>2. Instalment[l][k] \in Due
  BY <1>1
<1>3. rr[k] \in Row
  OBVIOUS
<1>4. Instalment[l][k].amount \in Amounts /\ rr[k].got \in Amounts
  BY <1>2, <1>3 DEF Due, Row
<1> QED BY <1>2, <1>3, <1>4 DEF Amounts

(* A sum of buckets. *)
LEMMA SumIsNat ==
  ASSUME NEW f \in Amounts
  PROVE  Sum(f) \in Nat /\ \A b \in Bucket : f[b] <= Sum(f)
  BY DEF Amounts, Bucket, Sum

(* Two payments are added bucket by bucket. *)
LEMMA SumOfTwo ==
  ASSUME NEW f \in Amounts, NEW g \in Amounts
  PROVE  /\ [b \in Bucket |-> f[b] + g[b]] \in Amounts
         /\ Sum([b \in Bucket |-> f[b] + g[b]]) = Sum(f) + Sum(g)
  BY DEF Amounts, Bucket, Sum

(* What an instalment is still owed. *)
LEMMA UncollectedIs ==
  ASSUME NEW l \in Loan, NEW rr \in Seq(Row), Len(rr) = Len(Instalment[l]), NEW k \in 1..Len(rr),
         RowFits(l, k, rr[k])
  PROVE  LET owed == Uncollected(Instalment[l][k], rr[k]) IN
         /\ owed \in Amounts
         /\ \A b \in Bucket : owed[b] = Instalment[l][k].amount[b] - rr[k].got[b]
         /\ Sum(owed) \in Nat
         /\ Sum(owed) = 0 <=> \A b \in Bucket : owed[b] = 0
<1> DEFINE owed == Uncollected(Instalment[l][k], rr[k])
<1>1. \A b \in Bucket : owed[b] = Instalment[l][k].amount[b] - rr[k].got[b] /\ owed[b] \in Nat
  BY DueType DEF Uncollected, RowFits
<1>2. owed \in Amounts
  BY <1>1 DEF Uncollected, Amounts
<1> HIDE DEF owed
<1>3. Sum(owed) \in Nat /\ (Sum(owed) = 0 <=> \A b \in Bucket : owed[b] = 0)
  BY <1>1, <1>2 DEF Sum, Bucket
<1> QED BY <1>1, <1>2, <1>3 DEF owed

(* The instalments when one of them has changed. *)
Replaced(rr, k, new) == [rr EXCEPT ![k] = new]

(* An instalment that changes: the others are as settled as before. *)
LEMMA RowReplaced ==
  ASSUME NEW l \in Loan, NEW rr, Fits(l, rr), NEW k \in 1..Len(rr), NEW new \in Row, RowFits(l, k, new),
         Done(l, k, rr[k]) => Done(l, k, new),
         new.total > 0 => \A j \in 1..(k - 1) : Done(l, j, rr[j]),
         NEW rn, rn = Replaced(rr, k, new)
  PROVE  /\ Fits(l, rn) /\ rn[k] = new
         /\ \A j \in 1..Len(rr) : j # k => rn[j] = rr[j]
         /\ Len(rn) = Len(rr)
         /\ \A j \in 1..Len(rr) : Done(l, j, rr[j]) => Done(l, j, rn[j])
         /\ \A b \in Bucket : GotOf(rn, b) = GotOf(rr, b) + (new.got[b] - rr[k].got[b])
         /\ \A b \in Bucket : GotOf(rr, b) \in Int
<1>1. rr \in Seq(Row) /\ Len(rr) = Len(Instalment[l]) /\ Len(rr) \in Nat /\ DOMAIN rr = 1..Len(rr)
  BY DEF Fits
<1>2. /\ rn \in Seq(Row) /\ Len(rn) = Len(rr) /\ DOMAIN rn = DOMAIN rr
      /\ rn[k] = new /\ \A j \in 1..Len(rr) : j # k => rn[j] = rr[j]
  BY <1>1 DEF Replaced
<1>3. \A j \in 1..Len(rr) : Done(l, j, rr[j]) => Done(l, j, rn[j])
  BY <1>2
<1>4. Fits(l, rn)
  <2>1. ASSUME NEW j \in 1..Len(rr) PROVE RowFits(l, j, rn[j])
    BY <1>2 DEF Fits
  <2>2. ASSUME NEW j \in 1..Len(rr), rn[j].total > 0, NEW i \in 1..(j - 1) PROVE Done(l, i, rn[i])
    <3>1. i \in 1..Len(rr)
      BY <1>1
    <3>2. Done(l, i, rr[i])
      BY <1>2, <2>2 DEF Fits
    <3> QED BY <1>3, <3>1, <3>2
  <2> QED BY <1>1, <1>2, <2>1, <2>2 DEF Fits
<1>5. ASSUME NEW b \in Bucket
      PROVE  GotOf(rn, b) = GotOf(rr, b) + (new.got[b] - rr[k].got[b]) /\ GotOf(rr, b) \in Int
  <2> DEFINE f == [j \in DOMAIN rr |-> rr[j].got[b]]
             g == [j \in DOMAIN rn |-> rn[j].got[b]]
  <2>1. IsFiniteSet(1..Len(rr))
    BY <1>1, UpToFinite
  <2>2. DOMAIN f = 1..Len(rr) /\ DOMAIN g = 1..Len(rr)
    BY <1>1, <1>2
  <2>3. \A j \in 1..Len(rr) : f[j] = rr[j].got[b] /\ g[j] = rn[j].got[b] /\ f[j] \in Int /\ g[j] \in Int
    <3> TAKE j \in 1..Len(rr)
    <3>1. rr[j].got[b] \in Nat /\ rn[j].got[b] \in Nat
      BY <1>1, <1>2, DueType
    <3> QED BY <1>1, <1>2, <2>2, <3>1
  <2>4. GotOf(rr, b) = SumFunctionOnSet(f, 1..Len(rr)) /\ GotOf(rn, b) = SumFunctionOnSet(g, 1..Len(rr))
    BY <2>2, Zenon DEF GotOf, SumFunction
  <2>5. f[k] \in Int /\ g[k] \in Int /\ \A j \in (1..Len(rr)) \ {k} : f[j] \in Int /\ g[j] = f[j]
    BY <1>2, <2>3
  <2> HIDE DEF f, g
  <2>6. SumFunctionOnSet(g, 1..Len(rr)) = SumFunctionOnSet(f, 1..Len(rr)) + (g[k] - f[k])
    BY <2>1, <2>5, SumChange
  <2>7. SumFunctionOnSet(f, 1..Len(rr)) \in Int
    BY <2>1, <2>3, SumType
  <2> QED BY <1>2, <2>3, <2>4, <2>6, <2>7
<1> QED BY <1>2, <1>3, <1>4, <1>5

-----------------------------------------------------------------------------
(* A run of the collection.                                                  *)

Nothing == [b \in Bucket |-> 0]
State(a, r, g) == [avail |-> a, rows |-> r, got |-> g]

(* Where a run over the instalments of loan l is after the k-th: it started with the rows rr and
   the amount avail, has a left, has made r of the rows, and has collected g. *)
Going(l, avail, rr, at, a, r, g, k) ==
  /\ Fits(l, r) /\ g \in Amounts
  /\ a = avail - Sum(g)
  /\ a >= 0 \/ Sum(g) = 0
  /\ \A j \in 1..Len(rr) : rr[j].status = "paid" => r[j] = rr[j]
  /\ a > 0 => \A j \in 1..k : Instalment[l][j].day <= at => Done(l, j, r[j])
  /\ \A b \in Bucket : GotOf(r, b) = GotOf(rr, b) + g[b]

(* What has been collected of a bucket is a whole number. *)
LEMMA GotType ==
  ASSUME NEW l \in Loan, NEW rr, Fits(l, rr), NEW b \in Bucket
  PROVE  GotOf(rr, b) \in Int
<1>1. IsFiniteSet(1..Len(rr)) /\ DOMAIN rr = 1..Len(rr)
  BY UpToFinite DEF Fits
<1> DEFINE f == [j \in DOMAIN rr |-> rr[j].got[b]]
<1>2. \A j \in 1..Len(rr) : f[j] \in Int
  BY <1>1, DueType DEF Fits
<1>3. GotOf(rr, b) = SumFunctionOnSet(f, 1..Len(rr))
  BY <1>1, Zenon DEF GotOf, SumFunction
<1> HIDE DEF f
<1> QED BY <1>1, <1>2, <1>3, SumType

(* A run starts with what is there. *)
LEMMA GoingStarts ==
  ASSUME NEW l \in Loan, NEW avail \in Int, NEW rr, Fits(l, rr), NEW at
  PROVE  Going(l, avail, rr, at, avail, rr, Nothing, 0)
<1>1. Nothing \in Amounts /\ Sum(Nothing) = 0 /\ \A b \in Bucket : Nothing[b] = 0
  BY DEF Nothing, Amounts, Sum, Bucket
<1>2. \A b \in Bucket : GotOf(rr, b) = GotOf(rr, b) + Nothing[b]
  BY <1>1, GotType
<1>3. \A j \in 1..0 : FALSE
  OBVIOUS
<1> QED BY <1>1, <1>2, <1>3 DEF Going

(* What is known of the instalment a run comes to. *)
LEMMA ComesTo ==
  ASSUME NEW l \in Loan, NEW avail \in Int, NEW rr, Fits(l, rr), NEW at \in Nat,
         NEW k \in 1..Len(rr), NEW a, NEW r, NEW g, Going(l, avail, rr, at, a, r, g, k - 1)
  PROVE  /\ a \in Int /\ r \in Seq(Row) /\ Len(r) = Len(rr) /\ Len(r) = Len(Instalment[l]) /\ k \in 1..Len(r)
         /\ Fits(l, r) /\ RowFits(l, k, r[k])
         /\ Instalment[l][k] \in Due /\ Instalment[l][k].amount \in Amounts
         /\ r[k] \in Row /\ r[k].got \in Amounts
         /\ \A b \in Bucket : Instalment[l][k].amount[b] \in Nat /\ r[k].got[b] \in Nat
         /\ Instalment[l][k].day <= at => \A j \in 1..(k - 1) : Instalment[l][j].day <= at
         /\ r[k].total > 0 => \A j \in 1..(k - 1) : Done(l, j, r[j])
<1>1. Fits(l, r) /\ g \in Amounts /\ a = avail - Sum(g)
  BY DEF Going
<1>2. /\ r \in Seq(Row) /\ Len(r) = Len(rr) /\ Len(r) = Len(Instalment[l]) /\ k \in 1..Len(r)
      /\ RowFits(l, k, r[k]) /\ (r[k].total > 0 => \A j \in 1..(k - 1) : Done(l, j, r[j]))
  BY <1>1 DEF Fits
<1>3. a \in Int
  BY <1>1, SumIsNat
<1>4. ASSUME Instalment[l][k].day <= at, NEW j \in 1..(k - 1) PROVE Instalment[l][j].day <= at
  <2>1. j \in 1..Len(Instalment[l]) /\ k \in 1..Len(Instalment[l]) /\ j \in 1..k
    BY <1>2
  <2>2. Instalment[l] \in Seq(Due)
    BY RepaymentAssumption
  <2>3. Instalment[l][j] \in Due /\ Instalment[l][k] \in Due /\ k \in DOMAIN Instalment[l]
    BY <2>1, <2>2
  <2>4. Instalment[l][j].day <= Instalment[l][k].day
    BY <2>1, <2>3, RepaymentAssumption
  <2> QED BY <1>4, <2>3, <2>4 DEF Due
<1> QED BY <1>1, <1>2, <1>3, <1>4, DueType

(* An instalment that is only marked. *)
Marked(row, status) == [row EXCEPT !.status = status]

(* A run that marks an instalment goes on. *)
LEMMA MarkGoes ==
  ASSUME NEW l \in Loan, NEW avail \in Int, NEW rr, Fits(l, rr), NEW at \in Nat,
         NEW k \in 1..Len(rr), NEW a, NEW r, NEW g, Going(l, avail, rr, at, a, r, g, k - 1),
         NEW status \in {"overdue", "paid"}, r[k].status # "paid",
         (status = "overdue" /\ a <= 0) \/ status = "paid",
         NEW new, new = Marked(r[k], status), NEW rn, rn = Replaced(r, k, new)
  PROVE  Going(l, avail, rr, at, a, rn, g, k)
<1>1. /\ a \in Int /\ Len(r) = Len(rr) /\ k \in 1..Len(r) /\ Fits(l, r) /\ RowFits(l, k, r[k])
      /\ r[k] \in Row /\ (\A b \in Bucket : r[k].got[b] \in Nat)
      /\ r[k].total > 0 => \A j \in 1..(k - 1) : Done(l, j, r[j])
  BY ComesTo
<1>2. new \in Row /\ new.got = r[k].got /\ new.total = r[k].total /\ new.status = status
  BY <1>1 DEF Row, RowStatus, Marked
<1>3. RowFits(l, k, new) /\ (Done(l, k, r[k]) => Done(l, k, new)) /\ (status = "paid" => Done(l, k, new))
  BY <1>1, <1>2 DEF RowFits, Done, Uncollected
<1>4. new.total > 0 => \A j \in 1..(k - 1) : Done(l, j, r[j])
  BY <1>1, <1>2
<1>5. /\ Fits(l, rn) /\ rn[k] = new
      /\ \A j \in 1..Len(r) : j # k => rn[j] = r[j]
      /\ \A j \in 1..Len(r) : Done(l, j, r[j]) => Done(l, j, rn[j])
      /\ \A b \in Bucket : GotOf(rn, b) = GotOf(r, b) + (new.got[b] - r[k].got[b])
      /\ \A b \in Bucket : GotOf(r, b) \in Int
  <2>1. Fits(l, r) /\ k \in 1..Len(r) /\ new \in Row
    BY <1>1, <1>2
  <2>2. RowFits(l, k, new)
    BY <1>3
  <2>3. Done(l, k, r[k]) => Done(l, k, new)
    BY <1>3
  <2> QED BY <2>1, <2>2, <2>3, <1>4, RowReplaced
<1>6. \A j \in 1..Len(rr) : rr[j].status = "paid" => rn[j] = rr[j]
  BY <1>1, <1>5 DEF Going
<1>7. \A b \in Bucket : GotOf(rn, b) = GotOf(rr, b) + g[b]
  <2> TAKE b \in Bucket
  <2>1. GotOf(r, b) = GotOf(rr, b) + g[b] /\ GotOf(r, b) \in Int /\ new.got[b] = r[k].got[b] /\ r[k].got[b] \in Nat
    BY <1>1, <1>2, <1>5 DEF Going
  <2>2. GotOf(rn, b) = GotOf(r, b) + (new.got[b] - r[k].got[b])
    BY <1>5
  <2> QED BY <2>1, <2>2
<1>8. a > 0 => \A j \in 1..k : Instalment[l][j].day <= at => Done(l, j, rn[j])
  <2> SUFFICES ASSUME a > 0, NEW j \in 1..k, Instalment[l][j].day <= at PROVE Done(l, j, rn[j])
    OBVIOUS
  <2>1. CASE j = k
    BY <1>1, <1>3, <1>5, <2>1
  <2>2. CASE j # k
    <3>1. j \in 1..(k - 1) /\ j \in 1..Len(r)
      BY <1>1, <2>2
    <3> QED BY <1>5, <3>1 DEF Going
  <2> QED BY <2>1, <2>2
<1>9. /\ g \in Amounts /\ a = avail - Sum(g) /\ (a >= 0 \/ Sum(g) = 0)
  BY DEF Going
<1> QED BY <1>5, <1>6, <1>7, <1>8, <1>9 DEF Going

(* What an instalment becomes that pays something. *)
PaidRow(due, row, take) ==
  [got |-> [b \in Bucket |-> row.got[b] + take[b]], total |-> row.total + Sum(take),
   status |-> IF row.total + Sum(take) >= due.total THEN "paid" ELSE "partially_paid"]

(* An instalment that pays something. *)
LEMMA RecoverGoes ==
  ASSUME NEW l \in Loan, NEW avail \in Int, NEW rr, Fits(l, rr), NEW at \in Nat,
         NEW k \in 1..Len(rr), NEW a, NEW r, NEW g, Going(l, avail, rr, at, a, r, g, k - 1),
         Instalment[l][k].day <= at, r[k].status # "paid", a > 0,
         ~(Sum(Uncollected(Instalment[l][k], r[k])) <= 0),
         NEW take, take = Taken(a, Uncollected(Instalment[l][k], r[k]), Strategy[l]),
         NEW new, new = PaidRow(Instalment[l][k], r[k], take), NEW rn, rn = Replaced(r, k, new),
         NEW gn, gn = [b \in Bucket |-> g[b] + take[b]]
  PROVE  Going(l, avail, rr, at, a - Sum(take), rn, gn, k)
<1> DEFINE due == Instalment[l][k]
           owed == Uncollected(due, r[k])
<1>1. /\ a \in Int /\ r \in Seq(Row) /\ Len(r) = Len(rr) /\ Len(r) = Len(Instalment[l]) /\ k \in 1..Len(r)
      /\ Fits(l, r) /\ RowFits(l, k, r[k])
      /\ due.amount \in Amounts /\ r[k] \in Row /\ r[k].got \in Amounts
      /\ \A b \in Bucket : due.amount[b] \in Nat /\ r[k].got[b] \in Nat
      /\ \A j \in 1..(k - 1) : Instalment[l][j].day <= at
  BY ComesTo
<1>2. /\ owed \in Amounts /\ (\A b \in Bucket : owed[b] = due.amount[b] - r[k].got[b])
      /\ Sum(owed) \in Nat
  BY <1>1, UncollectedIs
<1>3. \A b \in Bucket : owed[b] \in Nat
  BY <1>2 DEF Amounts
<1>4. /\ take \in Amounts /\ (\A b \in Bucket : take[b] <= owed[b])
      /\ Sum(take) <= a
      /\ Sum(take) < a => \A b \in Bucket : take[b] = owed[b]
      /\ \A i, j \in 1..3 : i < j /\ take[Strategy[l][j]] > 0 => take[Strategy[l][i]] = owed[Strategy[l][i]]
  <2>1. a \in Nat
    BY <1>1
  <2> HIDE DEF owed
  <2>2. take = Taken(a, owed, Strategy[l])
    BY DEF owed
  <2>3. owed \in Amounts
    BY <1>2
  <2>4. TakesInOrder(l, a, owed, take)
    BY <2>1, <2>2, <2>3, TakenIs
  <2> QED BY <2>4 DEF TakesInOrder
<1>5. Sum(take) \in Nat /\ \A b \in Bucket : take[b] \in Nat
  BY <1>4, SumIsNat DEF Amounts
<1>6. g \in Amounts /\ Sum(g) \in Nat /\ (\A b \in Bucket : g[b] \in Nat) /\ a = avail - Sum(g)
  BY SumIsNat DEF Going, Amounts
<1>7. ~Done(l, k, r[k])
  BY <1>2 DEF Done
<1> HIDE DEF owed
<1>8. /\ [b \in Bucket |-> r[k].got[b] + take[b]] \in Amounts
      /\ Sum([b \in Bucket |-> r[k].got[b] + take[b]]) = Sum(r[k].got) + Sum(take)
  BY <1>1, <1>4, SumOfTwo
<1>9. gn \in Amounts /\ Sum(gn) = Sum(g) + Sum(take)
  BY <1>4, <1>6, SumOfTwo
<1>10. new \in Row /\ (\A b \in Bucket : new.got[b] = r[k].got[b] + take[b]) /\ new.total = Sum(new.got)
  <2>1. Sum(r[k].got) \in Nat /\ r[k].total = Sum(r[k].got)
    BY <1>1, SumIsNat DEF RowFits
  <2>2. /\ new.got = [b \in Bucket |-> r[k].got[b] + take[b]] /\ new.total = r[k].total + Sum(take)
        /\ new.status \in RowStatus
        /\ new = [got |-> new.got, total |-> new.total, status |-> new.status]
    BY DEF PaidRow, RowStatus
  <2>3. new.got \in Amounts /\ new.total \in Nat /\ new.total = Sum(new.got)
    BY <1>5, <1>8, <2>1, <2>2
  <2>4. new \in Row
    BY <2>2, <2>3 DEF Row
  <2> QED BY <2>2, <2>3, <2>4
<1>11. RowFits(l, k, new)
  <2>1. \A b \in Bucket : new.got[b] <= due.amount[b]
    BY <1>1, <1>2, <1>3, <1>4, <1>5, <1>10
  <2>2. ASSUME NEW i \in 1..3, NEW j \in 1..3, i < j, new.got[Strategy[l][j]] > 0
        PROVE  new.got[Strategy[l][i]] = due.amount[Strategy[l][i]]
    <3>1. PICK b \in Bucket : b = Strategy[l][i]
      BY RepaymentAssumption
    <3>2. PICK c \in Bucket : c = Strategy[l][j]
      BY RepaymentAssumption
    <3>3. r[k].got[c] > 0 => r[k].got[b] = due.amount[b]
      BY <1>1, <2>2, <3>1, <3>2 DEF RowFits
    <3>4. take[c] > 0 => take[b] = owed[b]
      BY <1>4, <2>2, <3>1, <3>2
    <3>5. r[k].got[c] + take[c] > 0 /\ r[k].got[c] \in Nat /\ take[c] \in Nat
      BY <1>1, <1>5, <1>10, <2>2, <3>2
    <3>6. /\ new.got[b] = r[k].got[b] + take[b] /\ owed[b] = due.amount[b] - r[k].got[b]
          /\ take[b] <= owed[b] /\ take[b] \in Nat /\ r[k].got[b] \in Nat /\ due.amount[b] \in Nat
      BY <1>1, <1>2, <1>4, <1>5, <1>10
    <3>7. new.got[b] = due.amount[b]
      <4>1. PICK x \in Nat, y \in Nat, u \in Nat, v \in Nat, n \in Nat :
              x = r[k].got[c] /\ y = take[c] /\ u = r[k].got[b] /\ v = take[b] /\ n = due.amount[b]
        BY <3>5, <3>6
      <4>2. x > 0 \/ y > 0
        BY <3>5, <4>1
      <4>3. CASE x > 0
        <5>1. u = n /\ v <= n - u
          BY <3>3, <3>6, <4>1, <4>3
        <5>2. u + v = n
          BY <4>1, <5>1
        <5> QED BY <3>6, <4>1, <5>2
      <4>4. CASE y > 0
        <5>1. v = n - u
          BY <3>4, <3>6, <4>1, <4>4
        <5>2. u + v = n
          BY <4>1, <5>1
        <5> QED BY <3>6, <4>1, <5>2
      <4> QED BY <4>2, <4>3, <4>4
    <3> QED BY <3>1, <3>7
  <2> QED BY <1>10, <2>1, <2>2 DEF RowFits
<1>12. \A j \in 1..(k - 1) : Done(l, j, r[j])
  BY <1>1 DEF Going
<1>13. /\ Fits(l, rn) /\ rn[k] = new
       /\ \A j \in 1..Len(r) : j # k => rn[j] = r[j]
       /\ \A b \in Bucket : GotOf(rn, b) = GotOf(r, b) + (new.got[b] - r[k].got[b])
       /\ \A b \in Bucket : GotOf(r, b) \in Int
  BY <1>1, <1>7, <1>10, <1>11, <1>12, RowReplaced
<1>14. \A j \in 1..Len(rr) : rr[j].status = "paid" => rn[j] = rr[j]
  BY <1>1, <1>13 DEF Going
<1>15. ASSUME NEW b \in Bucket PROVE GotOf(rn, b) = GotOf(rr, b) + gn[b]
  <2>1. GotOf(r, b) = GotOf(rr, b) + g[b] /\ GotOf(r, b) \in Int
    BY <1>13 DEF Going
  <2>2. GotOf(rn, b) = GotOf(r, b) + (new.got[b] - r[k].got[b])
    BY <1>13
  <2>3. new.got[b] = r[k].got[b] + take[b] /\ r[k].got[b] \in Nat /\ take[b] \in Nat /\ g[b] \in Nat
    BY <1>1, <1>5, <1>6, <1>10
  <2>4. GotOf(rr, b) \in Int
    BY GotType
  <2>5. gn[b] = g[b] + take[b]
    OBVIOUS
  <2> QED BY <2>1, <2>2, <2>3, <2>4, <2>5
<1>16. a - Sum(take) > 0 => \A j \in 1..k : Instalment[l][j].day <= at => Done(l, j, rn[j])
  <2> SUFFICES ASSUME a - Sum(take) > 0, NEW j \in 1..k PROVE Done(l, j, rn[j])
    OBVIOUS
  <2>1. CASE j = k
    <3>1. \A b \in Bucket : take[b] = owed[b]
      BY <1>1, <1>4, <1>5
    <3>2. \A b \in Bucket : due.amount[b] - new.got[b] = 0
      BY <1>1, <1>2, <1>10, <3>1
    <3>3. \A b \in Bucket : Uncollected(due, new)[b] = 0
      BY <3>2 DEF Uncollected
    <3>4. Sum(Uncollected(due, new)) = 0
      BY <3>3 DEF Sum, Bucket
    <3> QED BY <1>13, <2>1, <3>4 DEF Done
  <2>2. CASE j # k
    <3>1. j \in 1..(k - 1) /\ j \in 1..Len(r)
      BY <1>1, <2>2
    <3> QED BY <1>12, <1>13, <2>2, <3>1
  <2> QED BY <2>1, <2>2
<1>17. a - Sum(take) = avail - Sum(gn) /\ a - Sum(take) >= 0
  <2>1. a \in Int /\ Sum(take) <= a
    BY <1>1, <1>4
  <2> QED BY <1>5, <1>6, <1>9, <2>1
<1> QED BY <1>9, <1>13, <1>14, <1>15, <1>16, <1>17 DEF Going

(* The four cases of an instalment as steps of a run. *)
LEMMA StepIs ==
  ASSUME NEW a, NEW r, NEW g, NEW due, NEW k, NEW at, NEW strategy,
         NEW next, next = Step(State(a, r, g), due, k, at, strategy),
         NEW take, take = Taken(a, Uncollected(due, r[k]), strategy)
  PROVE  /\ due.day > at \/ r[k].status = "paid" => next = State(a, r, g)
         /\ ~(due.day > at \/ r[k].status = "paid") /\ a <= 0 =>
              next = State(a, Replaced(r, k, Marked(r[k], "overdue")), g)
         /\ ~(due.day > at \/ r[k].status = "paid") /\ ~(a <= 0) /\ Sum(Uncollected(due, r[k])) <= 0 =>
              next = State(a, Replaced(r, k, Marked(r[k], "paid")), g)
         /\ ~(due.day > at \/ r[k].status = "paid") /\ ~(a <= 0) /\ ~(Sum(Uncollected(due, r[k])) <= 0) =>
              next = State(a - Sum(take), Replaced(r, k, PaidRow(due, r[k], take)),
                           [b \in Bucket |-> g[b] + take[b]])
<1> DEFINE s == State(a, r, g)
<1>1. s.avail = a /\ s.rows = r /\ s.got = g
  BY DEF State
<1>2. next =
        IF due.day > at \/ r[k].status = "paid" THEN s
        ELSE IF a <= 0 THEN [s EXCEPT !.rows[k].status = "overdue"]
        ELSE IF Sum(Uncollected(due, r[k])) <= 0 THEN [s EXCEPT !.rows[k].status = "paid"]
        ELSE Recovered(s, due, k, strategy)
  BY <1>1, Zenon DEF Step
<1>3. ASSUME NEW status PROVE [s EXCEPT !.rows[k].status = status] = State(a, Replaced(r, k, Marked(r[k], status)), g)
  BY DEF State, Replaced, Marked
<1>4. Recovered(s, due, k, strategy) =
        State(a - Sum(take), Replaced(r, k, PaidRow(due, r[k], take)), [b \in Bucket |-> g[b] + take[b]])
  <2>1. Recovered(s, due, k, strategy) =
          [avail |-> a - Sum(take),
           rows |-> [r EXCEPT ![k] = [got |-> [b \in Bucket |-> r[k].got[b] + take[b]], total |-> r[k].total + Sum(take),
                        status |-> IF r[k].total + Sum(take) >= due.total THEN "paid" ELSE "partially_paid"]],
           got |-> [b \in Bucket |-> g[b] + take[b]]]
    BY <1>1, Zenon DEF Recovered
  <2> QED BY <2>1, Zenon DEF State, Replaced, PaidRow
<1> QED BY <1>2, <1>3, <1>4, Zenon

(* Every instalment of the loop takes a run one step further. *)
LEMMA StepGoes ==
  ASSUME NEW l \in Loan, NEW avail \in Int, NEW rr, Fits(l, rr), NEW at \in Nat,
         NEW k \in 1..Len(rr), NEW a, NEW r, NEW g, Going(l, avail, rr, at, a, r, g, k - 1)
  PROVE  \E a2, r2, g2 : /\ Step(State(a, r, g), Instalment[l][k], k, at, Strategy[l]) = State(a2, r2, g2)
                         /\ Going(l, avail, rr, at, a2, r2, g2, k)
<1> DEFINE due == Instalment[l][k]
           next == Step(State(a, r, g), due, k, at, Strategy[l])
           take == Taken(a, Uncollected(due, r[k]), Strategy[l])
<1>0. /\ due.day > at \/ r[k].status = "paid" => next = State(a, r, g)
      /\ ~(due.day > at \/ r[k].status = "paid") /\ a <= 0 =>
           next = State(a, Replaced(r, k, Marked(r[k], "overdue")), g)
      /\ ~(due.day > at \/ r[k].status = "paid") /\ ~(a <= 0) /\ Sum(Uncollected(due, r[k])) <= 0 =>
           next = State(a, Replaced(r, k, Marked(r[k], "paid")), g)
      /\ ~(due.day > at \/ r[k].status = "paid") /\ ~(a <= 0) /\ ~(Sum(Uncollected(due, r[k])) <= 0) =>
           next = State(a - Sum(take), Replaced(r, k, PaidRow(due, r[k], take)),
                        [b \in Bucket |-> g[b] + take[b]])
  <2> HIDE DEF next, take
  <2>1. next = Step(State(a, r, g), due, k, at, Strategy[l]) /\ take = Taken(a, Uncollected(due, r[k]), Strategy[l])
    BY DEF next, take
  <2> HIDE DEF due
  <2> QED BY <2>1, StepIs
<1>1. /\ a \in Int /\ Fits(l, r) /\ RowFits(l, k, r[k]) /\ due \in Due /\ due.day \in Nat
      /\ Len(r) = Len(rr) /\ k \in 1..Len(r) /\ r \in Seq(Row) /\ Len(r) = Len(Instalment[l])
  <2>1. /\ a \in Int /\ Fits(l, r) /\ RowFits(l, k, r[k]) /\ due \in Due
        /\ Len(r) = Len(rr) /\ k \in 1..Len(r) /\ r \in Seq(Row) /\ Len(r) = Len(Instalment[l])
    BY ComesTo
  <2>2. due.day \in Nat
    BY <2>1 DEF Due
  <2> QED BY <2>1, <2>2
<1>2. CASE due.day > at \/ r[k].status = "paid"
  <2>1. next = State(a, r, g)
    BY <1>2, <1>0, Zenon
  <2>2. a > 0 => \A j \in 1..k : Instalment[l][j].day <= at => Done(l, j, r[j])
    <3> SUFFICES ASSUME a > 0, NEW j \in 1..k, Instalment[l][j].day <= at PROVE Done(l, j, r[j])
      OBVIOUS
    <3>1. CASE j = k
      BY <1>1, <1>2, <3>1 DEF Done
    <3>2. CASE j # k
      <4>1. j \in 1..(k - 1)
        BY <1>1, <3>2
      <4> QED BY <4>1 DEF Going
    <3> QED BY <3>1, <3>2
  <2>3. Going(l, avail, rr, at, a, r, g, k)
    BY <2>2 DEF Going
  <2> QED BY <2>1, <2>3
<1>3. CASE ~(due.day > at \/ r[k].status = "paid") /\ a <= 0
  <2>1. next = State(a, Replaced(r, k, Marked(r[k], "overdue")), g)
    BY <1>3, <1>0, Zenon
  <2>2. Going(l, avail, rr, at, a, Replaced(r, k, Marked(r[k], "overdue")), g, k)
    BY <1>3, MarkGoes
  <2> QED BY <2>1, <2>2
<1>4. CASE ~(due.day > at \/ r[k].status = "paid") /\ ~(a <= 0) /\ Sum(Uncollected(due, r[k])) <= 0
  <2>1. next = State(a, Replaced(r, k, Marked(r[k], "paid")), g)
    BY <1>4, <1>0, Zenon
  <2>2. Going(l, avail, rr, at, a, Replaced(r, k, Marked(r[k], "paid")), g, k)
    BY <1>4, MarkGoes
  <2> QED BY <2>1, <2>2
<1>5. CASE ~(due.day > at \/ r[k].status = "paid") /\ ~(a <= 0) /\ ~(Sum(Uncollected(due, r[k])) <= 0)
  <2>1. next = State(a - Sum(take), Replaced(r, k, PaidRow(due, r[k], take)),
                     [b \in Bucket |-> g[b] + take[b]])
    BY <1>5, <1>0, Zenon
  <2>2. a > 0 /\ due.day <= at
    BY <1>1, <1>5
  <2>3. take = Taken(a, Uncollected(due, r[k]), Strategy[l])
    OBVIOUS
  <2>4. Going(l, avail, rr, at, a - Sum(take), Replaced(r, k, PaidRow(due, r[k], take)),
              [b \in Bucket |-> g[b] + take[b]], k)
    <3>1. PICK gn : gn = [b \in Bucket |-> g[b] + take[b]]
      OBVIOUS
    <3>2. PICK rn, new : new = PaidRow(due, r[k], take) /\ rn = Replaced(r, k, new)
      OBVIOUS
    <3>3. Going(l, avail, rr, at, a - Sum(take), rn, gn, k)
      BY <1>5, <2>2, <2>3, <3>1, <3>2, RecoverGoes
    <3> QED BY <3>1, <3>2, <3>3, Zenon
  <2> QED BY <2>1, <2>4
<1> QED BY <1>2, <1>3, <1>4, <1>5

(* The loop as a function of the number of instalments it has passed. *)
LoopTo(f, n, l, start, at) ==
  f = [k \in 0..n |-> IF k = 0 THEN start ELSE Step(f[k-1], Instalment[l][k], k, at, Strategy[l])]

(* The loop over any number of instalments has its states. *)
LEMMA LoopExists ==
  ASSUME NEW l, NEW start, NEW at, NEW n \in Nat
  PROVE  \E f : LoopTo(f, n, l, start, at)
<1> DEFINE T == {m \in Nat : \E f : LoopTo(f, m, l, start, at)}
<1>1. 0 \in T
  <2> DEFINE f == [k \in 0..0 |-> start]
  <2>1. 0..0 = {0}
    OBVIOUS
  <2>2. LoopTo(f, 0, l, start, at)
    BY <2>1 DEF LoopTo
  <2> QED BY <2>2
<1>2. ASSUME NEW m \in Nat, m \in T PROVE m + 1 \in T
  <2>1. PICK f : LoopTo(f, m, l, start, at)
    BY <1>2
  <2> DEFINE next == Step(f[m], Instalment[l][m + 1], m + 1, at, Strategy[l])
             g == [k \in 0..(m + 1) |-> IF k = m + 1 THEN next ELSE f[k]]
             h == [k \in 0..(m + 1) |->
                     IF k = 0 THEN start ELSE Step(g[k-1], Instalment[l][k], k, at, Strategy[l])]
  <2>2. ASSUME NEW k \in 0..(m + 1) PROVE g[k] = h[k]
    <3>1. g[m] = f[m]
      OBVIOUS
    <3>2. CASE k = m + 1
      <4>1. k # 0 /\ k - 1 = m
        BY <3>2
      <4>2. h[k] = Step(g[k-1], Instalment[l][k], k, at, Strategy[l])
        BY <4>1
      <4>3. h[k] = Step(f[m], Instalment[l][m + 1], m + 1, at, Strategy[l])
        BY <3>1, <3>2, <4>1, <4>2, Zenon
      <4> QED BY <3>2, <4>3
    <3>3. CASE k # m + 1
      <4>1. k \in 0..m /\ g[k] = f[k]
        BY <3>3
      <4>2. f[k] = IF k = 0 THEN start ELSE Step(f[k-1], Instalment[l][k], k, at, Strategy[l])
        BY <2>1, <4>1 DEF LoopTo
      <4>3. CASE k = 0
        BY <4>1, <4>2, <4>3
      <4>4. CASE k # 0
        <5>1. k - 1 \in 0..(m + 1) /\ k - 1 # m + 1
          BY <4>1, <4>4
        <5>2. g[k-1] = f[k-1]
          BY <5>1
        <5>3. h[k] = Step(g[k-1], Instalment[l][k], k, at, Strategy[l])
          BY <4>4
        <5>4. h[k] = Step(f[k-1], Instalment[l][k], k, at, Strategy[l])
          BY <5>2, <5>3, Zenon
        <5> QED BY <4>1, <4>2, <4>4, <5>4
      <4> QED BY <4>3, <4>4
    <3> QED BY <3>2, <3>3
  <2>3. g = h
    <3> HIDE DEF next
    <3>1. g = [k \in 0..(m + 1) |-> g[k]] /\ h = [k \in 0..(m + 1) |-> h[k]]
      OBVIOUS
    <3> HIDE DEF g, h
    <3> QED BY <2>2, <3>1
  <2>4. LoopTo(g, m + 1, l, start, at)
    BY <2>3, Zenon DEF LoopTo
  <2> QED BY <2>4
<1>3. Nat \subseteq T
  <2> HIDE DEF T
  <2> QED BY <1>1, <1>2, EveryNumber
<1> QED BY <1>3

(* A collection ends with all instalments passed. *)
LEMMA LoopGoes ==
  ASSUME NEW l \in Loan, NEW avail \in Int, NEW rr, Fits(l, rr), NEW at \in Nat,
         NEW f, LoopTo(f, Len(rr), l, State(avail, rr, Nothing), at)
  PROVE  \E a, r, g : f[Len(rr)] = State(a, r, g) /\ Going(l, avail, rr, at, a, r, g, Len(rr))
<1> DEFINE T == {m \in Nat : m <= Len(rr) =>
                   \E a, r, g : f[m] = State(a, r, g) /\ Going(l, avail, rr, at, a, r, g, m)}
<1>1. Len(rr) \in Nat
  BY DEF Fits
<1>2. 0 \in T
  <2>1. f[0] = State(avail, rr, Nothing)
    BY <1>1 DEF LoopTo
  <2> QED BY <2>1, GoingStarts
<1>3. ASSUME NEW m \in Nat, m \in T PROVE m + 1 \in T
  <2> SUFFICES ASSUME m + 1 <= Len(rr)
               PROVE  \E a, r, g : f[m + 1] = State(a, r, g) /\ Going(l, avail, rr, at, a, r, g, m + 1)
    OBVIOUS
  <2>1. PICK a, r, g : f[m] = State(a, r, g) /\ Going(l, avail, rr, at, a, r, g, m)
    BY <1>1, <1>3
  <2>2. PICK k \in 1..Len(rr) : k = m + 1 /\ k - 1 = m
    BY <1>1
  <2>3. f[k] = Step(f[k-1], Instalment[l][k], k, at, Strategy[l])
    BY <1>1, <2>2 DEF LoopTo
  <2>4. f[k] = Step(State(a, r, g), Instalment[l][k], k, at, Strategy[l])
    BY <2>1, <2>2, <2>3, Zenon
  <2>5. Going(l, avail, rr, at, a, r, g, k - 1)
    BY <2>1, <2>2, Zenon
  <2>6. \E a2, r2, g2 : /\ Step(State(a, r, g), Instalment[l][k], k, at, Strategy[l]) = State(a2, r2, g2)
                        /\ Going(l, avail, rr, at, a2, r2, g2, k)
    BY <2>5, StepGoes
  <2> QED BY <2>2, <2>4, <2>6, Zenon
<1>4. Nat \subseteq T
  <2> HIDE DEF T
  <2> QED BY <1>2, <1>3, EveryNumber
<1> QED BY <1>1, <1>4

(* What a worker collects: it starts with what is available in the row it has read. *)
LEMMA CollectionIs ==
  ASSUME NEW w, NEW l \in Loan, l = work[w].loan, Fits(l, rows[l]), work[w].at \in Nat,
         Available(work[w].row) \in Int
  PROVE  \E a, r, g : /\ Collection(w) = State(a, r, g)
                      /\ Going(l, Available(work[w].row), rows[l], work[w].at, a, r, g, Len(rows[l]))
<1> DEFINE start == State(Available(work[w].row), rows[l], Nothing)
           n == Len(Instalment[l])
           at == work[w].at
           f == CHOOSE f : LoopTo(f, n, l, start, at)
<1>1. Len(rows[l]) = n /\ n \in Nat
  BY DEF Fits
<1>2. LoopTo(f, n, l, start, at)
  <2> HIDE DEF n, start, at
  <2> QED BY <1>1, LoopExists
<1>3. Collection(w) = f[n]
  BY Zenon DEF Collection, LoopTo, State, Nothing
<1> HIDE DEF f
<1>4. LoopTo(f, Len(rows[l]), l, State(Available(work[w].row), rows[l], Nothing), work[w].at)
  BY <1>1, <1>2, Zenon
<1>5. \E a, r, g : /\ f[Len(rows[l])] = State(a, r, g)
                   /\ Going(l, Available(work[w].row), rows[l], work[w].at, a, r, g, Len(rows[l]))
  BY <1>4, LoopGoes
<1> QED BY <1>1, <1>3, <1>5, Zenon

-----------------------------------------------------------------------------
(* The posting of a repayment.                                               *)

(* The ledgers a repayment credits, and with what. *)
Share(l, got, g) ==
  (IF LoanGl[l] = g THEN got["P"] ELSE 0) + (IF IncomeGl[l] = g THEN got["I"] ELSE 0)
    + (IF LoanFeeGl[l] = g THEN got["C"] ELSE 0)

(* A repayment names every ledger once, with the sum of what goes to it. *)
LEMMA CreditsAre ==
  ASSUME NEW l \in Loan, NEW got \in Amounts, ~NamedTwice(l, got), NEW g \in Gl
  PROVE  /\ Share(l, got, g) \in Nat
         /\ g \in DOMAIN PayloadOf(l, got).credits => PayloadOf(l, got).credits[g] = Share(l, got, g)
         /\ g \notin DOMAIN PayloadOf(l, got).credits => Share(l, got, g) = 0
         /\ DOMAIN PayloadOf(l, got).credits \subseteq {LoanGl[l], IncomeGl[l], LoanFeeGl[l]}
         /\ DOMAIN PayloadOf(l, got).credits \subseteq Gl
<1> DEFINE p == got["P"]  i == got["I"]  c == got["C"]
           C == Credited(l, got)
           D == {x[1] : x \in C}
<1>1. p \in Nat /\ i \in Nat /\ c \in Nat
  BY DEF Amounts, Bucket
<1>2. /\ LoanGl[l] \in Gl /\ IncomeGl[l] \in Gl /\ LoanFeeGl[l] \in Gl \cup {None}
      /\ None \notin Gl
  BY RepaymentAssumption, NoneAssumption
<1>3. Credited(l, [got EXCEPT !["C"] = 0]) =
        (IF p > 0 THEN {<<LoanGl[l], p>>} ELSE {}) \cup (IF i > 0 THEN {<<IncomeGl[l], i>>} ELSE {})
  <2>1. [got EXCEPT !["C"] = 0]["P"] = p /\ [got EXCEPT !["C"] = 0]["I"] = i /\ [got EXCEPT !["C"] = 0]["C"] = 0
    BY DEF Amounts, Bucket
  <2> QED BY <2>1 DEF Credited
<1>4. /\ ~(p > 0 /\ i > 0 /\ LoanGl[l] = IncomeGl[l])
      /\ c > 0 => (p > 0 => LoanFeeGl[l] # LoanGl[l]) /\ (i > 0 => LoanFeeGl[l] # IncomeGl[l])
  <2>1. ~(p > 0 /\ i > 0 /\ LoanGl[l] = IncomeGl[l])
    BY DEF NamedTwice
  <2>2. c > 0 => LoanFeeGl[l] \notin {x[1] : x \in Credited(l, [got EXCEPT !["C"] = 0])}
    BY DEF NamedTwice
  <2>3. c > 0 => LoanFeeGl[l] \notin {x[1] : x \in
          (IF p > 0 THEN {<<LoanGl[l], p>>} ELSE {}) \cup (IF i > 0 THEN {<<IncomeGl[l], i>>} ELSE {})}
    BY <1>3, <2>2, Zenon
  <2>4. p > 0 => <<LoanGl[l], p>> \in (IF p > 0 THEN {<<LoanGl[l], p>>} ELSE {}) \cup (IF i > 0 THEN {<<IncomeGl[l], i>>} ELSE {})
    OBVIOUS
  <2>5. i > 0 => <<IncomeGl[l], i>> \in (IF p > 0 THEN {<<LoanGl[l], p>>} ELSE {}) \cup (IF i > 0 THEN {<<IncomeGl[l], i>>} ELSE {})
    OBVIOUS
  <2> QED BY <2>1, <2>3, <2>4, <2>5
<1>5. \A x : x \in C <=> \/ p > 0 /\ x = <<LoanGl[l], p>>
                         \/ i > 0 /\ x = <<IncomeGl[l], i>>
                         \/ c > 0 /\ LoanFeeGl[l] # None /\ x = <<LoanFeeGl[l], c>>
  BY DEF Credited
<1>6. DOMAIN PayloadOf(l, got).credits = D
      /\ \A y \in D : PayloadOf(l, got).credits[y] = (CHOOSE x \in C : x[1] = y)[2]
  BY DEF PayloadOf
<1> HIDE DEF C
<1>7. \A y : y \in D <=> \/ p > 0 /\ y = LoanGl[l]
                         \/ i > 0 /\ y = IncomeGl[l]
                         \/ c > 0 /\ LoanFeeGl[l] # None /\ y = LoanFeeGl[l]
  <2>1. ASSUME NEW y \in D
        PROVE  (p > 0 /\ y = LoanGl[l]) \/ (i > 0 /\ y = IncomeGl[l]) \/ (c > 0 /\ LoanFeeGl[l] # None /\ y = LoanFeeGl[l])
    <3>1. PICK x \in C : y = x[1]
      OBVIOUS
    <3> QED BY <1>5, <3>1
  <2>2. p > 0 => LoanGl[l] \in D
    <3>1. p > 0 => <<LoanGl[l], p>> \in C
      BY <1>5
    <3> QED BY <3>1
  <2>3. i > 0 => IncomeGl[l] \in D
    <3>1. i > 0 => <<IncomeGl[l], i>> \in C
      BY <1>5
    <3> QED BY <3>1
  <2>4. c > 0 /\ LoanFeeGl[l] # None => LoanFeeGl[l] \in D
    <3>1. c > 0 /\ LoanFeeGl[l] # None => <<LoanFeeGl[l], c>> \in C
      BY <1>5
    <3> QED BY <3>1
  <2> QED BY <2>1, <2>2, <2>3, <2>4
<1>8. Share(l, got, g) = (IF LoanGl[l] = g THEN p ELSE 0) + (IF IncomeGl[l] = g THEN i ELSE 0)
                           + (IF LoanFeeGl[l] = g THEN c ELSE 0)
  BY DEF Share
<1> HIDE DEF D, p, i, c
<1>9. ASSUME g \in D PROVE (CHOOSE x \in C : x[1] = g)[2] = Share(l, got, g)
  <2> DEFINE x == CHOOSE x \in C : x[1] = g
  <2>1. \E y \in C : y[1] = g
    BY <1>9 DEF D
  <2>2. x \in C /\ x[1] = g
    BY <2>1
  <2> HIDE DEF x
  <2>3. (p > 0 /\ x = <<LoanGl[l], p>>) \/ (i > 0 /\ x = <<IncomeGl[l], i>>)
          \/ (c > 0 /\ LoanFeeGl[l] # None /\ x = <<LoanFeeGl[l], c>>)
    BY <1>5, <2>2
  <2>4. (p > 0 /\ g = LoanGl[l] /\ x[2] = p) \/ (i > 0 /\ g = IncomeGl[l] /\ x[2] = i)
          \/ (c > 0 /\ LoanFeeGl[l] # None /\ g = LoanFeeGl[l] /\ x[2] = c)
    BY <2>2, <2>3
  <2>5. x[2] = Share(l, got, g)
    BY <1>1, <1>4, <1>8, <2>4
  <2> QED BY <2>5 DEF x
<1>10. g \notin D => Share(l, got, g) = 0
  BY <1>1, <1>2, <1>7, <1>8
<1>11. Share(l, got, g) \in Nat
  BY <1>1, <1>8
<1>12. D \subseteq {LoanGl[l], IncomeGl[l], LoanFeeGl[l]} /\ D \subseteq Gl
  BY <1>2, <1>7
<1> QED BY <1>6, <1>9, <1>10, <1>11, <1>12

(* What the journal of a repayment adds to each ledger. *)
LEMMA JournalIs ==
  ASSUME NEW l \in Loan, NEW got \in Amounts, ~NamedTwice(l, got), NEW g \in Gl
  PROVE  /\ LedgerChange(PayloadOf(l, got), g) =
              Share(l, got, g) - (IF ControlGl[PayFrom[l]] = g THEN Sum(got) ELSE 0)
         /\ LedgerChange(PayloadOf(l, got), g) \in Int
<1> DEFINE pl == PayloadOf(l, got)
           a == PayFrom[l]
           D == DOMAIN pl.credits
           La == Line(<<a, "leg">>, ControlGl[a], Sum(got), 0)
           Lg(h) == Line(<<h, "leg">>, h, 0, pl.credits[h])
<1>1. a \in Account /\ a \notin Gl /\ ControlGl[a] \in Gl
  BY RepaymentAssumption, TenantAssumption
<1>2. /\ pl.operationType = "debit" /\ pl.customerAccounts = [x \in {a} |-> Sum(got)]
      /\ pl.debits = NoLegs /\ pl.fee = None
  BY DEF PayloadOf
<1>3. D \subseteq Gl /\ D \cap Account = {}
  BY CreditsAre, TenantAssumption
<1>4. DOMAIN pl.customerAccounts = {a} /\ pl.customerAccounts[a] = Sum(got) /\ DOMAIN pl.debits = {}
  BY <1>2 DEF NoLegs
<1> HIDE DEF pl
<1>5. DebitIds(pl) = {a} /\ CreditIds(pl) = D
  BY <1>2, <1>4 DEF DebitIds, CreditIds, CustomerSide
<1>6. DebitAccounts(pl) = {a} /\ CreditAccounts(pl) = {}
  BY <1>1, <1>3, <1>5 DEF DebitAccounts, CreditAccounts
<1>7. AmountOf(pl, a) = Sum(got) /\ \A h \in D : AmountOf(pl, h) = pl.credits[h]
  BY <1>1, <1>3, <1>4 DEF AmountOf
<1>8. JournalOf(pl).lines = {La} \cup {Lg(h) : h \in D}
  <2>1. AccountLines(pl) = {La}
    <3>1. AccountLines(pl) = {Line(<<x, "leg">>, ControlGl[x], AmountOf(pl, x), 0) : x \in {a}}
                               \cup {Line(<<x, "leg">>, ControlGl[x], 0, AmountOf(pl, x)) : x \in {}}
      BY <1>6, Zenon DEF AccountLines
    <3>2. {Line(<<x, "leg">>, ControlGl[x], AmountOf(pl, x), 0) : x \in {a}} = {La}
      <4>1. Line(<<a, "leg">>, ControlGl[a], AmountOf(pl, a), 0) = La
        BY <1>7, Zenon
      <4> HIDE DEF La
      <4> QED BY <4>1
    <3>3. {Line(<<x, "leg">>, ControlGl[x], 0, AmountOf(pl, x)) : x \in {}} = {}
      OBVIOUS
    <3> HIDE DEF La
    <3> QED BY <3>1, <3>2, <3>3
  <2>2. FeeLines(pl) = {}
    BY <1>2 DEF FeeLines, HasFee
  <2>3. LedgerLines(pl) = {Lg(h) : h \in D}
    <3>1. DebitIds(pl) \cap Gl = {} /\ CreditIds(pl) \cap Gl = D
      BY <1>1, <1>3, <1>5
    <3>2. LedgerLines(pl) = {Line(<<h, "leg">>, h, AmountOf(pl, h), 0) : h \in {}}
                              \cup {Line(<<h, "leg">>, h, 0, AmountOf(pl, h)) : h \in D}
      BY <3>1, Zenon DEF LedgerLines
    <3>3. {Line(<<h, "leg">>, h, AmountOf(pl, h), 0) : h \in {}} = {}
      OBVIOUS
    <3>4. {Line(<<h, "leg">>, h, 0, AmountOf(pl, h)) : h \in D} = {Lg(h) : h \in D}
      <4>1. ASSUME NEW h \in D PROVE Line(<<h, "leg">>, h, 0, AmountOf(pl, h)) = Lg(h)
        BY <1>7
      <4> HIDE DEF Lg
      <4> QED BY <4>1
    <3> HIDE DEF Lg
    <3> QED BY <3>2, <3>3, <3>4
  <2>4. JournalOf(pl).lines = AccountLines(pl) \cup FeeLines(pl) \cup LedgerLines(pl)
    BY DEF JournalOf
  <2> HIDE DEF La, Lg
  <2> QED BY <2>1, <2>2, <2>3, <2>4
<1>9. /\ La.gl = ControlGl[a] /\ La.credit - La.debit = 0 - Sum(got) /\ La.of = <<a, "leg">>
      /\ \A h \in D : Lg(h).gl = h /\ Lg(h).credit = pl.credits[h] /\ Lg(h).debit = 0 /\ Lg(h).of = <<h, "leg">>
  BY DEF Line
<1>10. \A h \in D : Lg(h) # La
  <2>1. \A h \in D : h # a /\ <<h, "leg">> # <<a, "leg">>
    BY <1>1, <1>3
  <2> HIDE DEF La, Lg
  <2> QED BY <1>9, <2>1
<1>11. Sum(got) \in Nat
  BY SumIsNat
<1>12. /\ Share(l, got, g) \in Nat /\ (g \in D => pl.credits[g] = Share(l, got, g))
       /\ (g \notin D => Share(l, got, g) = 0)
  BY CreditsAre DEF pl
<1> DEFINE E == {e \in JournalOf(pl).lines : e.gl = g}
           f == [e \in E |-> e.credit - e.debit]
           Ea == IF ControlGl[a] = g THEN {La} ELSE {}
           Eg == IF g \in D THEN {Lg(g)} ELSE {}
<1>13. E = Ea \cup Eg
  <2> HIDE DEF La, Lg
  <2> QED BY <1>8, <1>9
<1>14. Ea \cap Eg = {} /\ IsFiniteSet(Ea) /\ IsFiniteSet(Eg)
  <2> HIDE DEF La, Lg
  <2> QED BY <1>10, FS_EmptySet, FS_Singleton
<1>15. LedgerChange(pl, g) = SumFunctionOnSet(f, E)
  <2>1. DOMAIN f = E
    OBVIOUS
  <2> QED BY <2>1, Zenon DEF LedgerChange, SumFunction
<1>16. (ControlGl[a] = g => La \in E /\ f[La] = 0 - Sum(got)) /\ (g \in D => Lg(g) \in E /\ f[Lg(g)] = Share(l, got, g))
  <2>1. ControlGl[a] = g => La \in E
    BY <1>13
  <2>2. g \in D => Lg(g) \in E
    BY <1>13
  <2>3. \A e \in E : f[e] = e.credit - e.debit
    OBVIOUS
  <2>4. g \in D => Lg(g).credit - Lg(g).debit = Share(l, got, g)
    BY <1>9, <1>12
  <2> HIDE DEF La, Lg, E, f
  <2> QED BY <1>9, <2>1, <2>2, <2>3, <2>4
<1> HIDE DEF La, Lg, E, f
<1>17. SumFunctionOnSet(f, Ea) = (IF ControlGl[a] = g THEN 0 - Sum(got) ELSE 0)
  <2>1. CASE ControlGl[a] = g
    <3>1. f[La] = 0 - Sum(got) /\ f[La] \in Int
      BY <1>11, <1>16, <2>1
    <3>2. SumFunctionOnSet(f, {La}) = f[La]
      BY <3>1, SumOne
    <3>3. Ea = {La}
      BY <2>1
    <3> QED BY <2>1, <3>1, <3>2, <3>3
  <2>2. CASE ControlGl[a] # g
    <3>1. Ea = {}
      BY <2>2
    <3> QED BY <2>2, <3>1, SumEmpty
  <2> QED BY <2>1, <2>2
<1>18. SumFunctionOnSet(f, Eg) = (IF g \in D THEN Share(l, got, g) ELSE 0)
  <2>1. CASE g \in D
    <3>1. f[Lg(g)] = Share(l, got, g) /\ f[Lg(g)] \in Int
      BY <1>12, <1>16, <2>1
    <3>2. SumFunctionOnSet(f, {Lg(g)}) = f[Lg(g)]
      BY <3>1, SumOne
    <3>3. Eg = {Lg(g)}
      BY <2>1
    <3> QED BY <2>1, <3>1, <3>2, <3>3
  <2>2. CASE g \notin D
    <3>1. Eg = {}
      BY <2>2
    <3> QED BY <2>2, <3>1, SumEmpty
  <2> QED BY <2>1, <2>2
<1>19. \A x \in Ea \cup Eg : f[x] \in Int
  BY <1>11, <1>12, <1>16
<1>20. SumFunctionOnSet(f, Ea \cup Eg) = SumFunctionOnSet(f, Ea) + SumFunctionOnSet(f, Eg)
  <2> HIDE DEF Ea, Eg
  <2> QED BY <1>14, <1>19, SumUnion
<1>21. LedgerChange(pl, g) = SumFunctionOnSet(f, Ea) + SumFunctionOnSet(f, Eg)
  BY <1>13, <1>15, <1>20, Zenon
<1>22. LedgerChange(pl, g) = Share(l, got, g) - (IF ControlGl[a] = g THEN Sum(got) ELSE 0)
  <2> HIDE DEF Ea, Eg, a, D
  <2> QED BY <1>11, <1>12, <1>17, <1>18, <1>21
<1> QED BY <1>11, <1>12, <1>22 DEF pl

-----------------------------------------------------------------------------
(* The inductive invariant.                                                  *)

(* A worker that has locked rows has read what is still in them: the loan's two
   rows, and then the repayment account. *)
Locked(w) ==
  /\ pc[w] # "idle" => work[w] \in Work
  /\ pc[w] \in {"account", "collect"} =>
       /\ owner[work[w].loan] = w /\ Open(detail[work[w].loan])
       /\ work[w].detail = detail[work[w].loan] /\ work[w].book = account[work[w].loan].book
  /\ pc[w] = "collect" =>
       /\ owner[PayFrom[work[w].loan]] = w
       /\ work[w].row = accts[PayFrom[work[w].loan]]

(* The loan's own books agree with its instalments. *)
LoanBooks(l) ==
  /\ account[l].book = Collected(l, "P") - Principal[l]
  /\ detail[l].outstanding = IF account[l].book >= 0 THEN 0 ELSE -account[l].book
  /\ receipts[l] = Collected(l, "P")

ClosedIsPaid(l) ==
  /\ detail[l].status = "paid_off" =>
       account[l].book >= 0 /\ \A k \in DOMAIN rows[l] : rows[l][k].status = "paid"
  /\ (detail[l].status = "paid_off") = (account[l].status = "closed")

Kept(l) == Fits(l, rows[l]) /\ LoanBooks(l) /\ ClosedIsPaid(l)

IInv ==
  /\ TypeOK
  /\ \A w \in Worker : Locked(w)
  /\ \A l \in Loan : Kept(l)

(* What has been collected is what the instalments have got. *)
LEMMA CollectedIs ==
  ASSUME NEW l, NEW b
  PROVE  Collected(l, b) = GotOf(rows[l], b)
  BY Zenon DEF Collected, GotOf

(* It is so at the start: nothing is paid of any instalment. *)
LEMMA InitKept ==
  ASSUME Init, NEW l \in Loan
  PROVE  Kept(l) /\ rows[l] \in Seq(Row)
<1> DEFINE rr == rows[l]
           none == [got |-> [b \in Bucket |-> 0], total |-> 0, status |-> "scheduled"]
<1>1. Instalment[l] \in Seq(Due) /\ Principal[l] \in Nat /\ DOMAIN Instalment[l] = 1..Len(Instalment[l])
      /\ Len(Instalment[l]) \in Nat
  BY RepaymentAssumption
<1>2. rr = [k \in 1..Len(Instalment[l]) |-> none]
  BY <1>1 DEF Init
<1>3. none \in Row /\ none.total = 0 /\ (\A b \in Bucket : none.got[b] = 0) /\ Sum(none.got) = 0
      /\ none.status = "scheduled"
  BY DEF Row, RowStatus, Amounts, Sum, Bucket
<1> HIDE DEF none, rr
<1>4. rr \in Seq(Row) /\ Len(rr) = Len(Instalment[l]) /\ DOMAIN rr = 1..Len(rr)
      /\ \A k \in 1..Len(rr) : rr[k] = none
  BY <1>1, <1>2, <1>3
<1>5. ASSUME NEW k \in 1..Len(rr) PROVE RowFits(l, k, rr[k]) /\ ~(rr[k].total > 0)
  <2>1. \A b \in Bucket : none.got[b] <= Instalment[l][k].amount[b]
    BY <1>3, <1>4, DueType
  <2>2. \A j \in 1..3 : Strategy[l][j] \in Bucket
    BY RepaymentAssumption
  <2>3. RowFits(l, k, none)
    BY <1>3, <2>1, <2>2 DEF RowFits
  <2> QED BY <1>3, <1>4, <2>3
<1>6. Fits(l, rr)
  BY <1>4, <1>5 DEF Fits
<1>7. ASSUME NEW b \in Bucket PROVE GotOf(rr, b) = 0
  <2> DEFINE f == [k \in DOMAIN rr |-> rr[k].got[b]]
  <2>1. IsFiniteSet(1..Len(rr))
    BY <1>1, <1>4, UpToFinite
  <2>2. DOMAIN f = 1..Len(rr) /\ \A k \in 1..Len(rr) : f[k] = 0
    BY <1>3, <1>4
  <2>3. GotOf(rr, b) = SumFunctionOnSet(f, 1..Len(rr))
    BY <2>2, Zenon DEF GotOf, SumFunction
  <2> HIDE DEF f
  <2>4. SumFunctionOnSet(f, 1..Len(rr)) = SumFunctionOnSet(f, {})
    BY <2>1, <2>2, SumOfPart
  <2> QED BY <2>3, <2>4, SumEmpty
<1>8. /\ detail[l] = [status |-> "disbursed", outstanding |-> Principal[l]]
      /\ account[l] = [status |-> "active", book |-> -Principal[l]] /\ receipts[l] = 0
  BY DEF Init
<1>9. Collected(l, "P") = 0
  BY <1>7, CollectedIs DEF rr, Bucket
<1>10. LoanBooks(l)
  BY <1>1, <1>8, <1>9 DEF LoanBooks
<1>11. ClosedIsPaid(l)
  BY <1>8 DEF ClosedIsPaid
<1> QED BY <1>4, <1>6, <1>10, <1>11 DEF Kept, rr

(* The inductive invariant holds at the start. *)
LEMMA InitIInv ==
  ASSUME Init
  PROVE  IInv
<1>1. \A l \in Loan : Kept(l) /\ rows[l] \in Seq(Row)
  BY InitKept
<1>2. \A w \in Worker : Locked(w)
  BY DEF Init, Locked
<1>3. TypeOK
  <2>1. rows \in [Loan -> Seq(Row)] /\ \A l \in Loan : Len(rows[l]) = Len(Instalment[l])
    <3>1. rows = [l \in Loan |-> rows[l]]
      BY DEF Init
    <3> QED BY <1>1, <3>1 DEF Kept, Fits
  <2>2. detail \in [Loan -> LoanRow] /\ account \in [Loan -> LoanAccountRow]
    <3>1. \A l \in Loan : Principal[l] \in Nat
      BY RepaymentAssumption
    <3> QED BY <3>1 DEF Init, LoanRow, LoanAccountRow
  <2>3. accts \in [Account -> AccountRow] /\ ledger \in [Gl -> Int] /\ receipts \in [Loan -> Nat]
        /\ owner \in [Loan \cup Account -> Worker \cup {None}]
        /\ moved \in [Account -> Int]
    BY RepaymentAssumption DEF Init
  <2>4. pc \in [Worker -> {"idle", "loan", "account", "collect"}] /\ work \in [Worker -> Work \cup {None}]
        /\ queue \subseteq Job
    BY DEF Init
  <2>5. day \in Day /\ faults \in 0..MaxFaults /\ changes \in 0..MaxChanges
    BY RepaymentAssumption DEF Init, Day
  <2> QED BY <2>1, <2>2, <2>3, <2>4, <2>5 DEF TypeOK
<1> QED BY <1>1, <1>2, <1>3 DEF IInv

-----------------------------------------------------------------------------
(* What a step leaves alone.                                                 *)

(* A loan whose rows do not change keeps what holds of it. *)
LEMMA LoanSame ==
  ASSUME NEW l, Kept(l), rows'[l] = rows[l], account'[l] = account[l], detail'[l] = detail[l],
         receipts'[l] = receipts[l]
  PROVE  Kept(l)'
<1>1. \A b : Collected(l, b)' = Collected(l, b)
  BY Zenon DEF Collected
<1>2. LoanBooks(l)'
  BY <1>1 DEF Kept, LoanBooks
<1>3. Fits(l, rows[l])'
  BY DEF Kept
<1> QED BY <1>2, <1>3 DEF Kept, ClosedIsPaid

(* A worker that stays where it is keeps its locks. *)
LEMMA WorkerSame ==
  ASSUME NEW w \in Worker, Locked(w), pc'[w] = pc[w], work'[w] = work[w],
         pc[w] \in {"account", "collect"} =>
           /\ owner'[work[w].loan] = w
           /\ detail'[work[w].loan] = detail[work[w].loan] /\ account'[work[w].loan] = account[work[w].loan],
         pc[w] = "collect" =>
           /\ owner'[PayFrom[work[w].loan]] = w
           /\ accts'[PayFrom[work[w].loan]] = accts[PayFrom[work[w].loan]]
  PROVE  Locked(w)'
  BY DEF Locked

(* The job a worker serves. *)
LEMMA WorkIs ==
  ASSUME TypeOK, NEW w \in Worker, Locked(w), pc[w] # "idle"
  PROVE  /\ work[w] \in Work /\ work[w].loan \in Loan /\ work[w].at \in Nat
         /\ PayFrom[work[w].loan] \in Account /\ work[w].loan \notin Account /\ w # None
<1>1. work[w] \in Work
  BY DEF TypeOK, Locked
<1>2. work[w].loan \in Loan /\ work[w].at \in Day
  BY <1>1 DEF Work
<1>3. work[w].at \in Nat
  BY <1>2, RepaymentAssumption DEF Day
<1> QED BY <1>1, <1>2, <1>3, RepaymentAssumption

(* Two workers do not hold the same row. *)
LEMMA OwnRows ==
  ASSUME IInv, NEW v \in Worker, NEW w \in Worker, v # w
  PROVE  /\ pc[v] \in {"account", "collect"} /\ pc[w] \in {"account", "collect"} =>
              work[v].loan # work[w].loan
         /\ pc[v] = "collect" /\ pc[w] = "collect" => PayFrom[work[v].loan] # PayFrom[work[w].loan]
  BY DEF IInv, Locked

(* Only jobs in the queue, the clock and the like change. *)
LEMMA QueueKeeps ==
  ASSUME IInv, UNCHANGED <<loans, books, owner, pc, work>>, queue' \subseteq Job,
         day' \in Day, faults' \in 0..MaxFaults, changes' \in 0..MaxChanges, moved' \in [Account -> Int]
  PROVE  IInv'
<1>1. /\ detail' = detail /\ account' = account /\ rows' = rows /\ receipts' = receipts
      /\ accts' = accts /\ ledger' = ledger /\ owner' = owner /\ pc' = pc /\ work' = work
  BY DEF loans, books
<1>2. TypeOK'
  BY <1>1 DEF IInv, TypeOK
<1>3. ASSUME NEW w \in Worker PROVE Locked(w)'
  BY <1>1 DEF IInv, Locked
<1>4. ASSUME NEW l \in Loan PROVE Kept(l)'
  <2>1. Kept(l)
    BY DEF IInv
  <2> QED BY <1>1, <2>1, LoanSame
<1> QED BY <1>2, <1>3, <1>4 DEF IInv

-----------------------------------------------------------------------------
(* The sweep and the clock.                                                  *)

(* What is dispatched are jobs. *)
LEMMA DispatchTypes ==
  ASSUME TypeOK, NEW ls \in SUBSET Loan, Dispatch(ls)
  PROVE  queue' \subseteq Job
<1>1. 0 \in 0..MaxStalled
  BY RepaymentAssumption
<1> QED BY <1>1 DEF TypeOK, Dispatch, Job

(* A sweep, whole or broken off, and the next day keep the invariant. *)
LEMMA SweepKeeps ==
  ASSUME IInv, Sweep \/ SweepBreaksOff \/ NextDay
  PROVE  IInv'
<1>1. TypeOK
  BY DEF IInv
<1>2. DueLoans \in SUBSET Loan /\ \A ls \in SUBSET DueLoans : ls \in SUBSET Loan
  BY DEF DueLoans
<1>3. CASE Sweep
  <2>1. queue' \subseteq Job
    BY <1>1, <1>2, <1>3, DispatchTypes DEF Sweep
  <2> QED BY <1>1, <1>3, <2>1, QueueKeeps DEF Sweep, world, TypeOK
<1>4. CASE SweepBreaksOff
  <2>1. queue' \subseteq Job
    BY <1>1, <1>2, <1>4, DispatchTypes DEF SweepBreaksOff
  <2>2. faults' \in 0..MaxFaults
    BY <1>1, <1>4, RepaymentAssumption DEF SweepBreaksOff, Fault, TypeOK
  <2> QED BY <1>1, <1>4, <2>1, <2>2, QueueKeeps DEF SweepBreaksOff, TypeOK
<1>5. CASE NextDay
  <2>1. day' \in Day
    BY <1>1, <1>5, RepaymentAssumption DEF NextDay, Day, TypeOK
  <2> QED BY <1>1, <1>5, <2>1, QueueKeeps DEF NextDay, TypeOK
<1> QED BY <1>3, <1>4, <1>5

-----------------------------------------------------------------------------
(* Jobs.                                                                     *)

(* Taking a job keeps the invariant. *)
LEMMA TakeJobKeeps ==
  ASSUME IInv, NEW w \in Worker, NEW l \in Loan, TakeJob(w, l)
  PROVE  IInv'
<1>1. TypeOK /\ Locked(w)
  BY DEF IInv
<1>2. PICK j \in queue :
        /\ j.loan = l /\ j.state = "waiting"
        /\ queue' = (queue \ {j}) \cup {[j EXCEPT !.state = "active"]}
        /\ work' = [work EXCEPT ![w] = [loan |-> j.loan, day |-> j.day, at |-> day, holds |-> TRUE,
                                        detail |-> None, book |-> 0, row |-> None]]
  BY DEF TakeJob
<1>3. /\ pc[w] = "idle" /\ pc' = [pc EXCEPT ![w] = "loan"]
      /\ detail' = detail /\ account' = account /\ rows' = rows /\ receipts' = receipts
      /\ accts' = accts /\ ledger' = ledger /\ owner' = owner
      /\ day' = day /\ faults' = faults /\ changes' = changes /\ moved' = moved
  BY DEF TakeJob, loans, books, world
<1> DEFINE x == [loan |-> j.loan, day |-> j.day, at |-> day, holds |-> TRUE,
                 detail |-> None, book |-> 0, row |-> None]
<1>4. j \in Job /\ x \in Work
  <2>1. j \in Job
    BY <1>1, <1>2 DEF TypeOK
  <2>2. x \in Work
    BY <1>1, <2>1 DEF TypeOK, Job, Work
  <2> QED BY <2>1, <2>2
<1>5. [j EXCEPT !.state = "active"] \in Job
  BY <1>4 DEF Job
<1> HIDE DEF x
<1>6. TypeOK'
  BY <1>1, <1>2, <1>3, <1>4, <1>5 DEF TypeOK, x
<1>7. ASSUME NEW v \in Worker PROVE Locked(v)'
  <2>1. CASE v = w
    BY <1>1, <1>2, <1>3, <1>4, <2>1 DEF TypeOK, Locked, x
  <2>2. CASE v # w
    BY <1>1, <1>2, <1>3, <2>2, WorkerSame DEF IInv, TypeOK, Locked
  <2> QED BY <2>1, <2>2
<1>8. ASSUME NEW k \in Loan PROVE Kept(k)'
  <2>1. Kept(k)
    BY DEF IInv
  <2> QED BY <1>3, <2>1, LoanSame
<1> QED BY <1>6, <1>7, <1>8 DEF IInv

(* What a worker leaves behind that stops. *)
LEMMA StopLeaves ==
  ASSUME IInv, NEW w \in Worker, Stop(w),
         \A v \in Worker \ {w} :
           /\ pc[v] \in {"account", "collect"} =>
                detail'[work[v].loan] = detail[work[v].loan] /\ account'[work[v].loan] = account[work[v].loan]
           /\ pc[v] = "collect" => accts'[PayFrom[work[v].loan]] = accts[PayFrom[work[v].loan]]
  PROVE  /\ owner' \in [Loan \cup Account -> Worker \cup {None}]
         /\ pc' \in [Worker -> {"idle", "loan", "account", "collect"}]
         /\ work' \in [Worker -> Work \cup {None}]
         /\ \A v \in Worker : Locked(v)'
<1>1. TypeOK /\ \A v \in Worker : Locked(v)
  BY DEF IInv
<1>2. /\ pc' = [pc EXCEPT ![w] = "idle"] /\ work' = [work EXCEPT ![w] = None]
      /\ owner' = [r \in Loan \cup Account |-> IF owner[r] = w THEN None ELSE owner[r]]
  BY DEF Stop
<1>3. /\ owner' \in [Loan \cup Account -> Worker \cup {None}]
      /\ pc' \in [Worker -> {"idle", "loan", "account", "collect"}]
      /\ work' \in [Worker -> Work \cup {None}]
  BY <1>1, <1>2 DEF TypeOK
<1>4. ASSUME NEW v \in Worker PROVE Locked(v)'
  <2>1. CASE v = w
    BY <1>1, <1>2, <2>1 DEF TypeOK, Locked
  <2>2. CASE v # w
    <3>1. pc'[v] = pc[v] /\ work'[v] = work[v]
      BY <1>1, <1>2, <2>2 DEF TypeOK
    <3>2. ASSUME pc[v] \in {"account", "collect"} PROVE owner'[work[v].loan] = v
      <4>1. work[v].loan \in Loan /\ owner[work[v].loan] = v
        BY <1>1, <3>2, WorkIs DEF Locked
      <4> QED BY <1>2, <2>2, <4>1
    <3>3. ASSUME pc[v] = "collect" PROVE owner'[PayFrom[work[v].loan]] = v
      <4>1. PayFrom[work[v].loan] \in Account /\ owner[PayFrom[work[v].loan]] = v
        BY <1>1, <3>3, WorkIs DEF Locked
      <4> QED BY <1>2, <2>2, <4>1
    <3> QED BY <1>1, <2>2, <3>1, <3>2, <3>3, WorkerSame
  <2> QED BY <2>1, <2>2
<1> QED BY <1>3, <1>4

(* A worker gives its job back, and the database is as before it took it. *)
LEMMA GivesUpKeeps ==
  ASSUME IInv, NEW w \in Worker, Stop(w), UNCHANGED <<loans, books>>, queue' \subseteq Job,
         UNCHANGED <<day, changes, moved>>, faults' \in 0..MaxFaults
  PROVE  IInv'
<1>1. /\ detail' = detail /\ account' = account /\ rows' = rows /\ receipts' = receipts
      /\ accts' = accts /\ ledger' = ledger /\ day' = day /\ changes' = changes /\ moved' = moved
  BY DEF loans, books
<1>2. /\ owner' \in [Loan \cup Account -> Worker \cup {None}]
      /\ pc' \in [Worker -> {"idle", "loan", "account", "collect"}]
      /\ work' \in [Worker -> Work \cup {None}]
      /\ \A v \in Worker : Locked(v)'
  BY <1>1, StopLeaves
<1>3. TypeOK'
  BY <1>1, <1>2 DEF IInv, TypeOK
<1>4. ASSUME NEW k \in Loan PROVE Kept(k)'
  <2>1. Kept(k)
    BY DEF IInv
  <2> QED BY <1>1, <2>1, LoanSame
<1> QED BY <1>2, <1>3, <1>4 DEF IInv

(* The queue has jobs only, however one ends. *)
LEMMA QueueTypes ==
  ASSUME TypeOK, NEW w
  PROVE  /\ Complete(w) => queue' \subseteq Job
         /\ JobFails(w) => queue' \subseteq Job
         /\ JobStalls(w) => queue' \subseteq Job
<1>1. queue \subseteq Job /\ JobOf(w) \subseteq queue
  BY DEF TypeOK, JobOf, SameId
<1>2. \A j \in Job : [j EXCEPT !.state = "failed"] \in Job
  BY DEF Job
<1>3. \A j \in Job : j.stalls < MaxStalled => [j EXCEPT !.state = "waiting", !.stalls = @ + 1] \in Job
  <2> TAKE j \in Job
  <2> HAVE j.stalls < MaxStalled
  <2>1. MaxStalled \in Nat /\ j.stalls \in 0..MaxStalled /\ j.loan \in Loan /\ j.day \in Day
    BY RepaymentAssumption DEF Job
  <2>2. j.stalls + 1 \in 0..MaxStalled
    BY <2>1
  <2>3. [j EXCEPT !.state = "waiting", !.stalls = @ + 1] =
          [loan |-> j.loan, day |-> j.day, state |-> "waiting", stalls |-> j.stalls + 1]
    <3>1. [j EXCEPT !.state = "waiting"] = [loan |-> j.loan, day |-> j.day, state |-> "waiting", stalls |-> j.stalls]
      BY DEF Job
    <3>2. [j EXCEPT !.state = "waiting", !.stalls = @ + 1]
            = [[j EXCEPT !.state = "waiting"] EXCEPT !.stalls = j.stalls + 1]
      BY <3>1 DEF Job
    <3>3. [[loan |-> j.loan, day |-> j.day, state |-> "waiting", stalls |-> j.stalls] EXCEPT !.stalls = j.stalls + 1]
            = [loan |-> j.loan, day |-> j.day, state |-> "waiting", stalls |-> j.stalls + 1]
      OBVIOUS
    <3> QED BY <3>1, <3>2, <3>3, Zenon
  <2> QED BY <2>1, <2>2, <2>3 DEF Job
<1>4. Complete(w) => queue' \subseteq Job
  BY <1>1 DEF Complete
<1>5. JobFails(w) => queue' \subseteq Job
  BY <1>1, <1>2 DEF JobFails
<1>6. JobStalls(w) => queue' \subseteq Job
  BY <1>1, <1>2, <1>3 DEF JobStalls
<1> QED BY <1>4, <1>5, <1>6

-----------------------------------------------------------------------------
(* The steps of a worker that collect nothing.                               *)

(* A job that stalls keeps the invariant, whether its worker dies or hangs. *)
LEMMA StallKeeps ==
  ASSUME IInv, NEW w \in Worker, JobStalls(w)
  PROVE  IInv'
<1>1. TypeOK /\ \A v \in Worker : Locked(v)
  BY DEF IInv
<1>2. queue' \subseteq Job
  BY <1>1, QueueTypes
<1>3. faults' \in 0..MaxFaults /\ UNCHANGED <<loans, books>> /\ UNCHANGED <<day, changes, moved>>
      /\ pc[w] # "idle"
  <2>1. faults' \in 0..MaxFaults
    <3>1. faults < MaxFaults /\ faults' = faults + 1
      BY DEF JobStalls, Fault
    <3>2. faults \in 0..MaxFaults /\ MaxFaults \in Nat
      BY <1>1, RepaymentAssumption DEF TypeOK
    <3> QED BY <3>1, <3>2
  <2> QED BY <2>1 DEF JobStalls
<1>4. CASE Stop(w)
  BY <1>2, <1>3, <1>4, GivesUpKeeps
<1>5. CASE work' = [work EXCEPT ![w].holds = FALSE] /\ UNCHANGED <<owner, pc>>
  <2>1. /\ detail' = detail /\ account' = account /\ rows' = rows /\ receipts' = receipts
        /\ accts' = accts /\ ledger' = ledger
    BY <1>3 DEF loans, books
  <2>2. work[w] \in Work
    BY <1>1, <1>3, WorkIs
  <2>3. PICK x : x = [work[w] EXCEPT !.holds = FALSE]
    OBVIOUS
  <2>4. /\ x \in Work /\ x.loan = work[w].loan /\ x.detail = work[w].detail /\ x.book = work[w].book
        /\ x.row = work[w].row
    BY <2>2, <2>3 DEF Work
  <2>5. work' = [work EXCEPT ![w] = x]
    BY <1>1, <1>5, <2>3 DEF TypeOK
  <2>6. work'[w] = x /\ \A v \in Worker : v # w => work'[v] = work[v]
    BY <1>1, <2>5 DEF TypeOK
  <2>7. TypeOK'
    BY <1>1, <1>2, <1>3, <1>5, <2>1, <2>4, <2>5 DEF TypeOK
  <2>8. ASSUME NEW v \in Worker PROVE Locked(v)'
    <3>1. CASE v = w
      <4>1. /\ pc[w] \in {"account", "collect"} =>
                 /\ owner[x.loan] = w /\ Open(detail[x.loan])
                 /\ x.detail = detail[x.loan] /\ x.book = account[x.loan].book
            /\ pc[w] = "collect" => owner[PayFrom[x.loan]] = w /\ x.row = accts[PayFrom[x.loan]]
        BY <1>1, <2>4 DEF Locked
      <4>2. Locked(w)'
        BY <1>5, <2>1, <2>4, <2>6, <4>1 DEF Locked
      <4> QED BY <3>1, <4>2
    <3>2. CASE v # w
      BY <1>1, <1>5, <2>1, <2>6, <3>2 DEF Locked
    <3> QED BY <3>1, <3>2
  <2>9. ASSUME NEW k \in Loan PROVE Kept(k)'
    <3>1. Kept(k)
      BY DEF IInv
    <3> QED BY <2>1, <3>1, LoanSame
  <2> QED BY <2>7, <2>8, <2>9 DEF IInv
<1> QED BY <1>4, <1>5 DEF JobStalls

(* A worker that locks its loan has read the two rows it locks. *)
LEMMA LockLoanKeeps ==
  ASSUME IInv, NEW w \in Worker, LockLoan(w)
  PROVE  IInv'
<1>1. TypeOK /\ \A v \in Worker : Locked(v)
  BY DEF IInv
<1>2. PICK l : l = work[w].loan
  OBVIOUS
<1>3. /\ pc[w] = "loan" /\ Free(l) /\ Open(detail[l])
      /\ pc' = [pc EXCEPT ![w] = "account"] /\ owner' = [owner EXCEPT ![l] = w]
      /\ work' = [work EXCEPT ![w].detail = detail[l], ![w].book = account[l].book]
      /\ detail' = detail /\ account' = account /\ rows' = rows /\ receipts' = receipts
      /\ accts' = accts /\ ledger' = ledger /\ queue' = queue
      /\ day' = day /\ faults' = faults /\ changes' = changes /\ moved' = moved
  BY <1>2 DEF LockLoan, loans, books, world
<1>4. work[w] \in Work /\ l \in Loan /\ l \notin Account
  BY <1>1, <1>2, <1>3, WorkIs
<1>5. PICK x : x = [work[w] EXCEPT !.detail = detail[l], !.book = account[l].book]
  OBVIOUS
<1>6. /\ x \in Work /\ x.loan = l /\ x.detail = detail[l] /\ x.book = account[l].book
  BY <1>1, <1>2, <1>4, <1>5 DEF TypeOK, Work, LoanAccountRow
<1>7. work' = [work EXCEPT ![w] = x]
  BY <1>1, <1>3, <1>5 DEF TypeOK
<1>8. /\ work'[w] = x /\ pc'[w] = "account" /\ owner'[l] = w
      /\ \A v \in Worker : v # w => work'[v] = work[v] /\ pc'[v] = pc[v]
      /\ \A r \in Loan \cup Account : r # l => owner'[r] = owner[r]
  BY <1>1, <1>3, <1>4, <1>7 DEF TypeOK
<1>9. TypeOK'
  <2>1. work' \in [Worker -> Work \cup {None}]
    BY <1>1, <1>6, <1>7 DEF TypeOK
  <2>2. pc' \in [Worker -> {"idle", "loan", "account", "collect"}]
    BY <1>1, <1>3 DEF TypeOK
  <2>3. owner' \in [Loan \cup Account -> Worker \cup {None}]
    BY <1>1, <1>3 DEF TypeOK
  <2> QED BY <1>1, <1>3, <2>1, <2>2, <2>3 DEF TypeOK
<1>10. ASSUME NEW v \in Worker PROVE Locked(v)'
  <2>1. CASE v = w
    BY <1>3, <1>6, <1>8, <2>1 DEF Locked
  <2>2. CASE v # w
    <3>1. ASSUME pc[v] \in {"account", "collect"}
          PROVE  work[v].loan \in Loan \cup Account /\ owner[work[v].loan] = v /\ v # None
      BY <1>1, <3>1, WorkIs DEF Locked
    <3>2. ASSUME pc[v] = "collect"
          PROVE  PayFrom[work[v].loan] \in Loan \cup Account /\ owner[PayFrom[work[v].loan]] = v
      BY <1>1, <3>2, WorkIs DEF Locked
    <3>3. Locked(v)
      BY <1>1
    <3> QED BY <1>3, <1>8, <2>2, <3>1, <3>2, <3>3, WorkerSame DEF Free
  <2> QED BY <2>1, <2>2
<1>11. ASSUME NEW k \in Loan PROVE Kept(k)'
  <2>1. Kept(k)
    BY DEF IInv
  <2> QED BY <1>3, <2>1, LoanSame
<1> QED BY <1>9, <1>10, <1>11 DEF IInv

(* A worker that locks the repayment account has read the row it locks. *)
LEMMA LockAccountKeeps ==
  ASSUME IInv, NEW w \in Worker, LockAccount(w)
  PROVE  IInv'
<1>1. TypeOK /\ \A v \in Worker : Locked(v)
  BY DEF IInv
<1>2. PICK l : l = work[w].loan
  OBVIOUS
<1>3. PICK a : a = PayFrom[l]
  OBVIOUS
<1>4. /\ pc[w] = "account" /\ Free(a)
      /\ pc' = [pc EXCEPT ![w] = "collect"] /\ owner' = [owner EXCEPT ![a] = w]
      /\ work' = [work EXCEPT ![w].row = accts[a]]
      /\ detail' = detail /\ account' = account /\ rows' = rows /\ receipts' = receipts
      /\ accts' = accts /\ ledger' = ledger /\ queue' = queue
      /\ day' = day /\ faults' = faults /\ changes' = changes /\ moved' = moved
  BY <1>2, <1>3 DEF LockAccount, loans, books, world
<1>5. work[w] \in Work /\ l \in Loan /\ l \notin Account /\ a \in Account
  BY <1>1, <1>2, <1>3, <1>4, WorkIs
<1>6. PICK x : x = [work[w] EXCEPT !.row = accts[a]]
  OBVIOUS
<1>7. /\ x \in Work /\ x.loan = l /\ x.detail = work[w].detail /\ x.book = work[w].book /\ x.row = accts[a]
  BY <1>1, <1>2, <1>5, <1>6 DEF TypeOK, Work
<1>8. work' = [work EXCEPT ![w] = x]
  BY <1>1, <1>4, <1>6 DEF TypeOK
<1>9. /\ work'[w] = x /\ pc'[w] = "collect" /\ owner'[a] = w
      /\ \A v \in Worker : v # w => work'[v] = work[v] /\ pc'[v] = pc[v]
      /\ \A r \in Loan \cup Account : r # a => owner'[r] = owner[r]
  BY <1>1, <1>4, <1>5, <1>8 DEF TypeOK
<1>10. TypeOK'
  BY <1>1, <1>4, <1>5, <1>7, <1>8 DEF TypeOK
<1>11. ASSUME NEW v \in Worker PROVE Locked(v)'
  <2>1. CASE v = w
    <3>1. owner[l] = w /\ Open(detail[l]) /\ work[w].detail = detail[l] /\ work[w].book = account[l].book
      BY <1>1, <1>2, <1>4 DEF Locked
    <3>2. owner'[l] = w
      BY <1>5, <1>9, <3>1
    <3>3. work'[w] \in Work /\ work'[w].loan = l /\ PayFrom[work'[w].loan] = a /\ owner'[a] = w
      BY <1>3, <1>7, <1>9
    <3>4. /\ work'[w].detail = detail'[l] /\ work'[w].book = account'[l].book /\ Open(detail'[l])
          /\ work'[w].row = accts'[a]
      BY <1>4, <1>7, <1>9, <3>1
    <3>5. Locked(w)'
      BY <3>2, <3>3, <3>4 DEF Locked
    <3> QED BY <2>1, <3>5
  <2>2. CASE v # w
    <3>1. ASSUME pc[v] \in {"account", "collect"}
          PROVE  work[v].loan \in Loan \cup Account /\ owner[work[v].loan] = v /\ v # None
      BY <1>1, <3>1, WorkIs DEF Locked
    <3>2. ASSUME pc[v] = "collect"
          PROVE  PayFrom[work[v].loan] \in Loan \cup Account /\ owner[PayFrom[work[v].loan]] = v
      BY <1>1, <3>2, WorkIs DEF Locked
    <3>3. Locked(v)
      BY <1>1
    <3> QED BY <1>4, <1>9, <2>2, <3>1, <3>2, <3>3, WorkerSame DEF Free
  <2> QED BY <2>1, <2>2
<1>12. ASSUME NEW k \in Loan PROVE Kept(k)'
  <2>1. Kept(k)
    BY DEF IInv
  <2> QED BY <1>4, <2>1, LoanSame
<1> QED BY <1>10, <1>11, <1>12 DEF IInv

(* A loan that is not open any more, an account that is not there, a posting that throws. *)
LEMMA NothingDoneKeeps ==
  ASSUME IInv, NEW w \in Worker, LoanNotOpen(w) \/ AccountMissing(w) \/ CollectThrows(w)
  PROVE  IInv'
<1>1. TypeOK
  BY DEF IInv
<1>2. /\ Stop(w) /\ UNCHANGED <<loans, books>> /\ day' = day /\ faults' = faults /\ changes' = changes
      /\ moved' = moved
  BY DEF LoanNotOpen, AccountMissing, CollectThrows, Complete, JobFails, world
<1>3. queue' \subseteq Job
  BY <1>1, QueueTypes DEF LoanNotOpen, AccountMissing, CollectThrows
<1>4. faults' \in 0..MaxFaults
  BY <1>1, <1>2 DEF TypeOK
<1> QED BY <1>2, <1>3, <1>4, GivesUpKeeps

(* Instalments that are only marked. *)
LEMMA MarkedFits ==
  ASSUME NEW l \in Loan, NEW rr, Fits(l, rr), NEW rn \in Seq(Row), Len(rn) = Len(rr),
         \A k \in 1..Len(rr) : /\ rn[k].got = rr[k].got /\ rn[k].total = rr[k].total
                               /\ rr[k].status = "paid" => rn[k].status = "paid"
  PROVE  Fits(l, rn) /\ \A b \in Bucket : GotOf(rn, b) = GotOf(rr, b)
<1>1. rr \in Seq(Row) /\ Len(rr) = Len(Instalment[l]) /\ DOMAIN rr = 1..Len(rr) /\ DOMAIN rn = 1..Len(rr)
      /\ Len(rr) \in Nat
  BY DEF Fits
<1>2. \A k \in 1..Len(rr) : Done(l, k, rr[k]) => Done(l, k, rn[k])
  BY DEF Done, Uncollected
<1>3. ASSUME NEW k \in 1..Len(rr) PROVE RowFits(l, k, rn[k])
  BY DEF Fits, RowFits
<1>4. ASSUME NEW k \in 1..Len(rr), rn[k].total > 0, NEW j \in 1..(k - 1) PROVE Done(l, j, rn[j])
  <2>1. j \in 1..Len(rr) /\ Done(l, j, rr[j])
    BY <1>1, <1>4 DEF Fits
  <2> QED BY <1>2, <2>1
<1>5. Fits(l, rn)
  BY <1>1, <1>3, <1>4 DEF Fits
<1>6. ASSUME NEW b \in Bucket PROVE GotOf(rn, b) = GotOf(rr, b)
  <2>1. [k \in DOMAIN rn |-> rn[k].got[b]] = [k \in DOMAIN rr |-> rr[k].got[b]]
    BY <1>1
  <2> QED BY <2>1, Zenon DEF GotOf
<1> QED BY <1>5, <1>6

(* What a worker does to its own loan leaves the rows of the others as they have read them. *)
LEMMA OthersUntouched ==
  ASSUME IInv, NEW w \in Worker, pc[w] = "collect",
         \A k \in Loan : k # work[w].loan => detail'[k] = detail[k] /\ account'[k] = account[k],
         \A a \in Account : a # PayFrom[work[w].loan] => accts'[a] = accts[a]
  PROVE  \A v \in Worker \ {w} :
           /\ pc[v] \in {"account", "collect"} =>
                detail'[work[v].loan] = detail[work[v].loan] /\ account'[work[v].loan] = account[work[v].loan]
           /\ pc[v] = "collect" => accts'[PayFrom[work[v].loan]] = accts[PayFrom[work[v].loan]]
<1> SUFFICES ASSUME NEW v \in Worker, v # w
             PROVE  /\ pc[v] \in {"account", "collect"} =>
                         /\ detail'[work[v].loan] = detail[work[v].loan]
                         /\ account'[work[v].loan] = account[work[v].loan]
                    /\ pc[v] = "collect" => accts'[PayFrom[work[v].loan]] = accts[PayFrom[work[v].loan]]
  OBVIOUS
<1>1. TypeOK /\ Locked(v)
  BY DEF IInv
<1>2. pc[v] \in {"account", "collect"} => work[v].loan \in Loan /\ work[v].loan # work[w].loan
  BY <1>1, OwnRows, WorkIs
<1>3. pc[v] = "collect" => PayFrom[work[v].loan] \in Account /\ PayFrom[work[v].loan] # PayFrom[work[w].loan]
  BY <1>1, OwnRows, WorkIs
<1> QED BY <1>2, <1>3

(* A worker that marks what is due as overdue. *)
LEMMA MarkOverdueKeeps ==
  ASSUME IInv, NEW w \in Worker, MarkOverdue(w)
  PROVE  IInv'
<1>1. TypeOK /\ \A v \in Worker : Locked(v)
  BY DEF IInv
<1>2. PICK l : l = work[w].loan
  OBVIOUS
<1>3. l \in Loan
  BY <1>1, <1>2, WorkIs DEF MarkOverdue
<1> DEFINE rn == [k \in DOMAIN Instalment[l] |->
                    IF Instalment[l][k].day <= work[w].at /\ rows[l][k].status # "paid"
                    THEN [rows[l][k] EXCEPT !.status = "overdue"] ELSE rows[l][k]]
<1>4. /\ pc[w] = "collect" /\ rows' = [rows EXCEPT ![l] = rn] /\ Complete(w) /\ Stop(w)
      /\ detail' = detail /\ account' = account /\ receipts' = receipts /\ accts' = accts /\ ledger' = ledger
      /\ day' = day /\ faults' = faults /\ changes' = changes /\ moved' = moved
  BY <1>2 DEF MarkOverdue, Complete, books, world
<1>5. /\ Kept(l) /\ Fits(l, rows[l]) /\ rows[l] \in Seq(Row) /\ Len(rows[l]) = Len(Instalment[l])
      /\ DOMAIN Instalment[l] = 1..Len(rows[l]) /\ Len(rows[l]) \in Nat
  BY <1>3, RepaymentAssumption DEF IInv, Kept, Fits
<1>6. ASSUME NEW k \in 1..Len(rows[l])
      PROVE  /\ rn[k] \in Row /\ rn[k].got = rows[l][k].got /\ rn[k].total = rows[l][k].total
             /\ rows[l][k].status = "paid" => rn[k].status = "paid"
  <2>1. rows[l][k] \in Row
    BY <1>5
  <2>2. /\ [rows[l][k] EXCEPT !.status = "overdue"] \in Row
        /\ [rows[l][k] EXCEPT !.status = "overdue"].got = rows[l][k].got
        /\ [rows[l][k] EXCEPT !.status = "overdue"].total = rows[l][k].total
    BY <2>1 DEF Row, RowStatus
  <2> QED BY <1>5, <2>1, <2>2
<1>7. rn \in Seq(Row) /\ Len(rn) = Len(rows[l])
  <2>1. rn = [k \in 1..Len(rows[l]) |-> rn[k]]
    BY <1>5
  <2> HIDE DEF rn
  <2> QED BY <1>5, <1>6, <2>1
<1> HIDE DEF rn
<1>8. Fits(l, rn) /\ \A b \in Bucket : GotOf(rn, b) = GotOf(rows[l], b)
  BY <1>3, <1>5, <1>6, <1>7, MarkedFits
<1>9. rows'[l] = rn /\ rows' \in [Loan -> Seq(Row)] /\ \A k \in Loan : k # l => rows'[k] = rows[k]
  BY <1>1, <1>3, <1>4, <1>7 DEF TypeOK
<1>10. queue' \subseteq Job
  BY <1>1, <1>4, QueueTypes
<1>11. /\ owner' \in [Loan \cup Account -> Worker \cup {None}]
       /\ pc' \in [Worker -> {"idle", "loan", "account", "collect"}]
       /\ work' \in [Worker -> Work \cup {None}]
       /\ \A v \in Worker : Locked(v)'
  BY <1>4, StopLeaves
<1>12. ASSUME NEW k \in Loan PROVE Kept(k)' /\ Len(rows'[k]) = Len(Instalment[k])
  <2>1. Kept(k) /\ Len(rows[k]) = Len(Instalment[k])
    BY DEF IInv, Kept, Fits
  <2>2. CASE k # l
    BY <1>4, <1>9, <2>1, <2>2, LoanSame
  <2>3. CASE k = l
    <3>1. Collected(l, "P") = GotOf(rows[l], "P") /\ Collected(l, "P")' = GotOf(rows'[l], "P")
      BY Zenon DEF Collected, GotOf
    <3>2. Collected(l, "P")' = Collected(l, "P")
      BY <1>8, <1>9, <3>1 DEF Bucket
    <3>3. Open(detail[l])
      BY <1>1, <1>2, <1>4 DEF Locked
    <3>4. LoanBooks(l)' /\ ClosedIsPaid(l)'
      BY <1>4, <1>5, <3>2, <3>3 DEF Kept, LoanBooks, ClosedIsPaid, Open
    <3>5. Fits(l, rows[l])'
      BY <1>8, <1>9
    <3> QED BY <1>5, <1>7, <1>9, <2>3, <3>4, <3>5 DEF Kept
  <2> QED BY <2>2, <2>3
<1>13. TypeOK'
  BY <1>1, <1>4, <1>9, <1>10, <1>11, <1>12 DEF TypeOK
<1> QED BY <1>11, <1>12, <1>13 DEF IInv

-----------------------------------------------------------------------------
(* The collection.                                                           *)

(* What a worker that collects does to the database. *)
Collects(w, l, a, r, g) ==
  /\ Going(l, Available(work[w].row), rows[l], work[w].at, a, r, g, Len(rows[l]))
  /\ Sum(g) > 0 => ~Throws(l, g)
  /\ rows' = [rows EXCEPT ![l] = r]
  /\ Posts(l, g)
  /\ receipts' = [receipts EXCEPT ![l] = @ + g["P"]]
  /\ SettleLoan(w, State(a, r, g))

(* Collect does one of these things. *)
LEMMA CollectGives ==
  ASSUME IInv, NEW w \in Worker, Collect(w)
  PROVE  /\ pc[w] = "collect" /\ Debitable(work[w].row) /\ Complete(w) /\ UNCHANGED world
         /\ \E a, r, g : Collects(w, work[w].loan, a, r, g)
<1>1. TypeOK /\ \A v \in Worker : Locked(v)
  BY DEF IInv
<1>2. PICK l : l = work[w].loan
  OBVIOUS
<1>3. /\ pc[w] = "collect" /\ Debitable(work[w].row) /\ Complete(w) /\ UNCHANGED world
      /\ Sum(Collection(w).got) > 0 => ~Throws(l, Collection(w).got)
      /\ rows' = [rows EXCEPT ![l] = Collection(w).rows]
      /\ Posts(l, Collection(w).got)
      /\ receipts' = [receipts EXCEPT ![l] = @ + Collection(w).got["P"]]
      /\ SettleLoan(w, Collection(w))
  BY <1>2 DEF Collect
<1>4. l \in Loan /\ work[w].at \in Nat /\ PayFrom[l] \in Account
  BY <1>1, <1>2, <1>3, WorkIs
<1>5. Fits(l, rows[l])
  BY <1>4 DEF IInv, Kept
<1>6. Available(work[w].row) \in Int
  <2>1. work[w].row = accts[PayFrom[l]]
    BY <1>1, <1>2, <1>3 DEF Locked
  <2>2. accts[PayFrom[l]] \in AccountRow
    BY <1>1, <1>4 DEF TypeOK
  <2> QED BY <2>1, <2>2 DEF Available, AccountRow
<1>7. PICK a, r, g : /\ Collection(w) = State(a, r, g)
                     /\ Going(l, Available(work[w].row), rows[l], work[w].at, a, r, g, Len(rows[l]))
  BY <1>2, <1>4, <1>5, <1>6, CollectionIs
<1>8. Collection(w).rows = r /\ Collection(w).got = g
  BY <1>7 DEF State
<1>9. Collects(w, l, a, r, g)
  <2>1. Sum(g) > 0 => ~Throws(l, g)
    BY <1>3, <1>8, Zenon
  <2>2. rows' = [rows EXCEPT ![l] = r]
    BY <1>3, <1>8, Zenon
  <2>3. Posts(l, g)
    BY <1>3, <1>8, Zenon
  <2>4. receipts' = [receipts EXCEPT ![l] = @ + g["P"]]
    BY <1>3, <1>8, Zenon
  <2>5. SettleLoan(w, State(a, r, g))
    BY <1>3, <1>7, Zenon
  <2> QED BY <1>7, <2>1, <2>2, <2>3, <2>4, <2>5 DEF Collects
<1> QED BY <1>2, <1>3, <1>9

(* What is known of the loan and the account of a worker that collects. *)
LEMMA CollectorIs ==
  ASSUME IInv, NEW w \in Worker, pc[w] = "collect", NEW l, l = work[w].loan
  PROVE  /\ l \in Loan /\ PayFrom[l] \in Account /\ work[w].row = accts[PayFrom[l]]
         /\ accts[PayFrom[l]] \in AccountRow /\ Available(work[w].row) \in Int
         /\ work[w].detail = detail[l] /\ work[w].book = account[l].book /\ detail[l].status = "disbursed"
         /\ detail[l] \in LoanRow /\ account[l] \in LoanAccountRow /\ receipts[l] \in Nat
         /\ Kept(l) /\ Fits(l, rows[l])
<1>1. TypeOK /\ Locked(w)
  BY DEF IInv
<1>2. l \in Loan /\ PayFrom[l] \in Account
  BY <1>1, WorkIs
<1>3. accts[PayFrom[l]] \in AccountRow
  BY <1>1, <1>2 DEF TypeOK
<1>4. work[w].row = accts[PayFrom[l]]
  BY <1>1 DEF Locked
<1>5. Available(work[w].row) \in Int
  BY <1>3, <1>4 DEF Available, AccountRow
<1>6. work[w].detail = detail[l] /\ work[w].book = account[l].book /\ detail[l].status = "disbursed"
  BY <1>1 DEF Locked, Open
<1>7. detail[l] \in LoanRow /\ account[l] \in LoanAccountRow /\ receipts[l] \in Nat
  BY <1>1, <1>2 DEF TypeOK
<1>8. Kept(l) /\ Fits(l, rows[l])
  BY <1>2 DEF IInv, Kept
<1> QED BY <1>2, <1>3, <1>4, <1>5, <1>6, <1>7, <1>8

(* What becomes of the loan's two rows. *)
SettlesTo(l, r, p) ==
  /\ detail' \in [Loan -> LoanRow] /\ account' \in [Loan -> LoanAccountRow]
  /\ \A k \in Loan : k # l => detail'[k] = detail[k] /\ account'[k] = account[k]
  /\ account'[l].book = account[l].book + p
  /\ detail'[l].outstanding = (IF account'[l].book >= 0 THEN 0 ELSE -account'[l].book)
  /\ detail'[l].status = "paid_off" =>
       account'[l].book >= 0 /\ \A k \in DOMAIN Instalment[l] : r[k].status = "paid"
  /\ (detail'[l].status = "paid_off") = (account'[l].status = "closed")

(* They follow the principal that was collected, and end with the last of it. *)
LEMMA SettleIs ==
  ASSUME IInv, NEW w \in Worker, pc[w] = "collect", NEW l, l = work[w].loan,
         NEW a, NEW r, NEW g, Collects(w, l, a, r, g)
  PROVE  SettlesTo(l, r, g["P"])
<1>1. TypeOK
  BY DEF IInv
<1>2. /\ l \in Loan /\ work[w].detail = detail[l] /\ work[w].book = account[l].book
      /\ detail[l].status = "disbursed" /\ detail[l] \in LoanRow /\ account[l] \in LoanAccountRow
      /\ Kept(l)
  BY CollectorIs
<1>3. detail \in [Loan -> LoanRow] /\ account \in [Loan -> LoanAccountRow]
  BY <1>1 DEF TypeOK
<1>4. g["P"] \in Nat
  BY DEF Collects, Going, Amounts, Bucket
<1>5. /\ detail[l].outstanding = (IF account[l].book >= 0 THEN 0 ELSE -account[l].book)
      /\ account[l].status = "active" /\ account[l].book \in Int /\ detail[l].outstanding \in Nat
  BY <1>2 DEF Kept, LoanBooks, ClosedIsPaid, LoanRow, LoanAccountRow
<1>6. CASE ~(g["P"] > 0)
  <2>1. detail' = detail /\ account' = account
    BY <1>6 DEF Collects, SettleLoan, State
  <2> QED BY <1>2, <1>3, <1>4, <1>5, <1>6, <2>1 DEF SettlesTo
<1>7. CASE g["P"] > 0
  <2>1. PICK out : out = detail[l].outstanding - g["P"]
    OBVIOUS
  <2>2. PICK closes : closes = PaidOff(l, out, r)
    OBVIOUS
  <2>3. PICK d : d = [status |-> IF closes THEN "paid_off" ELSE detail[l].status,
                      outstanding |-> IF out <= 0 THEN 0 ELSE out]
    OBVIOUS
  <2>4. PICK c : c = [status |-> IF closes THEN "closed" ELSE account[l].status,
                      book |-> account[l].book + g["P"]]
    OBVIOUS
  <2>5. /\ detail' = [detail EXCEPT ![l] =
               [status |-> IF closes THEN "paid_off" ELSE @.status, outstanding |-> IF out <= 0 THEN 0 ELSE out]]
        /\ account' = [account EXCEPT ![l] =
               [status |-> IF closes THEN "closed" ELSE @.status, book |-> account[l].book + g["P"]]]
    <3>1. State(a, r, g).got = g /\ State(a, r, g).rows = r
      BY DEF State
    <3> QED BY <1>2, <1>7, <2>1, <2>2, <3>1 DEF Collects, SettleLoan
  <2>6. detail' = [detail EXCEPT ![l] = d] /\ account' = [account EXCEPT ![l] = c]
    BY <1>2, <1>3, <2>3, <2>4, <2>5
  <2>7. out \in Int /\ d \in LoanRow /\ c \in LoanAccountRow
        /\ d.outstanding = (IF out <= 0 THEN 0 ELSE out) /\ c.book = account[l].book + g["P"]
        /\ d.status = (IF closes THEN "paid_off" ELSE "disbursed") /\ c.status = (IF closes THEN "closed" ELSE "active")
    <3>1. out \in Int
      BY <1>4, <1>5, <2>1
    <3>2. d.outstanding = (IF out <= 0 THEN 0 ELSE out) /\ d.status = (IF closes THEN "paid_off" ELSE "disbursed")
          /\ d \in LoanRow
      BY <1>2, <2>3, <3>1 DEF LoanRow
    <3>3. c.book = account[l].book + g["P"] /\ c.status = (IF closes THEN "closed" ELSE "active")
          /\ c \in LoanAccountRow
      BY <1>4, <1>5, <2>4 DEF LoanAccountRow
    <3> QED BY <3>1, <3>2, <3>3
  <2>8. /\ detail'[l] = d /\ account'[l] = c /\ detail' \in [Loan -> LoanRow] /\ account' \in [Loan -> LoanAccountRow]
        /\ \A k \in Loan : k # l => detail'[k] = detail[k] /\ account'[k] = account[k]
    BY <1>2, <1>3, <2>6, <2>7
  <2>9. closes => out <= 0 /\ \A k \in DOMAIN Instalment[l] : r[k].status = "paid"
    BY <2>2 DEF PaidOff, NoneLeft
  <2>10. out <= 0 <=> account[l].book + g["P"] >= 0
    BY <1>4, <1>5, <1>7, <2>1
  <2>11. d.outstanding = IF c.book >= 0 THEN 0 ELSE -c.book
    BY <1>4, <1>5, <1>7, <2>1, <2>7, <2>10
  <2> QED BY <1>7, <2>7, <2>8, <2>9, <2>10, <2>11 DEF SettlesTo
<1> QED BY <1>6, <1>7

(* The ledgers and the account a repayment is posted to. *)
LEMMA PostsIs ==
  ASSUME TypeOK, NEW l \in Loan, NEW g \in Amounts, Posts(l, g)
  PROVE  /\ accts' \in [Account -> AccountRow] /\ ledger' \in [Gl -> Int]
         /\ \A a \in Account : a # PayFrom[l] => accts'[a] = accts[a]
         /\ Sum(g) > 0 /\ PostingAnswer(l, g) = "ok" =>
              /\ accts' = [accts EXCEPT ![PayFrom[l]].bookBalance = @ - Sum(g)]
              /\ \A h \in Gl : ledger'[h] = ledger[h]
                   + (Share(l, g, h) - (IF ControlGl[PayFrom[l]] = h THEN Sum(g) ELSE 0))
         /\ ~(Sum(g) > 0 /\ PostingAnswer(l, g) = "ok") => accts' = accts /\ ledger' = ledger
<1>1. CASE ~(Sum(g) > 0 /\ PostingAnswer(l, g) = "ok")
  <2>1. accts' = accts /\ ledger' = ledger
    BY <1>1 DEF Posts, books
  <2> QED BY <1>1, <2>1 DEF TypeOK
<1>2. CASE Sum(g) > 0 /\ PostingAnswer(l, g) = "ok"
  <2>1. /\ accts' = [accts EXCEPT ![PayFrom[l]].bookBalance = @ - Sum(g)]
        /\ ledger' = [h \in Gl |-> ledger[h] + LedgerChange(PayloadOf(l, g), h)]
    BY <1>2 DEF Posts
  <2>2. ~NamedTwice(l, g)
    BY <1>2 DEF PostingAnswer
  <2>3. PayFrom[l] \in Account /\ Sum(g) \in Nat
    BY RepaymentAssumption, SumIsNat
  <2>4. PICK row : row = [accts[PayFrom[l]] EXCEPT !.bookBalance = @ - Sum(g)]
    OBVIOUS
  <2>5. row \in AccountRow /\ accts' = [accts EXCEPT ![PayFrom[l]] = row]
    <3>1. accts[PayFrom[l]] \in AccountRow /\ accts \in [Account -> AccountRow]
      BY <2>3 DEF TypeOK
    <3>2. row \in AccountRow
      BY <2>3, <2>4, <3>1 DEF AccountRow
    <3> QED BY <2>1, <2>3, <2>4, <3>1, <3>2
  <2>6. accts' \in [Account -> AccountRow] /\ \A a \in Account : a # PayFrom[l] => accts'[a] = accts[a]
    BY <2>5 DEF TypeOK
  <2>7. ASSUME NEW h \in Gl
        PROVE  /\ ledger'[h] \in Int
               /\ ledger'[h] = ledger[h] + (Share(l, g, h) - (IF ControlGl[PayFrom[l]] = h THEN Sum(g) ELSE 0))
    <3>1. /\ LedgerChange(PayloadOf(l, g), h) = Share(l, g, h) - (IF ControlGl[PayFrom[l]] = h THEN Sum(g) ELSE 0)
          /\ LedgerChange(PayloadOf(l, g), h) \in Int
      BY <2>2, JournalIs
    <3>2. ledger[h] \in Int /\ ledger'[h] = ledger[h] + LedgerChange(PayloadOf(l, g), h)
      BY <2>1 DEF TypeOK
    <3> QED BY <3>1, <3>2
  <2>8. ledger' \in [Gl -> Int]
    BY <2>1, <2>7
  <2> QED BY <1>2, <2>1, <2>6, <2>7, <2>8
<1> QED BY <1>1, <1>2

(* A worker that collects keeps the invariant. *)
LEMMA CollectKeeps ==
  ASSUME IInv, NEW w \in Worker, Collect(w)
  PROVE  IInv'
<1>1. TypeOK /\ \A v \in Worker : Locked(v)
  BY DEF IInv
<1>2. PICK l : l = work[w].loan
  OBVIOUS
<1>3. pc[w] = "collect" /\ Complete(w) /\ UNCHANGED world
  BY CollectGives
<1>4. PICK a, r, g : Collects(w, l, a, r, g)
  BY <1>2, CollectGives
<1>5. l \in Loan /\ Kept(l) /\ receipts[l] \in Nat /\ account[l] \in LoanAccountRow
  BY <1>2, <1>3, CollectorIs
<1>6. /\ Fits(l, r) /\ g \in Amounts /\ GotOf(r, "P") = GotOf(rows[l], "P") + g["P"] /\ g["P"] \in Nat
      /\ r \in Seq(Row) /\ Len(r) = Len(Instalment[l])
  BY <1>4 DEF Collects, Going, Amounts, Bucket, Fits
<1>7. /\ rows' = [rows EXCEPT ![l] = r] /\ Posts(l, g) /\ receipts' = [receipts EXCEPT ![l] = @ + g["P"]]
  BY <1>4 DEF Collects
<1>8. /\ detail' \in [Loan -> LoanRow] /\ account' \in [Loan -> LoanAccountRow]
      /\ \A k \in Loan : k # l => detail'[k] = detail[k] /\ account'[k] = account[k]
      /\ account'[l].book = account[l].book + g["P"]
      /\ detail'[l].outstanding = (IF account'[l].book >= 0 THEN 0 ELSE -account'[l].book)
      /\ detail'[l].status = "paid_off" =>
           account'[l].book >= 0 /\ \A k \in DOMAIN Instalment[l] : r[k].status = "paid"
      /\ (detail'[l].status = "paid_off") = (account'[l].status = "closed")
  <2>1. SettlesTo(l, r, g["P"])
    BY <1>2, <1>3, <1>4, SettleIs
  <2> QED BY <2>1 DEF SettlesTo
<1>9. /\ accts' \in [Account -> AccountRow] /\ ledger' \in [Gl -> Int]
      /\ \A b \in Account : b # PayFrom[l] => accts'[b] = accts[b]
  BY <1>1, <1>5, <1>6, <1>7, PostsIs
<1>10. /\ rows'[l] = r /\ receipts'[l] = receipts[l] + g["P"]
       /\ rows' \in [Loan -> Seq(Row)] /\ receipts' \in [Loan -> Nat]
       /\ \A k \in Loan : k # l => rows'[k] = rows[k] /\ receipts'[k] = receipts[k]
  BY <1>1, <1>5, <1>6, <1>7 DEF TypeOK
<1>11. queue' \subseteq Job
  BY <1>1, <1>3, QueueTypes
<1>12. /\ owner' \in [Loan \cup Account -> Worker \cup {None}]
       /\ pc' \in [Worker -> {"idle", "loan", "account", "collect"}]
       /\ work' \in [Worker -> Work \cup {None}]
       /\ \A v \in Worker : Locked(v)'
  <2>1. \A v \in Worker \ {w} :
          /\ pc[v] \in {"account", "collect"} =>
               detail'[work[v].loan] = detail[work[v].loan] /\ account'[work[v].loan] = account[work[v].loan]
          /\ pc[v] = "collect" => accts'[PayFrom[work[v].loan]] = accts[PayFrom[work[v].loan]]
    BY <1>2, <1>3, <1>8, <1>9, OthersUntouched
  <2> QED BY <1>3, <2>1, StopLeaves DEF Complete
<1>13. ASSUME NEW k \in Loan PROVE Kept(k)' /\ Len(rows'[k]) = Len(Instalment[k])
  <2>1. Kept(k) /\ Len(rows[k]) = Len(Instalment[k])
    BY DEF IInv, Kept, Fits
  <2>2. CASE k # l
    BY <1>8, <1>10, <2>1, <2>2, LoanSame
  <2>3. CASE k = l
    <3>1. Collected(l, "P") = GotOf(rows[l], "P") /\ Collected(l, "P")' = GotOf(rows'[l], "P")
      BY Zenon DEF Collected, GotOf
    <3>2. GotOf(rows[l], "P") \in Int
      BY <1>5, GotType DEF Kept, Bucket
    <3>3. Collected(l, "P")' = Collected(l, "P") + g["P"] /\ Collected(l, "P") \in Int
      BY <1>6, <1>10, <3>1, <3>2
    <3>4. LoanBooks(l)'
      <4>1. /\ account[l].book = Collected(l, "P") - Principal[l] /\ receipts[l] = Collected(l, "P")
            /\ Principal[l] \in Nat
        BY <1>5, RepaymentAssumption DEF Kept, LoanBooks
      <4>2. account'[l].book = Collected(l, "P")' - Principal[l] /\ receipts'[l] = Collected(l, "P")'
        BY <1>6, <1>8, <1>10, <3>3, <4>1
      <4> QED BY <1>8, <4>2 DEF LoanBooks
    <3>5. ClosedIsPaid(l)'
      <4>1. DOMAIN rows'[l] = DOMAIN Instalment[l]
        BY <1>5, <1>6, <1>10, RepaymentAssumption
      <4> QED BY <1>8, <1>10, <4>1 DEF ClosedIsPaid
    <3>6. Fits(l, rows[l])'
      BY <1>6, <1>10
    <3>7. Kept(l)'
      BY <3>4, <3>5, <3>6 DEF Kept
    <3> QED BY <1>6, <1>10, <2>3, <3>7
  <2> QED BY <2>2, <2>3
<1>14. TypeOK'
  <2>1. day' = day /\ faults' = faults /\ changes' = changes /\ moved' = moved
    BY <1>3 DEF world
  <2> QED BY <1>1, <1>8, <1>9, <1>10, <1>11, <1>12, <1>13, <2>1 DEF TypeOK
<1> QED BY <1>12, <1>13, <1>14 DEF IInv

-----------------------------------------------------------------------------
(* What others do meanwhile.                                                 *)

(* Others change one account's row that no worker holds. *)
LEMMA AccountKeeps ==
  ASSUME IInv, NEW a \in Account, Free(a), NEW row \in AccountRow, accts' = [accts EXCEPT ![a] = row],
         moved' \in [Account -> Int], changes' \in 0..MaxChanges,
         UNCHANGED <<loans, ledger, owner, pc, work, queue, day, faults>>
  PROVE  IInv'
<1>1. TypeOK /\ \A v \in Worker : Locked(v)
  BY DEF IInv
<1>2. /\ detail' = detail /\ account' = account /\ rows' = rows /\ receipts' = receipts
      /\ ledger' = ledger /\ owner' = owner /\ pc' = pc /\ work' = work /\ queue' = queue
      /\ day' = day /\ faults' = faults
  BY DEF loans
<1>3. accts' \in [Account -> AccountRow] /\ \A b \in Account : b # a => accts'[b] = accts[b]
  BY <1>1 DEF TypeOK
<1>4. TypeOK'
  BY <1>1, <1>2, <1>3 DEF TypeOK
<1>5. ASSUME NEW v \in Worker PROVE Locked(v)'
  <2>1. ASSUME pc[v] = "collect" PROVE accts'[PayFrom[work[v].loan]] = accts[PayFrom[work[v].loan]]
    <3>1. owner[PayFrom[work[v].loan]] = v /\ v # None /\ PayFrom[work[v].loan] \in Account
      BY <1>1, <2>1, WorkIs DEF Locked
    <3> QED BY <1>3, <3>1 DEF Free
  <2>2. Locked(v)
    BY <1>1
  <2> QED BY <1>2, <2>1, <2>2 DEF Locked
<1>6. ASSUME NEW k \in Loan PROVE Kept(k)'
  <2>1. Kept(k)
    BY DEF IInv
  <2> QED BY <1>2, <2>1, LoanSame
<1> QED BY <1>4, <1>5, <1>6 DEF IInv

(* Payments and restrictions of others keep the invariant. *)
LEMMA OthersKeep ==
  ASSUME IInv, NEW a \in Account, PayInOrOut(a) \/ RestrictOrRelease(a)
  PROVE  IInv'
<1>1. TypeOK /\ accts \in [Account -> AccountRow] /\ accts[a] \in AccountRow /\ moved \in [Account -> Int]
  BY DEF IInv, TypeOK
<1>2. Changes => changes' \in 0..MaxChanges
  BY <1>1, RepaymentAssumption DEF Changes, TypeOK
<1>3. CASE PayInOrOut(a)
  <2>1. PICK x \in Change :
          /\ Changes /\ Free(a)
          /\ accts' = [accts EXCEPT ![a].bookBalance = @ + x]
          /\ moved' = [moved EXCEPT ![a] = @ + x]
          /\ UNCHANGED <<loans, ledger, owner, pc, work, queue, day, faults>>
    BY <1>3 DEF PayInOrOut
  <2>2. x \in Int
    BY RepaymentAssumption
  <2>3. PICK row : row = [accts[a] EXCEPT !.bookBalance = @ + x]
    OBVIOUS
  <2>4. row \in AccountRow
    BY <1>1, <2>2, <2>3 DEF AccountRow
  <2>5. accts' = [accts EXCEPT ![a] = row]
    BY <1>1, <2>1, <2>3
  <2>6. moved' \in [Account -> Int]
    BY <1>1, <2>1, <2>2
  <2> QED BY <1>2, <2>1, <2>4, <2>5, <2>6, AccountKeeps
<1>4. CASE RestrictOrRelease(a)
  <2>1. /\ Changes /\ Free(a)
        /\ accts' = [accts EXCEPT ![a].postNoDebit = ~@]
        /\ UNCHANGED <<loans, ledger, owner, pc, work, queue, day, faults, moved>>
    BY <1>4 DEF RestrictOrRelease
  <2>2. PICK row : row = [accts[a] EXCEPT !.postNoDebit = ~@]
    OBVIOUS
  <2>3. row \in AccountRow
    <3>1. accts[a].postNoDebit \in BOOLEAN
      BY <1>1 DEF AccountRow
    <3>2. (~accts[a].postNoDebit) \in BOOLEAN
      OBVIOUS
    <3> QED BY <1>1, <2>2, <3>2 DEF AccountRow
  <2>4. accts' = [accts EXCEPT ![a] = row]
    BY <1>1, <2>1, <2>2
  <2>5. moved' \in [Account -> Int]
    BY <1>1, <2>1
  <2>6. UNCHANGED <<loans, ledger, owner, pc, work, queue, day, faults>>
    BY <2>1
  <2> QED BY <1>2, <2>1, <2>3, <2>4, <2>5, <2>6, AccountKeeps
<1> QED BY <1>3, <1>4

-----------------------------------------------------------------------------
(* The theorems.                                                             *)

(* Every step keeps the invariant. *)
LEMMA StepKeeps ==
  ASSUME IInv, [Next]_vars
  PROVE  IInv'
<1>1. ASSUME NEW w \in Worker, NEW l \in Loan, TakeJob(w, l) PROVE IInv'
  BY <1>1, TakeJobKeeps
<1>2. ASSUME NEW w \in Worker, Process(w) PROVE IInv'
  BY <1>2, LockLoanKeeps, LockAccountKeeps, NothingDoneKeeps, MarkOverdueKeeps, CollectKeeps DEF Process
<1>3. ASSUME NEW w \in Worker, JobStalls(w) PROVE IInv'
  BY <1>3, StallKeeps
<1>4. ASSUME NEW a \in Account, PayInOrOut(a) \/ RestrictOrRelease(a) PROVE IInv'
  BY <1>4, OthersKeep
<1>5. CASE Sweep \/ SweepBreaksOff \/ NextDay
  BY <1>5, SweepKeeps
<1>6. CASE UNCHANGED vars
  <2>1. TypeOK
    BY DEF IInv
  <2>2. UNCHANGED <<loans, books, owner, pc, work>>
    BY <1>6 DEF vars, loans, books
  <2>3. queue' \subseteq Job /\ day' \in Day /\ faults' \in 0..MaxFaults /\ changes' \in 0..MaxChanges
        /\ moved' \in [Account -> Int]
    BY <1>6, <2>1 DEF vars, TypeOK
  <2> QED BY <2>2, <2>3, QueueKeeps
<1> QED BY <1>1, <1>2, <1>3, <1>4, <1>5, <1>6 DEF Next

(* The invariant holds in every behaviour of the collection. *)
THEOREM Invariance == Spec => []IInv
<1>1. Init => IInv
  BY InitIInv
<1>2. IInv /\ [Next]_vars => IInv'
  BY StepKeeps
<1> QED BY <1>1, <1>2, PTL DEF Spec

(* Every variable of the collection keeps its type. *)
THEOREM TypeCorrectness == Spec => []TypeOK
<1>1. IInv => TypeOK
  BY DEF IInv
<1> QED BY <1>1, Invariance, PTL

(* A loan that is closed owes nothing and stays closed (processLoanRepayment's last update), however
   many jobs ran, stalled or ran twice for it. *)
THEOREM ClosedLoansArePaid == Spec => []ClosedMeansPaid
<1>1. IInv => ClosedMeansPaid
  BY DEF IInv, Kept, ClosedIsPaid, ClosedMeansPaid
<1> QED BY <1>1, Invariance, PTL

(* Money goes to the oldest instalment first and within an instalment in the order of the strategy
   (processWaterFallStrategy), over all runs, restarts and partial payments. *)
THEOREM OldestFirst == Spec => []CollectedInOrder
<1>1. ASSUME IInv PROVE CollectedInOrder
  <2> SUFFICES ASSUME NEW l \in Loan, NEW k \in DOMAIN rows[l]
               PROVE  /\ rows[l][k].total > 0 => \A j \in 1..(k - 1) : Settled(l, j)
                      /\ \A i, j \in 1..3 :
                           i < j /\ rows[l][k].got[Strategy[l][j]] > 0 =>
                             rows[l][k].got[Strategy[l][i]] = Instalment[l][k].amount[Strategy[l][i]]
    BY DEF CollectedInOrder
  <2>1. Fits(l, rows[l])
    BY <1>1 DEF IInv, Kept
  <2>2. k \in 1..Len(rows[l])
    BY <2>1 DEF Fits
  <2>3. RowFits(l, k, rows[l][k]) /\ (rows[l][k].total > 0 => \A j \in 1..(k - 1) : Done(l, j, rows[l][j]))
    BY <2>1, <2>2 DEF Fits
  <2>4. \A j : Done(l, j, rows[l][j]) => Settled(l, j)
    BY DEF Done, Settled
  <2> QED BY <2>3, <2>4 DEF RowFits
<1> QED BY <1>1, Invariance, PTL

(* A repayment does not debit a restricted or inactive account, whenever the restriction came: the
   row it judges is the row it has locked. *)
THEOREM RestrictionsHold == Spec => RestrictionHonoured
<1> DEFINE Only == \A a \in Account :
              /\ accts'[a].bookBalance < accts[a].bookBalance
              /\ moved'[a] = moved[a]
              => accts[a].status = "active" /\ ~accts[a].postNoDebit
<1>1. ASSUME IInv, [Next]_vars PROVE [Only]_vars
  <2> SUFFICES ASSUME NEW a \in Account, accts'[a].bookBalance < accts[a].bookBalance, moved'[a] = moved[a]
               PROVE  accts[a].status = "active" /\ ~accts[a].postNoDebit
    OBVIOUS
  <2>1. TypeOK /\ accts[a] \in AccountRow /\ accts[a].bookBalance \in Int
    BY <1>1 DEF IInv, TypeOK, AccountRow
  <2>2. accts' # accts
    BY <2>1
  <2>3. ASSUME NEW w \in Worker, Collect(w) PROVE accts[a].status = "active" /\ ~accts[a].postNoDebit
    <3>1. PICK l : l = work[w].loan
      OBVIOUS
    <3>2. PICK x, r, g : Collects(w, l, x, r, g)
      BY <1>1, <2>3, <3>1, CollectGives
    <3>3. pc[w] = "collect" /\ Debitable(work[w].row)
      BY <1>1, <2>3, CollectGives
    <3>4. l \in Loan /\ work[w].row = accts[PayFrom[l]]
      BY <1>1, <3>1, <3>3, CollectorIs
    <3>5. g \in Amounts /\ Posts(l, g)
      BY <3>2 DEF Collects, Going
    <3>6. \A b \in Account : b # PayFrom[l] => accts'[b] = accts[b]
      BY <2>1, <3>4, <3>5, PostsIs
    <3>7. a = PayFrom[l]
      BY <2>1, <3>6
    <3> QED BY <3>3, <3>4, <3>7 DEF Debitable
  <2>4. ASSUME PayInOrOut(a) PROVE FALSE
    <3>1. PICK x \in Change :
            /\ accts' = [accts EXCEPT ![a].bookBalance = @ + x]
            /\ moved' = [moved EXCEPT ![a] = @ + x]
      BY <2>4 DEF PayInOrOut
    <3>2. x \in Int /\ moved \in [Account -> Int] /\ accts \in [Account -> AccountRow]
      BY <2>1, RepaymentAssumption DEF TypeOK
    <3>3. moved'[a] = moved[a] + x /\ moved[a] \in Int
      BY <3>1, <3>2
    <3>4. x = 0
      BY <3>2, <3>3
    <3>5. accts'[a].bookBalance = accts[a].bookBalance + x
      BY <2>1, <3>1, <3>2 DEF AccountRow
    <3> QED BY <2>1, <3>4, <3>5
  <2>5. ASSUME NEW b \in Account, PayInOrOut(b), b # a PROVE FALSE
    <3>1. PICK x \in Change : accts' = [accts EXCEPT ![b].bookBalance = @ + x]
      BY <2>5 DEF PayInOrOut
    <3>2. accts'[a] = accts[a]
      BY <2>1, <2>5, <3>1 DEF TypeOK
    <3> QED BY <2>1, <3>2
  <2>6. ASSUME NEW b \in Account, RestrictOrRelease(b) PROVE FALSE
    <3>1. accts' = [accts EXCEPT ![b].postNoDebit = ~@] /\ accts \in [Account -> AccountRow]
      BY <2>1, <2>6 DEF RestrictOrRelease, TypeOK
    <3>2. accts'[a].bookBalance = accts[a].bookBalance
      BY <3>1 DEF AccountRow
    <3> QED BY <2>1, <3>2
  <2>7. ASSUME NEW w \in Worker, (\E l \in Loan : TakeJob(w, l)) \/ JobStalls(w) PROVE FALSE
    BY <2>2, <2>7 DEF TakeJob, JobStalls, books
  <2>8. ASSUME NEW w \in Worker, Process(w), ~Collect(w) PROVE FALSE
    BY <2>2, <2>8 DEF Process, LockLoan, LoanNotOpen, LockAccount, AccountMissing, MarkOverdue, CollectThrows, books
  <2>9. ~(Sweep \/ SweepBreaksOff \/ NextDay)
    BY <2>2 DEF Sweep, SweepBreaksOff, NextDay, books
  <2>10. ~UNCHANGED vars
    BY <2>2 DEF vars
  <2> QED BY <1>1, <2>3, <2>4, <2>5, <2>6, <2>7, <2>8, <2>9, <2>10 DEF Next
<1>2. Spec => [][Next]_vars
  BY DEF Spec
<1>3. [][Only]_vars => RestrictionHonoured
  BY DEF RestrictionHonoured
<1> QED BY <1>1, <1>2, <1>3, Invariance, PTL

-----------------------------------------------------------------------------
(* The five books.                                                           *)

Credits(h) ==
  SumFunction([l \in Loan |-> (IF LoanGl[l] = h THEN Posted(l, "P") ELSE 0)
                               + (IF IncomeGl[l] = h THEN Posted(l, "I") ELSE 0)
                               + (IF LoanFeeGl[l] = h THEN Posted(l, "C") ELSE 0)])
Debits(h) == SumFunction([a \in {a \in Account : ControlGl[a] = h} |-> PostedFrom(a)])

(* The customer's balance and the journal lines of a ledger follow what the instalments have got. *)
AccountBook(a) == accts[a].bookBalance = OpeningRow[a].bookBalance + moved[a] - PostedFrom(a)
LedgerBook(h) == ledger[h] = Credits(h) - Debits(h)
Books == (\A a \in Account : AccountBook(a)) /\ (\A h \in Gl : LedgerBook(h))

(* The agreement of the books is what is known of every loan, account and ledger. *)
LEMMA BooksAgreeIs ==
  ASSUME IInv, Books
  PROVE  BooksAgree
<1>1. ASSUME NEW l \in Loan
      PROVE  /\ LoanBooks(l) /\ \A k \in DOMAIN rows[l] : rows[l][k].total = Sum(rows[l][k].got)
  BY DEF IInv, Kept, Fits, RowFits
<1>2. \A a \in Account : AccountBook(a)
  BY DEF Books
<1>3. \A h \in Gl : LedgerBook(h)
  BY DEF Books
<1> QED BY <1>1, <1>2, <1>3, Zenon DEF BooksAgree, LoanBooks, AccountBook, LedgerBook, Credits, Debits

(* The types of the sums. *)
LEMMA CollectedType ==
  ASSUME IInv, NEW l \in Loan, NEW b \in Bucket
  PROVE  Collected(l, b) \in Int
  BY CollectedIs, GotType DEF IInv, Kept

(* What is posted of it is all of it or nothing. *)
LEMMA PostedType ==
  ASSUME IInv, NEW l \in Loan, NEW b \in Bucket
  PROVE  Posted(l, b) \in Int
  BY CollectedType DEF Posted

(* Of an account and of a ledger, too. *)
LEMMA BookTypes ==
  ASSUME IInv
  PROVE  /\ \A a \in Account : PostedFrom(a) \in Int
         /\ \A h \in Gl : Credits(h) \in Int /\ Debits(h) \in Int
<1>1. IsFiniteSet(Loan) /\ IsFiniteSet(Account)
  BY RepaymentAssumption, FiniteAssumption
<1>2. \A l \in Loan : Posted(l, "P") \in Int /\ Posted(l, "C") \in Int /\ Posted(l, "I") \in Int
  BY PostedType DEF Bucket
<1>3. ASSUME NEW a \in Account PROVE PostedFrom(a) \in Int
  <2> DEFINE S == {l \in Loan : PayFrom[l] = a}
             f == [l \in S |-> Posted(l, "P") + Posted(l, "C") + Posted(l, "I")]
  <2>1. IsFiniteSet(S)
    BY <1>1, FS_Subset
  <2>2. DOMAIN f = S /\ \A l \in S : f[l] \in Int
    BY <1>2
  <2>3. PostedFrom(a) = SumFunctionOnSet(f, S)
    BY <2>2, Zenon DEF PostedFrom, SumFunction
  <2> HIDE DEF f, S
  <2> QED BY <2>1, <2>2, <2>3, SumType
<1>4. ASSUME NEW h \in Gl PROVE Credits(h) \in Int
  <2> DEFINE f == [l \in Loan |-> (IF LoanGl[l] = h THEN Posted(l, "P") ELSE 0)
                                   + (IF IncomeGl[l] = h THEN Posted(l, "I") ELSE 0)
                                   + (IF LoanFeeGl[l] = h THEN Posted(l, "C") ELSE 0)]
  <2>1. DOMAIN f = Loan /\ \A l \in Loan : f[l] \in Int
    BY <1>2
  <2>2. Credits(h) = SumFunctionOnSet(f, Loan)
    BY <2>1, Zenon DEF Credits, SumFunction
  <2> HIDE DEF f
  <2> QED BY <1>1, <2>1, <2>2, SumType
<1>5. ASSUME NEW h \in Gl PROVE Debits(h) \in Int
  <2> DEFINE S == {a \in Account : ControlGl[a] = h}
             f == [a \in S |-> PostedFrom(a)]
  <2>1. IsFiniteSet(S)
    BY <1>1, FS_Subset
  <2>2. DOMAIN f = S /\ \A a \in S : f[a] \in Int
    BY <1>3
  <2>3. Debits(h) = SumFunctionOnSet(f, S)
    BY <2>2, Zenon DEF Debits, SumFunction
  <2> HIDE DEF f, S
  <2> QED BY <2>1, <2>2, <2>3, SumType
<1> QED BY <1>3, <1>4, <1>5

(* What has been collected of loan l grows by g, of the others by nothing. *)
Grows(l, g) ==
  /\ \A b \in Bucket : Collected(l, b)' = Collected(l, b) + g[b]
  /\ \A k \in Loan : k # l => \A b \in Bucket : Collected(k, b)' = Collected(k, b)

(* The same for what has been posted of it. *)
PostingGrows(l, g) ==
  /\ \A b \in Bucket : Posted(l, b)' = Posted(l, b) + g[b]
  /\ \A k \in Loan : k # l => \A b \in Bucket : Posted(k, b)' = Posted(k, b)

(* So do the sums that name the loan. *)
LEMMA SumsGrow ==
  ASSUME IInv, IInv', NEW l \in Loan, NEW g \in Amounts, PostingGrows(l, g)
  PROVE  /\ \A a \in Account : PostedFrom(a)' = PostedFrom(a) + (IF PayFrom[l] = a THEN Sum(g) ELSE 0)
         /\ \A h \in Gl : Credits(h)' = Credits(h) + Share(l, g, h)
         /\ \A h \in Gl : Debits(h)' = Debits(h) + (IF ControlGl[PayFrom[l]] = h THEN Sum(g) ELSE 0)
<1>1. IsFiniteSet(Loan) /\ IsFiniteSet(Account) /\ PayFrom[l] \in Account
  BY RepaymentAssumption, FiniteAssumption
<1>2. /\ \A k \in Loan : Posted(k, "P") \in Int /\ Posted(k, "C") \in Int /\ Posted(k, "I") \in Int
      /\ g["P"] \in Nat /\ g["C"] \in Nat /\ g["I"] \in Nat
  BY PostedType DEF Bucket, Amounts
<1>3. /\ Posted(l, "P")' = Posted(l, "P") + g["P"]
      /\ Posted(l, "C")' = Posted(l, "C") + g["C"]
      /\ Posted(l, "I")' = Posted(l, "I") + g["I"]
      /\ \A k \in Loan : k # l => /\ Posted(k, "P")' = Posted(k, "P")
                                  /\ Posted(k, "C")' = Posted(k, "C")
                                  /\ Posted(k, "I")' = Posted(k, "I")
  BY DEF PostingGrows, Bucket
<1>4. Sum(g) = g["P"] + g["C"] + g["I"] /\ Sum(g) \in Nat
  BY <1>2 DEF Sum
<1>5. ASSUME NEW a \in Account PROVE PostedFrom(a)' = PostedFrom(a) + (IF PayFrom[l] = a THEN Sum(g) ELSE 0)
  <2>1. PICK S : S = {k \in Loan : PayFrom[k] = a}
    OBVIOUS
  <2>2. PICK f : f = [k \in S |-> Posted(k, "P") + Posted(k, "C") + Posted(k, "I")]
    OBVIOUS
  <2>3. PICK f2 : f2 = [k \in S |-> (Posted(k, "P") + Posted(k, "C") + Posted(k, "I"))']
    OBVIOUS
  <2>4. IsFiniteSet(S) /\ S \subseteq Loan
    BY <1>1, <2>1, FS_Subset
  <2>5. PostedFrom(a) = SumFunctionOnSet(f, S)
    <3>1. DOMAIN f = S
      BY <2>2
    <3> QED BY <2>1, <2>2, <3>1, Zenon DEF PostedFrom, SumFunction
  <2>6. PostedFrom(a)' = SumFunctionOnSet(f2, S)
    <3>1. DOMAIN f2 = S
      BY <2>3
    <3> QED BY <2>1, <2>3, <3>1, Zenon DEF PostedFrom, SumFunction
  <2>7. \A k \in S : f[k] \in Int
    BY <1>2, <2>2, <2>4
  <2>8. \A k \in S : k # l => f2[k] = f[k]
    BY <1>3, <2>2, <2>3, <2>4
  <2>9. CASE PayFrom[l] = a
    <3>1. l \in S /\ f2[l] = f[l] + Sum(g) /\ f2[l] \in Int /\ f[l] \in Int
      BY <1>2, <1>3, <1>4, <2>1, <2>2, <2>3, <2>7, <2>9
    <3>2. SumFunctionOnSet(f2, S) = SumFunctionOnSet(f, S) + (f2[l] - f[l])
      BY <2>4, <2>7, <2>8, <3>1, SumChange
    <3>3. SumFunctionOnSet(f, S) \in Int
      BY <2>4, <2>7, SumType
    <3> QED BY <1>4, <2>5, <2>6, <2>9, <3>1, <3>2, <3>3
  <2>10. CASE PayFrom[l] # a
    <3>1. \A k \in S : f[k] = f2[k]
      BY <2>1, <2>8, <2>10
    <3>2. SumFunctionOnSet(f, S) = SumFunctionOnSet(f2, S)
      BY <2>4, <2>7, <3>1, SumSame
    <3>3. SumFunctionOnSet(f, S) \in Int
      BY <2>4, <2>7, SumType
    <3> QED BY <2>5, <2>6, <2>10, <3>2, <3>3
  <2> QED BY <2>9, <2>10
<1>6. ASSUME NEW h \in Gl PROVE Credits(h)' = Credits(h) + Share(l, g, h)
  <2>1. PICK f : f = [k \in Loan |-> (IF LoanGl[k] = h THEN Posted(k, "P") ELSE 0)
                                      + (IF IncomeGl[k] = h THEN Posted(k, "I") ELSE 0)
                                      + (IF LoanFeeGl[k] = h THEN Posted(k, "C") ELSE 0)]
    OBVIOUS
  <2>2. PICK f2 : f2 = [k \in Loan |-> ((IF LoanGl[k] = h THEN Posted(k, "P") ELSE 0)
                                      + (IF IncomeGl[k] = h THEN Posted(k, "I") ELSE 0)
                                      + (IF LoanFeeGl[k] = h THEN Posted(k, "C") ELSE 0))']
    OBVIOUS
  <2>3. Credits(h) = SumFunctionOnSet(f, Loan)
    <3>1. DOMAIN f = Loan
      BY <2>1
    <3> QED BY <2>1, <3>1, Zenon DEF Credits, SumFunction
  <2>4. Credits(h)' = SumFunctionOnSet(f2, Loan)
    <3>1. DOMAIN f2 = Loan
      BY <2>2
    <3> QED BY <2>2, <3>1, Zenon DEF Credits, SumFunction
  <2>5. \A k \in Loan : f[k] \in Int
    BY <1>2, <2>1
  <2>6. \A k \in Loan \ {l} : f[k] \in Int /\ f2[k] = f[k]
    BY <1>3, <2>1, <2>2, <2>5
  <2>7. Share(l, g, h) \in Int
    BY <1>2 DEF Share
  <2>8. f2[l] = f[l] + Share(l, g, h)
    <3>1. f[l] = (IF LoanGl[l] = h THEN Posted(l, "P") ELSE 0)
                   + (IF IncomeGl[l] = h THEN Posted(l, "I") ELSE 0)
                   + (IF LoanFeeGl[l] = h THEN Posted(l, "C") ELSE 0)
      BY <2>1
    <3>2. f2[l] = (IF LoanGl[l] = h THEN Posted(l, "P")' ELSE 0)
                   + (IF IncomeGl[l] = h THEN Posted(l, "I")' ELSE 0)
                   + (IF LoanFeeGl[l] = h THEN Posted(l, "C")' ELSE 0)
      BY <2>2
    <3> QED BY <1>2, <1>3, <3>1, <3>2 DEF Share
  <2>9. SumFunctionOnSet(f2, Loan) = SumFunctionOnSet(f, Loan) + (f2[l] - f[l])
    <3>1. f[l] \in Int /\ f2[l] \in Int
      BY <2>5, <2>7, <2>8
    <3> QED BY <1>1, <2>6, <3>1, SumChange
  <2>10. SumFunctionOnSet(f, Loan) \in Int /\ f[l] \in Int
    BY <1>1, <2>5, SumType
  <2> QED BY <2>3, <2>4, <2>7, <2>8, <2>9, <2>10
<1>7. ASSUME NEW h \in Gl PROVE Debits(h)' = Debits(h) + (IF ControlGl[PayFrom[l]] = h THEN Sum(g) ELSE 0)
  <2>1. PICK S : S = {a \in Account : ControlGl[a] = h}
    OBVIOUS
  <2>2. PICK p : p = PayFrom[l]
    OBVIOUS
  <2>3. PICK f : f = [a \in S |-> PostedFrom(a)]
    OBVIOUS
  <2>4. PICK f2 : f2 = [a \in S |-> PostedFrom(a)']
    OBVIOUS
  <2>5. IsFiniteSet(S) /\ S \subseteq Account
    BY <1>1, <2>1, FS_Subset
  <2>6. Debits(h) = SumFunctionOnSet(f, S)
    <3>1. DOMAIN f = S
      BY <2>3
    <3> QED BY <2>1, <2>3, <3>1, Zenon DEF Debits, SumFunction
  <2>7. Debits(h)' = SumFunctionOnSet(f2, S)
    <3>1. DOMAIN f2 = S
      BY <2>4
    <3> QED BY <2>1, <2>4, <3>1, Zenon DEF Debits, SumFunction
  <2>8. \A a \in S : f[a] \in Int
    BY <2>3, <2>5, BookTypes
  <2>9. \A a \in S : f2[a] = f[a] + (IF p = a THEN Sum(g) ELSE 0)
    BY <1>5, <2>2, <2>3, <2>4, <2>5
  <2>10. SumFunctionOnSet(f, S) \in Int
    BY <2>5, <2>8, SumType
  <2>11. CASE ControlGl[p] = h
    <3>1. p \in S /\ f2[p] = f[p] + Sum(g) /\ f[p] \in Int /\ f2[p] \in Int
      BY <1>1, <1>4, <2>1, <2>2, <2>8, <2>9, <2>11
    <3>2. \A a \in S \ {p} : f[a] \in Int /\ f2[a] = f[a]
      BY <2>8, <2>9
    <3>3. SumFunctionOnSet(f2, S) = SumFunctionOnSet(f, S) + (f2[p] - f[p])
      BY <2>5, <3>1, <3>2, SumChange
    <3> QED BY <1>4, <2>2, <2>6, <2>7, <2>10, <2>11, <3>1, <3>3
  <2>12. CASE ControlGl[p] # h
    <3>1. \A a \in S : f[a] = f2[a] /\ f[a] \in Int
      BY <2>1, <2>8, <2>9, <2>12
    <3>2. SumFunctionOnSet(f, S) = SumFunctionOnSet(f2, S)
      BY <2>5, <3>1, SumSame
    <3> QED BY <2>2, <2>6, <2>7, <2>10, <2>12, <3>2
  <2> QED BY <2>11, <2>12
<1> QED BY <1>5, <1>6, <1>7

(* Nothing is posted: the sums stay. *)
LEMMA SumsStay ==
  ASSUME \A k \in Loan : \A b \in Bucket : Posted(k, b)' = Posted(k, b)
  PROVE  /\ \A a \in Account : PostedFrom(a)' = PostedFrom(a)
         /\ \A h \in Gl : Credits(h)' = Credits(h) /\ Debits(h)' = Debits(h)
<1>1. \A k \in Loan : /\ Posted(k, "P")' = Posted(k, "P") /\ Posted(k, "C")' = Posted(k, "C")
                      /\ Posted(k, "I")' = Posted(k, "I")
  BY DEF Bucket
<1>2. ASSUME NEW a \in Account PROVE PostedFrom(a)' = PostedFrom(a)
  <2>1. [l \in {l \in Loan : PayFrom[l] = a} |-> Posted(l, "P")' + Posted(l, "C")' + Posted(l, "I")'] =
        [l \in {l \in Loan : PayFrom[l] = a} |-> Posted(l, "P") + Posted(l, "C") + Posted(l, "I")]
    BY <1>1
  <2> QED BY <2>1, Zenon DEF PostedFrom
<1>3. ASSUME NEW h \in Gl PROVE Credits(h)' = Credits(h)
  <2>1. [l \in Loan |-> (IF LoanGl[l] = h THEN Posted(l, "P")' ELSE 0)
                         + (IF IncomeGl[l] = h THEN Posted(l, "I")' ELSE 0)
                         + (IF LoanFeeGl[l] = h THEN Posted(l, "C")' ELSE 0)] =
        [l \in Loan |-> (IF LoanGl[l] = h THEN Posted(l, "P") ELSE 0)
                         + (IF IncomeGl[l] = h THEN Posted(l, "I") ELSE 0)
                         + (IF LoanFeeGl[l] = h THEN Posted(l, "C") ELSE 0)]
    BY <1>1
  <2> QED BY <2>1, Zenon DEF Credits
<1>4. ASSUME NEW h \in Gl PROVE Debits(h)' = Debits(h)
  <2>1. [a \in {a \in Account : ControlGl[a] = h} |-> PostedFrom(a)'] =
        [a \in {a \in Account : ControlGl[a] = h} |-> PostedFrom(a)]
    BY <1>2
  <2> QED BY <2>1, Zenon DEF Debits
<1> QED BY <1>2, <1>3, <1>4

(* A posting that does not throw is made: with the transaction's row checked at commit and amounts
   that convert, nothing else is answered with an error that goes unnoticed. *)
LEMMA PostingIsMade ==
  ASSUME FkDeferred, NEW l, NEW got, ~Throws(l, got)
  PROVE  PostingAnswer(l, got) = "ok"
<1> DEFINE pl == PayloadOf(l, got)
<1>1. ConvertsToBigInt /\ PostingAnswer(l, got) # "threw"
  BY DEF Throws
<1>2. PostingAnswer(l, got) = Verdict(pl, accts, {})
  BY <1>1 DEF PostingAnswer
<1>3. ReferenceFree(pl, {})
  BY DEF ReferenceFree
<1> HIDE DEF pl
<1>4. Verdict(pl, accts, {}) # "threw"
  BY <1>1, <1>2
<1>5. Verdict(pl, accts, {}) = "ok"
  BY <1>1, <1>3, <1>4 DEF Verdict
<1> QED BY <1>2, <1>5

(* A payload of the worker names one account and gets a transaction id. *)
LEMMA OneParty ==
  ASSUME NEW l \in Loan, NEW got \in Amounts
  PROVE  HasTransactionId(PayloadOf(l, got))
<1> DEFINE pl == PayloadOf(l, got)
           a == PayFrom[l]
           D == DOMAIN pl.credits
<1>1. a \in Account
  BY RepaymentAssumption
<1>2. /\ pl.operationType = "debit" /\ pl.customerAccounts = [x \in {a} |-> Sum(got)]
      /\ pl.debits = NoLegs
  BY DEF PayloadOf
<1>3. D \cap Account = {}
  <2>1. D = {c[1] : c \in Credited(l, got)}
    BY DEF PayloadOf
  <2>2. LoanGl[l] \in Gl /\ IncomeGl[l] \in Gl /\ (LoanFeeGl[l] # None => LoanFeeGl[l] \in Gl)
    BY RepaymentAssumption
  <2>3. \A c \in Credited(l, got) : c[1] \in Gl
    BY <2>2 DEF Credited
  <2>4. D \subseteq Gl
    BY <2>1, <2>3
  <2> QED BY <2>4, TenantAssumption
<1>4. DOMAIN pl.customerAccounts = {a} /\ DOMAIN pl.debits = {}
  BY <1>2 DEF NoLegs
<1> HIDE DEF pl
<1>5. DebitIds(pl) = {a} /\ CreditIds(pl) = D
  BY <1>2, <1>4 DEF DebitIds, CreditIds, CustomerSide
<1>6. Parties(pl) = {a}
  BY <1>1, <1>3, <1>5 DEF Parties, DebitAccounts, CreditAccounts
<1>7. Cardinality({a}) = 1
  BY FS_Singleton
<1>8. Cardinality(Parties(pl)) = 1
  BY <1>6, <1>7, Zenon
<1>9. HasTransactionId(pl)
  BY <1>8, Zenon DEF HasTransactionId, IsSingleAccountToGl
<1> QED BY <1>9 DEF pl

(* Where the foreign key is checked at once, no posting is made. *)
LEMMA PostingFails ==
  ASSUME ~FkDeferred, NEW l \in Loan, NEW got \in Amounts
  PROVE  PostingAnswer(l, got) # "ok"
<1> DEFINE pl == PayloadOf(l, got)
<1>1. HasTransactionId(pl)
  BY OneParty
<1> HIDE DEF pl
<1>2. Verdict(pl, accts, {}) # "ok"
  BY <1>1 DEF Verdict
<1> QED BY <1>2 DEF PostingAnswer, pl

(* What a collection adds to the instalments of its loan. *)
LEMMA CollectGrows ==
  ASSUME IInv, NEW w \in Worker, Collect(w), NEW l, l = work[w].loan,
         NEW a, NEW r, NEW g, Collects(w, l, a, r, g)
  PROVE  l \in Loan /\ g \in Amounts /\ Posts(l, g) /\ Grows(l, g)
<1>1. l \in Loan
  BY CollectGives, CollectorIs
<1>2. g \in Amounts /\ Posts(l, g) /\ rows' = [rows EXCEPT ![l] = r] /\ \A b \in Bucket : GotOf(r, b) = GotOf(rows[l], b) + g[b]
  BY DEF Collects, Going
<1>3. rows \in [Loan -> Seq(Row)]
  BY DEF IInv, TypeOK
<1>4. rows'[l] = r /\ \A k \in Loan : k # l => rows'[k] = rows[k]
  BY <1>1, <1>2, <1>3
<1>5. \A k, b : Collected(k, b) = GotOf(rows[k], b)
  BY CollectedIs
<1>6. \A k, b : Collected(k, b)' = GotOf(rows'[k], b)
  BY Zenon DEF Collected, GotOf
<1>7. ASSUME NEW b \in Bucket PROVE Collected(l, b)' = Collected(l, b) + g[b]
  BY <1>2, <1>4, <1>5, <1>6
<1>8. ASSUME NEW k \in Loan, k # l, NEW b \in Bucket PROVE Collected(k, b)' = Collected(k, b)
  BY <1>4, <1>5, <1>6, <1>8
<1> QED BY <1>1, <1>2, <1>7, <1>8 DEF Grows

(* Marking instalments collects nothing. *)
LEMMA MarkingCollectsNothing ==
  ASSUME IInv, NEW w \in Worker, MarkOverdue(w)
  PROVE  \A k \in Loan : \A b \in Bucket : Collected(k, b)' = Collected(k, b)
<1> SUFFICES ASSUME NEW k \in Loan, NEW b \in Bucket PROVE Collected(k, b)' = Collected(k, b)
  OBVIOUS
<1>1. PICK l : l = work[w].loan
  OBVIOUS
<1>2. rows' = [rows EXCEPT ![l] = [j \in DOMAIN Instalment[l] |->
                 IF Instalment[l][j].day <= work[w].at /\ rows[l][j].status # "paid"
                 THEN [rows[l][j] EXCEPT !.status = "overdue"] ELSE rows[l][j]]]
  BY <1>1 DEF MarkOverdue
<1>3. rows \in [Loan -> Seq(Row)] /\ Fits(k, rows[k])
  BY DEF IInv, Kept, TypeOK
<1>4. CASE k # l
  <2>1. rows'[k] = rows[k]
    BY <1>2, <1>3, <1>4
  <2> QED BY <2>1, Zenon DEF Collected
<1>5. CASE k = l
  <2>1. DOMAIN Instalment[k] = 1..Len(rows[k]) /\ DOMAIN rows[k] = 1..Len(rows[k]) /\ rows[k] \in Seq(Row)
    BY <1>3, RepaymentAssumption DEF Fits
  <2>2. rows'[k] = [j \in 1..Len(rows[k]) |->
                      IF Instalment[k][j].day <= work[w].at /\ rows[k][j].status # "paid"
                      THEN [rows[k][j] EXCEPT !.status = "overdue"] ELSE rows[k][j]]
    BY <1>2, <1>3, <1>5, <2>1
  <2>3. ASSUME NEW j \in 1..Len(rows[k]) PROVE rows'[k][j].got[b] = rows[k][j].got[b]
    <3>1. rows[k][j] \in Row
      BY <2>1
    <3>2. [rows[k][j] EXCEPT !.status = "overdue"].got = rows[k][j].got
      BY <3>1 DEF Row
    <3>3. rows'[k][j] = [rows[k][j] EXCEPT !.status = "overdue"] \/ rows'[k][j] = rows[k][j]
      BY <2>2
    <3> QED BY <3>2, <3>3
  <2>4. DOMAIN rows'[k] = 1..Len(rows[k])
    BY <2>2
  <2>5. [j \in DOMAIN rows'[k] |-> rows'[k][j].got[b]] = [j \in DOMAIN rows[k] |-> rows[k][j].got[b]]
    BY <2>1, <2>3, <2>4
  <2> QED BY <2>5, Zenon DEF Collected
<1> QED BY <1>4, <1>5

(* Balances change by what their owners move. *)
MovedByOthers ==
  \A a \in Account : accts'[a].bookBalance - moved'[a] = accts[a].bookBalance - moved[a]

(* Books do not move in a step that leaves them and the instalments alone. *)
LEMMA BooksStay ==
  ASSUME Books, \A k \in Loan : \A b \in Bucket : Collected(k, b)' = Collected(k, b),
         ledger' = ledger, MovedByOthers, IInv, TypeOK'
  PROVE  Books'
<1>1. /\ \A a \in Account : PostedFrom(a)' = PostedFrom(a)
      /\ \A h \in Gl : Credits(h)' = Credits(h) /\ Debits(h)' = Debits(h)
  <2>1. \A k \in Loan : \A b \in Bucket : Posted(k, b)' = Posted(k, b)
    BY DEF Posted
  <2> QED BY <2>1, SumsStay
<1>2. ASSUME NEW h \in Gl PROVE LedgerBook(h)'
  BY <1>1 DEF Books, LedgerBook
<1>3. ASSUME NEW a \in Account PROVE AccountBook(a)'
  <2>1. /\ accts[a].bookBalance \in Int /\ accts'[a].bookBalance \in Int
        /\ moved[a] \in Int /\ moved'[a] \in Int
    BY DEF IInv, TypeOK, AccountRow
  <2>2. accts[a].bookBalance = OpeningRow[a].bookBalance + moved[a] - PostedFrom(a)
    BY DEF Books, AccountBook
  <2>3. OpeningRow[a].bookBalance \in Int
    BY RepaymentAssumption DEF AccountRow
  <2>4. accts'[a].bookBalance - moved'[a] = accts[a].bookBalance - moved[a]
    BY DEF MovedByOthers
  <2>5. PICK c \in Int : c = PostedFrom(a)
    BY BookTypes
  <2>6. accts[a].bookBalance = OpeningRow[a].bookBalance + moved[a] - c
    BY <2>2, <2>5
  <2>7. accts'[a].bookBalance = OpeningRow[a].bookBalance + moved'[a] - c
    <3>1. PICK b \in Int, b2 \in Int, m \in Int, m2 \in Int, o \in Int :
            /\ b = accts[a].bookBalance /\ b2 = accts'[a].bookBalance /\ m = moved[a] /\ m2 = moved'[a]
            /\ o = OpeningRow[a].bookBalance
      BY <2>1, <2>3
    <3>2. b2 - m2 = b - m /\ b = o + m - c
      BY <2>4, <2>6, <3>1, Zenon
    <3>3. b2 = o + m2 - c
      BY <3>2
    <3> QED BY <3>1, <3>3, Zenon
  <2> QED BY <1>1, <2>5, <2>7 DEF AccountBook
<1> QED BY <1>2, <1>3 DEF Books

(* What a collection of g has posted of it. *)
PostedPart(g) == [b \in Bucket |-> IF FkDeferred THEN g[b] ELSE 0]

(* The posting of a collection moves each book by what has been posted of the instalments. *)
LEMMA CollectKeepsBooks ==
  ASSUME IInv, IInv', Books, NEW w \in Worker, Collect(w)
  PROVE  Books'
<1>1. PICK l : l = work[w].loan
  OBVIOUS
<1>2. PICK a, r, got : Collects(w, l, a, r, got)
  BY <1>1, CollectGives
<1>3. l \in Loan /\ got \in Amounts /\ Posts(l, got) /\ Grows(l, got)
  BY <1>1, <1>2, CollectGrows
<1>4. PICK g : g = PostedPart(got)
  OBVIOUS
<1>5. g \in Amounts /\ PostingGrows(l, g)
  <2>1. g \in Amounts /\ \A b \in Bucket : g[b] = IF FkDeferred THEN got[b] ELSE 0
    BY <1>3, <1>4 DEF PostedPart, Amounts
  <2>2. CASE FkDeferred
    <3>1. \A k \in Loan : \A b \in Bucket : Posted(k, b) = Collected(k, b) /\ Posted(k, b)' = Collected(k, b)'
      BY <2>2 DEF Posted
    <3> QED BY <1>3, <2>1, <2>2, <3>1 DEF Grows, PostingGrows
  <2>3. CASE ~FkDeferred
    <3>1. \A k \in Loan : \A b \in Bucket : Posted(k, b) = 0 /\ Posted(k, b)' = 0
      BY <2>3 DEF Posted
    <3> QED BY <1>3, <2>1, <2>3, <3>1 DEF PostingGrows
  <2> QED BY <2>2, <2>3
<1>6. Sum(g) \in Nat /\ \A b \in Bucket : g[b] <= Sum(g) /\ g[b] \in Nat
  BY <1>5, SumIsNat DEF Amounts
<1>7. /\ \A c \in Account : PostedFrom(c)' = PostedFrom(c) + (IF PayFrom[l] = c THEN Sum(g) ELSE 0)
      /\ \A h \in Gl : Credits(h)' = Credits(h) + Share(l, g, h)
      /\ \A h \in Gl : Debits(h)' = Debits(h) + (IF ControlGl[PayFrom[l]] = h THEN Sum(g) ELSE 0)
  BY <1>3, <1>5, SumsGrow
<1>8. moved' = moved
  BY CollectGives DEF world
<1>9. TypeOK /\ TypeOK' /\ PayFrom[l] \in Account
  BY <1>3, RepaymentAssumption DEF IInv
<1>10. /\ \A c \in Account : accts'[c].bookBalance = accts[c].bookBalance - (IF PayFrom[l] = c THEN Sum(g) ELSE 0)
      /\ \A h \in Gl : ledger'[h] = ledger[h] + (Share(l, g, h) - (IF ControlGl[PayFrom[l]] = h THEN Sum(g) ELSE 0))
  <2>1. CASE FkDeferred /\ Sum(got) > 0
    <3>10. Sum(g) = Sum(got) /\ \A h \in Gl : Share(l, g, h) = Share(l, got, h)
      <4>1. g["P"] = got["P"] /\ g["C"] = got["C"] /\ g["I"] = got["I"]
        BY <1>4, <2>1 DEF PostedPart, Bucket
      <4> QED BY <4>1 DEF Sum, Share
    <3>1. PostingAnswer(l, got) = "ok"
      BY <1>2, <2>1, PostingIsMade DEF Collects
    <3>2. accts' = [accts EXCEPT ![PayFrom[l]].bookBalance = @ - Sum(g)]
      BY <1>3, <1>9, <2>1, <3>10, <3>1, PostsIs
    <3>3. \A h \in Gl : ledger'[h] = ledger[h] + (Share(l, g, h) - (IF ControlGl[PayFrom[l]] = h THEN Sum(g) ELSE 0))
      <4>1. \A h \in Gl : ledger'[h] = ledger[h] + (Share(l, got, h) - (IF ControlGl[PayFrom[l]] = h THEN Sum(got) ELSE 0))
        BY <1>3, <1>9, <2>1, <3>1, PostsIs
      <4> QED BY <3>10, <4>1
    <3>4. ASSUME NEW c \in Account
          PROVE  accts'[c].bookBalance = accts[c].bookBalance - (IF PayFrom[l] = c THEN Sum(g) ELSE 0)
      <4>1. accts \in [Account -> AccountRow] /\ accts[c] \in AccountRow /\ accts[c].bookBalance \in Int
        BY <1>9 DEF TypeOK, AccountRow
      <4>2. CASE PayFrom[l] = c
        BY <1>9, <3>2, <4>1, <4>2 DEF AccountRow
      <4>3. CASE PayFrom[l] # c
        <5>1. accts'[c] = accts[c]
          BY <3>2, <4>1, <4>3
        <5> QED BY <4>1, <4>3, <5>1
      <4> QED BY <4>2, <4>3
    <3> QED BY <3>3, <3>4
  <2>2. CASE ~(FkDeferred /\ Sum(got) > 0)
    <3>1. accts' = accts /\ ledger' = ledger
      <4>1. ~(Sum(got) > 0 /\ PostingAnswer(l, got) = "ok")
        BY <1>3, <2>2, PostingFails
      <4> QED BY <1>3, <1>9, <4>1, PostsIs
    <3>2. g["P"] = 0 /\ g["C"] = 0 /\ g["I"] = 0
      <4>1. CASE FkDeferred
        <5>1. Sum(got) \in Nat /\ \A b \in Bucket : got[b] <= Sum(got) /\ got[b] \in Nat
          BY <1>3, SumIsNat DEF Amounts
        <5>2. \A b \in Bucket : got[b] = 0
          BY <2>2, <4>1, <5>1
        <5> QED BY <1>4, <5>2 DEF PostedPart, Bucket
      <4>2. CASE ~FkDeferred
        BY <1>4, <4>2 DEF PostedPart, Bucket
      <4> QED BY <4>1, <4>2
    <3>22. Sum(g) = 0
      BY <3>2 DEF Sum
    <3>3. \A h \in Gl : Share(l, g, h) = 0
      BY <3>2 DEF Share
    <3>4. \A c \in Account : accts[c].bookBalance \in Int
      BY <1>9 DEF TypeOK, AccountRow
    <3>5. \A h \in Gl : ledger[h] \in Int
      BY <1>9 DEF TypeOK
    <3> QED BY <3>1, <3>22, <3>3, <3>4, <3>5
  <2> QED BY <2>1, <2>2
<1>11. ASSUME NEW c \in Account PROVE AccountBook(c)'
  <2>1. accts[c].bookBalance = OpeningRow[c].bookBalance + moved[c] - PostedFrom(c)
    BY DEF Books, AccountBook
  <2>2. PostedFrom(c) \in Int /\ OpeningRow[c].bookBalance \in Int /\ moved[c] \in Int
    BY <1>9, BookTypes, RepaymentAssumption DEF TypeOK, AccountRow
  <2>3. PICK d : d = (IF PayFrom[l] = c THEN Sum(g) ELSE 0)
    OBVIOUS
  <2>4. d \in Int /\ accts'[c].bookBalance = accts[c].bookBalance - d /\ PostedFrom(c)' = PostedFrom(c) + d
    BY <1>6, <1>7, <1>10, <2>3
  <2>5. accts'[c].bookBalance = OpeningRow[c].bookBalance + moved[c] - PostedFrom(c)'
    BY <2>1, <2>2, <2>4
  <2> QED BY <1>8, <2>5 DEF AccountBook
<1>12. ASSUME NEW h \in Gl PROVE LedgerBook(h)'
  <2>1. ledger[h] = Credits(h) - Debits(h) /\ Credits(h) \in Int /\ Debits(h) \in Int
    BY BookTypes DEF Books, LedgerBook
  <2>2. PICK d : d = (IF ControlGl[PayFrom[l]] = h THEN Sum(g) ELSE 0)
    OBVIOUS
  <2>3. d \in Int
    BY <1>6, <2>2
  <2>4. Share(l, g, h) \in Int
    BY <1>6 DEF Share, Bucket
  <2>5. ledger'[h] = ledger[h] + (Share(l, g, h) - d) /\ Credits(h)' = Credits(h) + Share(l, g, h)
        /\ Debits(h)' = Debits(h) + d
    BY <1>7, <1>10, <2>2
  <2>6. ledger'[h] = Credits(h)' - Debits(h)'
    BY <2>1, <2>3, <2>4, <2>5
  <2> QED BY <2>6 DEF LedgerBook
<1> QED BY <1>11, <1>12 DEF Books

(* Every step keeps the books together. *)
LEMMA StepKeepsBooks ==
  ASSUME IInv, IInv', Books, [Next]_vars
  PROVE  Books'
<1>1. TypeOK /\ TypeOK'
  BY DEF IInv
<1>2. \A a \in Account : accts[a].bookBalance \in Int /\ moved[a] \in Int
  BY <1>1 DEF TypeOK, AccountRow
<1>3. ASSUME NEW w \in Worker, Collect(w) PROVE Books'
  BY <1>3, CollectKeepsBooks
<1>4. ASSUME NEW w \in Worker, MarkOverdue(w) PROVE Books'
  <2>1. accts' = accts /\ ledger' = ledger /\ moved' = moved
    BY <1>4 DEF MarkOverdue, books, world
  <2>2. \A k \in Loan : \A b \in Bucket : Collected(k, b)' = Collected(k, b)
    BY <1>4, MarkingCollectsNothing
  <2> QED BY <1>1, <1>2, <2>1, <2>2, BooksStay DEF MovedByOthers
<1>5. rows' = rows => \A k \in Loan : \A b \in Bucket : Collected(k, b)' = Collected(k, b)
  <2> SUFFICES ASSUME rows' = rows, NEW k \in Loan, NEW b \in Bucket PROVE Collected(k, b)' = Collected(k, b)
    OBVIOUS
  <2> QED BY Zenon DEF Collected
<1>6. rows' = rows /\ accts' = accts /\ ledger' = ledger /\ moved' = moved => Books'
  BY <1>1, <1>2, <1>5, BooksStay DEF MovedByOthers
<1>7. ASSUME NEW a \in Account, PayInOrOut(a) PROVE Books'
  <2>1. PICK x \in Change :
          /\ accts' = [accts EXCEPT ![a].bookBalance = @ + x]
          /\ moved' = [moved EXCEPT ![a] = @ + x]
          /\ rows' = rows /\ ledger' = ledger
    BY <1>7 DEF PayInOrOut, loans
  <2>2. x \in Int /\ accts \in [Account -> AccountRow] /\ moved \in [Account -> Int]
    BY <1>1, RepaymentAssumption DEF TypeOK
  <2>3. ASSUME NEW c \in Account PROVE accts'[c].bookBalance - moved'[c] = accts[c].bookBalance - moved[c]
    <3>1. CASE c = a
      <4>1. accts'[a].bookBalance = accts[a].bookBalance + x
        BY <2>1, <2>2 DEF AccountRow
      <4>2. moved'[a] = moved[a] + x
        BY <2>1, <2>2
      <4> QED BY <1>2, <2>2, <3>1, <4>1, <4>2
    <3>2. CASE c # a
      <4>1. accts'[c] = accts[c] /\ moved'[c] = moved[c]
        BY <2>1, <2>2, <3>2
      <4> QED BY <4>1
    <3> QED BY <3>1, <3>2
  <2> QED BY <1>1, <1>5, <2>1, <2>3, BooksStay DEF MovedByOthers
<1>8. ASSUME NEW a \in Account, RestrictOrRelease(a) PROVE Books'
  <2>1. accts' = [accts EXCEPT ![a].postNoDebit = ~@] /\ rows' = rows /\ ledger' = ledger /\ moved' = moved
    BY <1>8 DEF RestrictOrRelease, loans
  <2>2. accts \in [Account -> AccountRow]
    BY <1>1 DEF TypeOK
  <2>3. \A c \in Account : accts'[c].bookBalance = accts[c].bookBalance
    BY <2>1, <2>2 DEF AccountRow
  <2>4. \A c \in Account : accts'[c].bookBalance - moved'[c] = accts[c].bookBalance - moved[c]
    BY <2>1, <2>3
  <2> QED BY <1>1, <1>5, <2>1, <2>4, BooksStay DEF MovedByOthers
<1>9. ASSUME NEW w \in Worker, (\E l \in Loan : TakeJob(w, l)) \/ JobStalls(w) PROVE Books'
  <2>1. rows' = rows /\ accts' = accts /\ ledger' = ledger /\ moved' = moved
    BY <1>9 DEF TakeJob, JobStalls, loans, books, world
  <2> QED BY <1>6, <2>1
<1>10. ASSUME NEW w \in Worker, LockLoan(w) \/ LoanNotOpen(w) \/ LockAccount(w) \/ AccountMissing(w) \/ CollectThrows(w)
       PROVE  Books'
  <2>1. rows' = rows /\ accts' = accts /\ ledger' = ledger /\ moved' = moved
    BY <1>10 DEF LockLoan, LoanNotOpen, LockAccount, AccountMissing, CollectThrows, loans, books, world
  <2> QED BY <1>6, <2>1
<1>11. CASE Sweep \/ SweepBreaksOff \/ NextDay
  <2>1. rows' = rows /\ accts' = accts /\ ledger' = ledger /\ moved' = moved
    BY <1>11 DEF Sweep, SweepBreaksOff, NextDay, loans, books, world
  <2> QED BY <1>6, <2>1
<1>12. CASE UNCHANGED vars
  <2>1. rows' = rows /\ accts' = accts /\ ledger' = ledger /\ moved' = moved
    BY <1>12 DEF vars
  <2> QED BY <1>6, <2>1
<1> QED BY <1>3, <1>4, <1>7, <1>8, <1>9, <1>10, <1>11, <1>12 DEF Next, Process

(* At the start nothing is collected. *)
LEMMA NothingCollected ==
  ASSUME Init, IInv
  PROVE  \A l \in Loan : \A b \in Bucket : Collected(l, b) = 0
<1> SUFFICES ASSUME NEW l \in Loan, NEW b \in Bucket PROVE Collected(l, b) = 0
  OBVIOUS
<1> DEFINE f == [k \in DOMAIN rows[l] |-> rows[l][k].got[b]]
<1>1. DOMAIN rows[l] = 1..Len(rows[l]) /\ Len(rows[l]) \in Nat /\ DOMAIN rows[l] = DOMAIN Instalment[l]
  BY RepaymentAssumption DEF IInv, Kept, Fits
<1>2. IsFiniteSet(DOMAIN rows[l])
  BY <1>1, UpToFinite
<1>3. \A k \in DOMAIN rows[l] : rows[l][k] = [got |-> [c \in Bucket |-> 0], total |-> 0, status |-> "scheduled"]
  BY <1>1 DEF Init
<1>4. DOMAIN f = DOMAIN rows[l] /\ \A k \in DOMAIN rows[l] : f[k] = 0
  BY <1>3
<1>5. Collected(l, b) = SumFunctionOnSet(f, DOMAIN rows[l])
  BY <1>4, Zenon DEF Collected, SumFunction
<1> HIDE DEF f
<1>6. SumFunctionOnSet(f, DOMAIN rows[l]) = SumFunctionOnSet(f, {})
  BY <1>2, <1>4, SumOfPart
<1> QED BY <1>5, <1>6, SumEmpty

(* At the start nothing is collected and nothing is posted. *)
LEMMA InitBooks ==
  ASSUME Init, IInv
  PROVE  Books
<1>1. \A l \in Loan : \A b \in Bucket : Posted(l, b) = 0
  BY NothingCollected DEF Posted
<1>2. IsFiniteSet(Loan) /\ IsFiniteSet(Account)
  BY RepaymentAssumption, FiniteAssumption
<1>3. \A l \in Loan : Posted(l, "P") = 0 /\ Posted(l, "C") = 0 /\ Posted(l, "I") = 0
  BY <1>1 DEF Bucket
<1>4. ASSUME NEW a \in Account PROVE PostedFrom(a) = 0
  <2> DEFINE S == {l \in Loan : PayFrom[l] = a}
             f == [l \in S |-> Posted(l, "P") + Posted(l, "C") + Posted(l, "I")]
  <2>1. IsFiniteSet(S)
    BY <1>2, FS_Subset
  <2>2. DOMAIN f = S /\ \A l \in S : f[l] = 0
    BY <1>3
  <2>3. PostedFrom(a) = SumFunctionOnSet(f, S)
    BY <2>2, Zenon DEF PostedFrom, SumFunction
  <2> HIDE DEF f, S
  <2>4. SumFunctionOnSet(f, S) = SumFunctionOnSet(f, {})
    BY <2>1, <2>2, SumOfPart
  <2> QED BY <2>3, <2>4, SumEmpty
<1>5. ASSUME NEW h \in Gl PROVE Credits(h) = 0
  <2> DEFINE f == [l \in Loan |-> (IF LoanGl[l] = h THEN Posted(l, "P") ELSE 0)
                                   + (IF IncomeGl[l] = h THEN Posted(l, "I") ELSE 0)
                                   + (IF LoanFeeGl[l] = h THEN Posted(l, "C") ELSE 0)]
  <2>1. DOMAIN f = Loan /\ \A l \in Loan : f[l] = 0
    BY <1>3
  <2>2. Credits(h) = SumFunctionOnSet(f, Loan)
    BY <2>1, Zenon DEF Credits, SumFunction
  <2> HIDE DEF f
  <2>3. SumFunctionOnSet(f, Loan) = SumFunctionOnSet(f, {})
    BY <1>2, <2>1, SumOfPart
  <2> QED BY <2>2, <2>3, SumEmpty
<1>6. ASSUME NEW h \in Gl PROVE Debits(h) = 0
  <2> DEFINE S == {a \in Account : ControlGl[a] = h}
             f == [a \in S |-> PostedFrom(a)]
  <2>1. IsFiniteSet(S)
    BY <1>2, FS_Subset
  <2>2. DOMAIN f = S /\ \A a \in S : f[a] = 0
    BY <1>4
  <2>3. Debits(h) = SumFunctionOnSet(f, S)
    BY <2>2, Zenon DEF Debits, SumFunction
  <2> HIDE DEF f, S
  <2>4. SumFunctionOnSet(f, S) = SumFunctionOnSet(f, {})
    BY <2>1, <2>2, SumOfPart
  <2> QED BY <2>3, <2>4, SumEmpty
<1>7. ASSUME NEW a \in Account PROVE AccountBook(a)
  <2>1. accts[a] = OpeningRow[a] /\ moved[a] = 0
    BY <1>7 DEF Init
  <2>2. OpeningRow[a].bookBalance \in Int
    BY RepaymentAssumption DEF AccountRow
  <2> QED BY <1>4, <2>1, <2>2 DEF AccountBook
<1>8. ASSUME NEW h \in Gl PROVE LedgerBook(h)
  BY <1>5, <1>6, <1>8 DEF Init, LedgerBook
<1> QED BY <1>7, <1>8 DEF Books

(* Five books of a repayment that are written from different sources agree in every state of every
   history: instalments, balance and outstanding amount of the loan, receipts, journal lines and the
   customer's balance. Where journal_entries.transaction_id is checked at commit, the money is that of
   the instalments; where it is checked at once, as the migration has it, none moves. *)
THEOREM BooksAreKept == Spec => []BooksAgree
<1>1. Init /\ IInv => Books
  BY InitBooks
<1>2. IInv /\ IInv' /\ Books /\ [Next]_vars => Books'
  BY StepKeepsBooks
<1>3. IInv /\ Books => BooksAgree
  BY BooksAgreeIs
<1> QED BY <1>1, <1>2, <1>3, Invariance, PTL DEF Spec

-----------------------------------------------------------------------------
(* The collection repays debts as DebtLedger says.                           *)

Yield == SumFunction([l \in Loan |-> Collected(l, "C") + Collected(l, "I")])
Ended == {l \in Loan : detail[l].status = "paid_off"}

(* What the buckets of all instalments of a loan come to. *)
DueOf(l) == SumFunction([k \in DOMAIN Instalment[l] |-> Sum(Instalment[l][k].amount)])

(* What has been paid of a loan is the sum over its buckets, and not more than what is due of it. *)
LEMMA PaidIs ==
  ASSUME NEW l \in Loan, NEW rr, Fits(l, rr)
  PROVE  /\ GotOf(rr, "P") + GotOf(rr, "C") + GotOf(rr, "I") \in Nat
         /\ GotOf(rr, "P") + GotOf(rr, "C") + GotOf(rr, "I") <= DueOf(l) /\ DueOf(l) \in Nat
<1>1. PICK S : S = 1..Len(rr)
  OBVIOUS
<1>2. /\ rr \in Seq(Row) /\ Len(rr) = Len(Instalment[l]) /\ DOMAIN rr = S /\ IsFiniteSet(S)
      /\ DOMAIN Instalment[l] = S
  <2>1. rr \in Seq(Row) /\ Len(rr) = Len(Instalment[l]) /\ Len(rr) \in Nat /\ Instalment[l] \in Seq(Due)
    BY RepaymentAssumption DEF Fits
  <2>2. IsFiniteSet(1..Len(rr))
    BY <2>1, UpToFinite
  <2> QED BY <1>1, <2>1, <2>2
<1>3. PICK fp, fc, fi : /\ fp = [k \in S |-> rr[k].got["P"]] /\ fc = [k \in S |-> rr[k].got["C"]]
                        /\ fi = [k \in S |-> rr[k].got["I"]]
  OBVIOUS
<1>4. PICK pc2, all, due : /\ pc2 = [k \in S |-> fp[k] + fc[k]] /\ all = [k \in S |-> pc2[k] + fi[k]]
                           /\ due = [k \in S |-> Sum(Instalment[l][k].amount)]
  OBVIOUS
<1>5. ASSUME NEW k \in S
      PROVE  /\ fp[k] \in Nat /\ fc[k] \in Nat /\ fi[k] \in Nat
             /\ pc2[k] = fp[k] + fc[k] /\ all[k] = pc2[k] + fi[k] /\ all[k] \in Nat /\ due[k] \in Nat /\ all[k] <= due[k]
  <2>1. /\ Instalment[l][k].amount \in Amounts
        /\ \A b \in Bucket : Instalment[l][k].amount[b] \in Nat /\ rr[k].got[b] \in Nat
    BY <1>1, <1>2, DueType
  <2>2. \A b \in Bucket : rr[k].got[b] <= Instalment[l][k].amount[b]
    BY <1>1 DEF Fits, RowFits
  <2>3. fp[k] = rr[k].got["P"] /\ fc[k] = rr[k].got["C"] /\ fi[k] = rr[k].got["I"]
        /\ pc2[k] = fp[k] + fc[k] /\ all[k] = pc2[k] + fi[k] /\ due[k] = Sum(Instalment[l][k].amount)
    BY <1>3, <1>4
  <2>4. /\ rr[k].got["P"] \in Nat /\ rr[k].got["C"] \in Nat /\ rr[k].got["I"] \in Nat
        /\ rr[k].got["P"] <= Instalment[l][k].amount["P"] /\ rr[k].got["C"] <= Instalment[l][k].amount["C"]
        /\ rr[k].got["I"] <= Instalment[l][k].amount["I"]
        /\ Instalment[l][k].amount["P"] \in Nat /\ Instalment[l][k].amount["C"] \in Nat /\ Instalment[l][k].amount["I"] \in Nat
    BY <2>1, <2>2 DEF Bucket
  <2>5. due[k] = Instalment[l][k].amount["P"] + Instalment[l][k].amount["C"] + Instalment[l][k].amount["I"]
    BY <2>3 DEF Sum
  <2> QED BY <2>3, <2>4, <2>5
<1>6. /\ GotOf(rr, "P") = SumFunctionOnSet(fp, S) /\ GotOf(rr, "C") = SumFunctionOnSet(fc, S)
      /\ GotOf(rr, "I") = SumFunctionOnSet(fi, S)
  <2>1. DOMAIN fp = S /\ DOMAIN fc = S /\ DOMAIN fi = S
    BY <1>3
  <2> QED BY <1>2, <1>3, <2>1, Zenon DEF GotOf, SumFunction
<1>7. DueOf(l) = SumFunctionOnSet(due, S)
  <2>1. DOMAIN due = S
    BY <1>4
  <2> QED BY <1>2, <1>4, <2>1, Zenon DEF DueOf, SumFunction
<1>8. SumFunctionOnSet(pc2, S) = SumFunctionOnSet(fp, S) + SumFunctionOnSet(fc, S)
  <2>1. \A k \in S : fp[k] \in Int /\ fc[k] \in Int /\ pc2[k] = fp[k] + fc[k]
    BY <1>5
  <2> QED BY <1>2, <2>1, SumPlus
<1>9. SumFunctionOnSet(all, S) = SumFunctionOnSet(pc2, S) + SumFunctionOnSet(fi, S)
  <2>1. \A k \in S : pc2[k] \in Int /\ fi[k] \in Int /\ all[k] = pc2[k] + fi[k]
    BY <1>5
  <2> QED BY <1>2, <2>1, SumPlus
<1>10. SumFunctionOnSet(all, S) \in Nat /\ SumFunctionOnSet(due, S) \in Nat
  BY <1>2, <1>5, SumNat
<1>11. SumFunctionOnSet(all, S) <= SumFunctionOnSet(due, S)
  <2>1. \A k \in S : all[k] \in Int /\ due[k] \in Int /\ all[k] <= due[k]
    BY <1>5
  <2> QED BY <1>2, <2>1, SumAtMost
<1> QED BY <1>6, <1>7, <1>8, <1>9, <1>10, <1>11

(* What a collection takes is not more than all that is due. *)
LEMMA CollectionIsBounded ==
  ASSUME NEW l \in Loan, NEW rr, Fits(l, rr), NEW r, Fits(l, r), NEW g \in Amounts,
         \A b \in Bucket : GotOf(r, b) = GotOf(rr, b) + g[b]
  PROVE  Sum(g) <= TotalDue /\ TotalDue \in Nat
<1>1. PICK due : due = [k \in Loan |-> SumFunction([j \in DOMAIN Instalment[k] |-> Sum(Instalment[k][j].amount)])]
  OBVIOUS
<1>2. IsFiniteSet(Loan)
  BY RepaymentAssumption
<1>3. \A k \in Loan : due[k] = DueOf(k)
  BY <1>1 DEF DueOf
<1>4. ASSUME NEW k \in Loan PROVE due[k] \in Nat
  <2> DEFINE f == [j \in DOMAIN Instalment[k] |-> Sum(Instalment[k][j].amount)]
  <2>1. Instalment[k] \in Seq(Due) /\ DOMAIN Instalment[k] = 1..Len(Instalment[k]) /\ Len(Instalment[k]) \in Nat
    BY RepaymentAssumption
  <2>2. IsFiniteSet(DOMAIN Instalment[k])
    <3>1. IsFiniteSet(1..Len(Instalment[k]))
      BY <2>1, UpToFinite
    <3> QED BY <2>1, <3>1
  <2>3. ASSUME NEW j \in DOMAIN Instalment[k] PROVE f[j] \in Nat
    <3>1. Instalment[k][j] \in Due
      BY <2>1
    <3>2. Instalment[k][j].amount \in Amounts
      BY <3>1 DEF Due
    <3>3. Sum(Instalment[k][j].amount) \in Nat
      BY <3>2, SumIsNat
    <3> QED BY <3>3
  <2>4. DOMAIN f = DOMAIN Instalment[k]
    OBVIOUS
  <2>5. DueOf(k) = SumFunctionOnSet(f, DOMAIN Instalment[k])
    BY <2>4, Zenon DEF DueOf, SumFunction
  <2> HIDE DEF f
  <2> QED BY <1>3, <2>2, <2>3, <2>5, SumNat
<1>5. TotalDue = SumFunctionOnSet(due, Loan)
  <2>1. DOMAIN due = Loan
    BY <1>1
  <2> QED BY <1>1, <2>1, Zenon DEF TotalDue, SumFunction
<1>6. SumFunctionOnSet(due, Loan) = due[l] + SumFunctionOnSet(due, Loan \ {l})
  <2>1. \A k \in Loan : due[k] \in Int
    BY <1>4
  <2> QED BY <1>2, <2>1, SumRemove
<1>7. SumFunctionOnSet(due, Loan \ {l}) \in Nat
  <2>1. IsFiniteSet(Loan \ {l})
    BY <1>2, FS_RemoveElement
  <2> QED BY <1>4, <2>1, SumNat
<1>8. DueOf(l) <= TotalDue /\ TotalDue \in Nat
  BY <1>3, <1>4, <1>5, <1>6, <1>7
<1>9. /\ GotOf(rr, "P") + GotOf(rr, "C") + GotOf(rr, "I") \in Nat
      /\ GotOf(r, "P") + GotOf(r, "C") + GotOf(r, "I") <= DueOf(l) /\ DueOf(l) \in Nat
  BY PaidIs
<1>10. /\ GotOf(r, "P") = GotOf(rr, "P") + g["P"] /\ GotOf(r, "C") = GotOf(rr, "C") + g["C"]
       /\ GotOf(r, "I") = GotOf(rr, "I") + g["I"]
  BY DEF Bucket
<1>11. /\ GotOf(rr, "P") \in Int /\ GotOf(rr, "C") \in Int /\ GotOf(rr, "I") \in Int
       /\ g["P"] \in Nat /\ g["C"] \in Nat /\ g["I"] \in Nat
  BY GotType DEF Bucket, Amounts
<1>12. Sum(g) = g["P"] + g["C"] + g["I"]
  BY DEF Sum
<1>13. Sum(g) <= DueOf(l) /\ Sum(g) \in Int
  <2>1. ASSUME NEW p \in Int, NEW c \in Int, NEW i \in Int, NEW p2 \in Nat, NEW c2 \in Nat, NEW i2 \in Nat, NEW d \in Nat,
               p + c + i \in Nat, (p + p2) + (c + c2) + (i + i2) <= d
        PROVE  p2 + c2 + i2 <= d
    BY <2>1
  <2>2. (GotOf(rr, "P") + g["P"]) + (GotOf(rr, "C") + g["C"]) + (GotOf(rr, "I") + g["I"]) <= DueOf(l)
    BY <1>9, <1>10
  <2>3. g["P"] + g["C"] + g["I"] <= DueOf(l)
    BY <1>9, <1>11, <2>1, <2>2
  <2> QED BY <1>11, <1>12, <2>3
<1> QED BY <1>8, <1>9, <1>13

(* Interest and charges grow with the instalments of a loan. *)
LEMMA YieldGrows ==
  ASSUME IInv, NEW l \in Loan, NEW g \in Amounts, Grows(l, g)
  PROVE  Yield' = Yield + (g["C"] + g["I"])
<1>1. IsFiniteSet(Loan)
  BY RepaymentAssumption
<1>2. /\ \A k \in Loan : Collected(k, "C") \in Int /\ Collected(k, "I") \in Int
      /\ g["C"] \in Nat /\ g["I"] \in Nat
  BY CollectedType DEF Bucket, Amounts
<1>3. /\ Collected(l, "C")' = Collected(l, "C") + g["C"]
      /\ Collected(l, "I")' = Collected(l, "I") + g["I"]
      /\ \A k \in Loan : k # l => Collected(k, "C")' = Collected(k, "C") /\ Collected(k, "I")' = Collected(k, "I")
  BY DEF Grows, Bucket
<1>4. PICK f : f = [k \in Loan |-> Collected(k, "C") + Collected(k, "I")]
  OBVIOUS
<1>5. PICK f2 : f2 = [k \in Loan |-> (Collected(k, "C") + Collected(k, "I"))']
  OBVIOUS
<1>6. Yield = SumFunctionOnSet(f, Loan)
  <2>1. DOMAIN f = Loan
    BY <1>4
  <2> QED BY <1>4, <2>1, Zenon DEF Yield, SumFunction
<1>7. Yield' = SumFunctionOnSet(f2, Loan)
  <2>1. DOMAIN f2 = Loan
    BY <1>5
  <2> QED BY <1>5, <2>1, Zenon DEF Yield, SumFunction
<1>8. \A k \in Loan : f[k] \in Int
  BY <1>2, <1>4
<1>9. \A k \in Loan \ {l} : f[k] \in Int /\ f2[k] = f[k]
  BY <1>3, <1>4, <1>5, <1>8
<1>10. f2[l] = f[l] + (g["C"] + g["I"]) /\ f2[l] \in Int /\ f[l] \in Int
  <2>1. f[l] = Collected(l, "C") + Collected(l, "I") /\ f2[l] = Collected(l, "C")' + Collected(l, "I")'
    BY <1>4, <1>5
  <2> QED BY <1>2, <1>3, <2>1
<1>11. SumFunctionOnSet(f2, Loan) = SumFunctionOnSet(f, Loan) + (f2[l] - f[l])
  BY <1>1, <1>9, <1>10, SumChange
<1>12. SumFunctionOnSet(f, Loan) \in Int
  BY <1>1, <1>8, SumType
<1> QED BY <1>2, <1>6, <1>7, <1>10, <1>11, <1>12

(* And stay when nothing is collected. *)
LEMMA YieldStays ==
  ASSUME \A k \in Loan : \A b \in Bucket : Collected(k, b)' = Collected(k, b)
  PROVE  Yield' = Yield
<1>1. \A k \in Loan : Collected(k, "C")' = Collected(k, "C") /\ Collected(k, "I")' = Collected(k, "I")
  BY DEF Bucket
<1>2. [k \in Loan |-> Collected(k, "C")' + Collected(k, "I")'] = [k \in Loan |-> Collected(k, "C") + Collected(k, "I")]
  BY <1>1
<1> QED BY <1>2, Zenon DEF Yield

(* A loan that is repaid ends with its debt. *)
LEMMA RepayIs ==
  ASSUME IInv, IInv', NEW w \in Worker, Collect(w), NEW l, l = work[w].loan,
         NEW a, NEW r, NEW g, Collects(w, l, a, r, g), Sum(g) > 0
  PROVE  Debts!Repay(l)
<1>1. l \in Loan /\ g \in Amounts /\ Posts(l, g) /\ Grows(l, g)
  BY CollectGrows
<1>2. TypeOK /\ pc[w] = "collect"
  BY CollectGives DEF IInv
<1>3. /\ PayFrom[l] \in Account /\ work[w].row = accts[PayFrom[l]] /\ accts[PayFrom[l]] \in AccountRow
      /\ Available(work[w].row) \in Int /\ detail[l].status = "disbursed" /\ Fits(l, rows[l])
  BY <1>2, CollectorIs
<1>4. SettlesTo(l, r, g["P"])
  BY <1>2, SettleIs
<1>5. /\ Fits(l, r) /\ a = Available(work[w].row) - Sum(g) /\ (a >= 0 \/ Sum(g) = 0)
      /\ \A b \in Bucket : GotOf(r, b) = GotOf(rows[l], b) + g[b]
  BY DEF Collects, Going
<1>6. PICK p \in Nat, y \in Nat : p = g["P"] /\ y = g["C"] + g["I"]
  BY <1>1 DEF Amounts, Bucket
<1>7. Sum(g) = p + y /\ Sum(g) \in Nat
  BY <1>1, <1>6 DEF Sum, Amounts, Bucket
<1>8. p \in 0..TotalDue /\ y \in 0..TotalDue
  <2>1. Sum(g) <= TotalDue /\ TotalDue \in Nat
    BY <1>1, <1>3, <1>5, CollectionIsBounded
  <2> QED BY <1>6, <1>7, <2>1
<1>9. /\ FkDeferred => accts' = [accts EXCEPT ![PayFrom[l]].bookBalance = @ - Sum(g)]
      /\ ~FkDeferred => accts' = accts
  <2>1. CASE FkDeferred
    <3>1. PostingAnswer(l, g) = "ok"
      BY <2>1, PostingIsMade DEF Collects
    <3> QED BY <1>1, <1>2, <2>1, <3>1, PostsIs
  <2>2. CASE ~FkDeferred
    <3>1. PostingAnswer(l, g) # "ok"
      BY <1>1, <2>2, PostingFails
    <3> QED BY <1>1, <1>2, <2>2, <3>1, PostsIs
  <2> QED BY <2>1, <2>2
<1>10. [k \in Loan |-> -account[k].book]' = [[k \in Loan |-> -account[k].book] EXCEPT ![l] = @ - p]
  <2>1. account'[l].book = account[l].book + p /\ \A k \in Loan : k # l => account'[k] = account[k]
    BY <1>4, <1>6 DEF SettlesTo
  <2>2. account[l].book \in Int
    BY <1>1, <1>2 DEF TypeOK, LoanAccountRow
  <2>3. -account'[l].book = (-account[l].book) - p
    BY <1>6, <2>1, <2>2
  <2>4. \A k \in Loan : -account'[k].book = [[j \in Loan |-> -account[j].book] EXCEPT ![l] = (-account[l].book) - p][k]
    BY <1>1, <2>1, <2>3
  <2>5. [k \in Loan |-> -account'[k].book] = [[j \in Loan |-> -account[j].book] EXCEPT ![l] = (-account[l].book) - p]
    BY <2>4
  <2>6. [[j \in Loan |-> -account[j].book] EXCEPT ![l] = (-account[l].book) - p] =
        [[k \in Loan |-> -account[k].book] EXCEPT ![l] = @ - p]
    BY <1>1
  <2> QED BY <2>5, <2>6
<1>11. ASSUME FkDeferred
       PROVE  [b \in Account |-> Available(accts[b])]' =
                [[b \in Account |-> Available(accts[b])] EXCEPT ![PayFrom[l]] = @ - (p + y)]
  <2>1. PICK c : c = PayFrom[l]
    OBVIOUS
  <2>2. accts \in [Account -> AccountRow] /\ c \in Account /\ accts[c] \in AccountRow
    BY <1>2, <1>3, <2>1 DEF TypeOK
  <2>3. accts' = [accts EXCEPT ![c].bookBalance = @ - Sum(g)]
    BY <1>9, <1>11, <2>1, Zenon
  <2>4. \A b \in Account : b # c => accts'[b] = accts[b]
    BY <2>2, <2>3
  <2>5. accts'[c].bookBalance = accts[c].bookBalance - Sum(g) /\ accts'[c].lienAmount = accts[c].lienAmount
    BY <2>2, <2>3 DEF AccountRow
  <2>6. Available(accts'[c]) = Available(accts[c]) - (p + y)
    <3>1. accts[c].bookBalance \in Int /\ accts[c].lienAmount \in Int
      BY <2>2 DEF AccountRow
    <3> QED BY <1>6, <1>7, <2>5, <3>1 DEF Available
  <2>7. PICK F : F = [b \in Account |-> Available(accts[b])]
    OBVIOUS
  <2>8. PICK F2 : F2 = [b \in Account |-> Available(accts'[b])]
    OBVIOUS
  <2>9. \A b \in Account : F2[b] = [F EXCEPT ![c] = @ - (p + y)][b]
    <3> SUFFICES ASSUME NEW b \in Account PROVE F2[b] = [F EXCEPT ![c] = @ - (p + y)][b]
      OBVIOUS
    <3>1. F[c] = Available(accts[c]) /\ F2[b] = Available(accts'[b]) /\ F[b] = Available(accts[b])
      BY <2>2, <2>7, <2>8
    <3>2. CASE b = c
      BY <2>2, <2>6, <2>7, <3>1, <3>2
    <3>3. CASE b # c
      BY <2>4, <2>7, <3>1, <3>3
    <3> QED BY <3>2, <3>3
  <2>10. F2 = [F EXCEPT ![c] = @ - (p + y)]
    BY <2>7, <2>8, <2>9
  <2> QED BY <2>1, <2>7, <2>8, <2>10, Zenon
<1>12. ASSUME ~FkDeferred
       PROVE  [b \in Account |-> Available(accts[b])]' = [b \in Account |-> Available(accts[b])]
  BY <1>9, <1>12
<1>13. [b \in Account |-> Available(accts[b])]' =
         IF FkDeferred THEN [[b \in Account |-> Available(accts[b])] EXCEPT ![PayFrom[l]] = @ - (p + y)]
         ELSE [b \in Account |-> Available(accts[b])]
  BY <1>11, <1>12, Zenon
<1>14. [b \in Account |-> Available(accts[b])][PayFrom[l]] >= p + y
  BY <1>3, <1>5, <1>7
<1>15. Yield' = Yield + y
  BY <1>1, <1>6, YieldGrows
<1>16. l \notin Ended /\ Ended' \in {Ended, Ended \cup {l}}
  <2>1. l \notin Ended
    BY <1>3 DEF Ended
  <2>2. \A k \in Loan : k # l => detail'[k] = detail[k]
    BY <1>4 DEF SettlesTo
  <2>3. Ended' = Ended \/ Ended' = Ended \cup {l}
    BY <1>1, <2>1, <2>2 DEF Ended
  <2> QED BY <2>1, <2>3
<1>17. l \in Ended' => [k \in Loan |-> -account[k].book]'[l] <= 0
  <2>1. l \in Ended' => account'[l].book >= 0
    BY <1>4 DEF Ended, SettlesTo
  <2>2. account'[l].book \in Int
    BY <1>1 DEF IInv, TypeOK, LoanAccountRow
  <2> QED BY <1>1, <2>1, <2>2
<1>18. p + y > 0
  BY <1>7
<1> QED BY <1>8, <1>10, <1>13, <1>14, <1>15, <1>16, <1>17, <1>18 DEF Debts!Repay, Yield, Ended

(* Nothing the ledger of debts knows of changes. *)
LEMMA DebtsStay ==
  ASSUME account' = account, detail' = detail, \A k \in Loan : \A b \in Bucket : Collected(k, b)' = Collected(k, b),
         \A b \in Account : Available(accts'[b]) = Available(accts[b])
  PROVE  UNCHANGED Debts!vars
<1>1. Yield' = Yield
  BY YieldStays
<1>2. [b \in Account |-> Available(accts'[b])] = [b \in Account |-> Available(accts[b])]
  OBVIOUS
<1> QED BY <1>1, <1>2, Zenon DEF Debts!vars, Yield

(* A collection repays something, or changes nothing that counts. *)
LEMMA CollectRepays ==
  ASSUME IInv, IInv', NEW w \in Worker, Collect(w)
  PROVE  [Debts!Next]_(Debts!vars)
<1>1. PICK l : l = work[w].loan
  OBVIOUS
<1>2. PICK a, r, g : Collects(w, l, a, r, g)
  BY <1>1, CollectGives
<1>3. l \in Loan /\ g \in Amounts /\ Posts(l, g) /\ Grows(l, g)
  BY <1>1, <1>2, CollectGrows
<1>4. CASE Sum(g) > 0
  <2>1. Debts!Repay(l)
    BY <1>1, <1>2, <1>4, RepayIs
  <2> QED BY <1>3, <2>1 DEF Debts!Next
<1>5. CASE ~(Sum(g) > 0)
  <2>1. \A b \in Bucket : g[b] = 0
    <3>1. Sum(g) \in Nat /\ \A b \in Bucket : g[b] \in Nat /\ g[b] <= Sum(g)
      BY <1>3, SumIsNat DEF Amounts
    <3> QED BY <1>5, <3>1
  <2>2. detail' = detail /\ account' = account
    <3>1. ~(g["P"] > 0)
      BY <2>1 DEF Bucket
    <3> QED BY <1>2, <3>1 DEF Collects, SettleLoan, State
  <2>3. accts' = accts
    BY <1>3, <1>5, PostsIs DEF IInv
  <2>4. ASSUME NEW k \in Loan, NEW b \in Bucket PROVE Collected(k, b)' = Collected(k, b)
    <3>1. Collected(k, b) \in Int
      BY CollectedType
    <3>2. Collected(k, b)' = Collected(k, b) + g[b] \/ Collected(k, b)' = Collected(k, b)
      BY <1>3 DEF Grows
    <3> QED BY <2>1, <3>1, <3>2
  <2> QED BY <2>2, <2>3, <2>4, DebtsStay
<1> QED BY <1>4, <1>5

(* A payment in or out of an account is a transfer of the ledger of debts. *)
LEMMA PaymentTransfers ==
  ASSUME IInv, NEW a \in Account, PayInOrOut(a)
  PROVE  [Debts!Next]_(Debts!vars)
<1>1. PICK x \in Change :
        /\ x < 0 => Available(accts[a]) >= -x
        /\ accts' = [accts EXCEPT ![a].bookBalance = @ + x]
        /\ account' = account /\ detail' = detail /\ rows' = rows
  BY DEF PayInOrOut, loans
<1>2. x \in Int /\ accts \in [Account -> AccountRow] /\ accts[a] \in AccountRow
  BY RepaymentAssumption DEF IInv, TypeOK
<1>3. \A b \in Account : b # a => accts'[b] = accts[b]
  BY <1>1, <1>2
<1>4. accts'[a].bookBalance = accts[a].bookBalance + x /\ accts'[a].lienAmount = accts[a].lienAmount
  BY <1>1, <1>2 DEF AccountRow
<1>5. Available(accts'[a]) = Available(accts[a]) + x
  <2>1. accts[a].bookBalance \in Int /\ accts[a].lienAmount \in Int
    BY <1>2 DEF AccountRow
  <2> QED BY <1>2, <1>4, <2>1 DEF Available
<1>6. PICK F : F = [b \in Account |-> Available(accts[b])]
  OBVIOUS
<1>7. PICK F2 : F2 = [b \in Account |-> Available(accts'[b])]
  OBVIOUS
<1>8. F2 = [F EXCEPT ![a] = @ + x]
  <2>1. ASSUME NEW b \in Account PROVE F2[b] = [F EXCEPT ![a] = @ + x][b]
    <3>1. F[a] = Available(accts[a]) /\ F2[b] = Available(accts'[b]) /\ F[b] = Available(accts[b])
      BY <1>6, <1>7
    <3>2. CASE b = a
      BY <1>5, <1>6, <3>1, <3>2
    <3>3. CASE b # a
      BY <1>3, <1>6, <3>1, <3>3
    <3> QED BY <3>2, <3>3
  <2> QED BY <1>6, <1>7, <2>1
<1>9. Yield' = Yield
  <2>1. ASSUME NEW k \in Loan, NEW b \in Bucket PROVE Collected(k, b)' = Collected(k, b)
    BY <1>1, Zenon DEF Collected
  <2> QED BY <2>1, YieldStays
<1>10. [b \in Account |-> Available(accts[b])]' = [[b \in Account |-> Available(accts[b])] EXCEPT ![a] = @ + x]
  BY <1>6, <1>7, <1>8, Zenon
<1>11. x < 0 => [b \in Account |-> Available(accts[b])][a] >= -x
  BY <1>1
<1>12. Debts!Transfer(a, x)
  BY <1>1, <1>9, <1>10, <1>11 DEF Debts!Transfer, Yield
<1> QED BY <1>12 DEF Debts!Next

(* Every step of the collection is a step of the ledger of debts, or none. *)
LEMMA StepRepays ==
  ASSUME IInv, IInv', [Next]_vars
  PROVE  [Debts!Next]_(Debts!vars)
<1>1. rows' = rows => \A k \in Loan : \A b \in Bucket : Collected(k, b)' = Collected(k, b)
  <2> SUFFICES ASSUME rows' = rows, NEW k \in Loan, NEW b \in Bucket PROVE Collected(k, b)' = Collected(k, b)
    OBVIOUS
  <2> QED BY Zenon DEF Collected
<1>2. rows' = rows /\ accts' = accts /\ account' = account /\ detail' = detail => UNCHANGED Debts!vars
  BY <1>1, DebtsStay
<1>3. ASSUME NEW w \in Worker, Collect(w) PROVE [Debts!Next]_(Debts!vars)
  BY <1>3, CollectRepays
<1>4. ASSUME NEW w \in Worker, MarkOverdue(w) PROVE UNCHANGED Debts!vars
  <2>1. accts' = accts /\ account' = account /\ detail' = detail
    BY <1>4 DEF MarkOverdue, books
  <2>2. \A k \in Loan : \A b \in Bucket : Collected(k, b)' = Collected(k, b)
    BY <1>4, MarkingCollectsNothing
  <2> QED BY <2>1, <2>2, DebtsStay
<1>5. ASSUME NEW a \in Account, PayInOrOut(a) PROVE [Debts!Next]_(Debts!vars)
  BY <1>5, PaymentTransfers
<1>6. ASSUME NEW a \in Account, RestrictOrRelease(a) PROVE UNCHANGED Debts!vars
  <2>1. /\ accts' = [accts EXCEPT ![a].postNoDebit = ~@] /\ rows' = rows /\ account' = account /\ detail' = detail
    BY <1>6 DEF RestrictOrRelease, loans
  <2>2. accts \in [Account -> AccountRow]
    BY DEF IInv, TypeOK
  <2>3. \A c \in Account : accts'[c].bookBalance = accts[c].bookBalance /\ accts'[c].lienAmount = accts[c].lienAmount
    BY <2>1, <2>2 DEF AccountRow
  <2>4. \A c \in Account : Available(accts'[c]) = Available(accts[c])
    BY <2>3 DEF Available
  <2> QED BY <1>1, <2>1, <2>4, DebtsStay
<1>7. ASSUME NEW w \in Worker, (\E l \in Loan : TakeJob(w, l)) \/ JobStalls(w) PROVE UNCHANGED Debts!vars
  <2>1. rows' = rows /\ accts' = accts /\ account' = account /\ detail' = detail
    BY <1>7 DEF TakeJob, JobStalls, loans, books
  <2> QED BY <1>2, <2>1
<1>8. ASSUME NEW w \in Worker, LockLoan(w) \/ LoanNotOpen(w) \/ LockAccount(w) \/ AccountMissing(w) \/ CollectThrows(w)
      PROVE  UNCHANGED Debts!vars
  <2>1. rows' = rows /\ accts' = accts /\ account' = account /\ detail' = detail
    BY <1>8 DEF LockLoan, LoanNotOpen, LockAccount, AccountMissing, CollectThrows, loans, books
  <2> QED BY <1>2, <2>1
<1>9. CASE Sweep \/ SweepBreaksOff \/ NextDay
  <2>1. rows' = rows /\ accts' = accts /\ account' = account /\ detail' = detail
    BY <1>9 DEF Sweep, SweepBreaksOff, NextDay, loans, books
  <2> QED BY <1>2, <2>1
<1>10. CASE UNCHANGED vars
  <2>1. rows' = rows /\ accts' = accts /\ account' = account /\ detail' = detail
    BY <1>10 DEF vars
  <2> QED BY <1>2, <2>1
<1> QED BY <1>3, <1>4, <1>5, <1>6, <1>7, <1>8, <1>9, <1>10 DEF Next, Process

(* The collection starts where the ledger of debts does. *)
LEMMA InitRepays ==
  ASSUME Init, IInv
  PROVE  Debts!Init
<1>1. [l \in Loan |-> -account[l].book] = Principal
  <2>1. \A l \in Loan : -account[l].book = Principal[l]
    BY RepaymentAssumption DEF Init
  <2>2. Principal = [l \in Loan |-> Principal[l]]
    BY RepaymentAssumption
  <2> QED BY <2>1, <2>2
<1>2. [a \in Account |-> Available(accts[a])] = [a \in Account |-> Available(OpeningRow[a])]
  BY DEF Init
<1>3. Ended = {}
  BY DEF Init, Ended
<1>4. Yield = 0
  <2> DEFINE f == [l \in Loan |-> Collected(l, "C") + Collected(l, "I")]
  <2>1. \A l \in Loan : \A b \in Bucket : Collected(l, b) = 0
    BY NothingCollected
  <2>2. DOMAIN f = Loan /\ \A l \in Loan : f[l] = 0
    BY <2>1 DEF Bucket
  <2>3. Yield = SumFunctionOnSet(f, Loan)
    BY <2>2, Zenon DEF Yield, SumFunction
  <2> HIDE DEF f
  <2>4. IsFiniteSet(Loan)
    BY RepaymentAssumption
  <2>5. SumFunctionOnSet(f, Loan) = SumFunctionOnSet(f, {})
    BY <2>2, <2>4, SumOfPart
  <2> QED BY <2>3, <2>5, SumEmpty
<1> QED BY <1>1, <1>2, <1>3, <1>4 DEF Debts!Init, Yield, Ended

(* The collection implements the ledger of debts: a debt falls only by money that is available in the
   repayment account and that leaves it in the same step if postings are made at all (FkDeferred), and
   a loan ends only with its debt. *)
THEOREM DebtRefinement == Spec => ImplementsDebtLedger
<1>1. Init /\ IInv => Debts!Init
  BY InitRepays
<1>2. IInv /\ IInv' /\ [Next]_vars => [Debts!Next]_(Debts!vars)
  BY StepRepays
<1> QED BY <1>1, <1>2, Invariance, PTL DEF Spec, ImplementsDebtLedger, Debts!Spec
=============================================================================
