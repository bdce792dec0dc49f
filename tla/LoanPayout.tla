----------------------------- MODULE LoanPayout -----------------------------
(***************************************************************************)
(* What a disbursement promises: a loan is paid out once, by terms it has  *)
(* been approved under.  In one step the loan is owed, its customer's      *)
(* account has grown by what those terms leave of it, and the lender has   *)
(* earned the rest.                                                        *)
(***************************************************************************)
EXTENDS Integers

CONSTANTS
  Loan, Account,
  Net,              \* what terms leave to the customer, in whole minor units
  OpeningApproved,  \* [Loan -> the set of terms it is approved under at first]
  OpeningBook       \* [Account -> Int]

VARIABLES
  approved,  \* [Loan -> the terms it has ever been approved under]
  paid,      \* [Loan -> the terms it has been paid out by]
  owed,      \* [Loan -> Int]
  book,      \* [Account -> Int]
  earned     \* the fees that were kept back

vars == <<approved, paid, owed, book, earned>>

Init ==
  /\ approved = OpeningApproved
  /\ paid = [l \in Loan |-> {}]
  /\ owed = [l \in Loan |-> 0]
  /\ book = OpeningBook
  /\ earned = 0

(* A review of loan l. It may be late: a loan that is paid can be approved again. *)
Approve(l) ==
  /\ \E t \in approved'[l] : approved' = [approved EXCEPT ![l] = @ \cup {t}]
  /\ UNCHANGED <<paid, owed, book, earned>>

PayOut(l, a) ==
  /\ paid[l] = {}
  /\ \E t \in approved[l] :
       /\ Net[t] > 0
       /\ paid' = [paid EXCEPT ![l] = {t}]
       /\ owed' = [owed EXCEPT ![l] = t.principal]
       /\ book' = [book EXCEPT ![a] = @ + Net[t]]
       /\ earned' = earned + (t.principal - Net[t])
  /\ UNCHANGED approved

Next ==
  \/ \E l \in Loan : Approve(l)
  \/ \E l \in Loan, a \in Account : PayOut(l, a)

Spec == Init /\ [][Next]_vars
=============================================================================
