----------------------------- MODULE DebtLedger -----------------------------
(***************************************************************************)
(* What the collection of loans promises: a debt falls only by money that  *)
(* is available in the repayment account and, where postings work, leaves  *)
(* it in the same step; and the loan ends only with its debt.              *)
(***************************************************************************)
EXTENDS Integers

CONSTANTS
  Loan, Account,
  PayFrom,       \* [Loan -> Account]
  OpeningDebt,   \* [Loan -> Nat]
  OpeningFunds,  \* [Account -> Int]
  Paid,          \* does the money of a repayment leave the account?
  Portion,       \* the natural numbers a repayment may be made of
  Change         \* the integers by which others may change an account

VARIABLES
  debt,     \* [Loan -> Int]: the principal still owed
  funds,    \* [Account -> Int]: what is available for a debit
  yield,    \* interest and charges collected so far
  ended     \* the loans that are paid off

vars == <<debt, funds, yield, ended>>

Init ==
  /\ debt = OpeningDebt
  /\ funds = OpeningFunds
  /\ yield = 0
  /\ ended = {}

(* Principal p and yield y are collected from the account of loan l. *)
Repay(l) ==
  /\ l \notin ended
  /\ ended' \in {ended, ended \cup {l}}
  /\ \E p \in Portion :
       /\ debt' = [debt EXCEPT ![l] = @ - p]
       /\ \E y \in Portion :
            /\ yield' = yield + y
            /\ p + y > 0
            /\ funds[PayFrom[l]] >= p + y
            /\ funds' = IF Paid THEN [funds EXCEPT ![PayFrom[l]] = @ - (p + y)] ELSE funds
  /\ l \in ended' => debt'[l] <= 0

(* Others pay into an account, or out of it what is available. *)
Transfer(a, x) ==
  /\ x < 0 => funds[a] >= -x
  /\ funds' = [funds EXCEPT ![a] = @ + x]
  /\ UNCHANGED <<debt, yield, ended>>

Next ==
  \/ \E l \in Loan : Repay(l)
  \/ \E a \in Account, x \in Change : Transfer(a, x)

Spec == Init /\ [][Next]_vars
=============================================================================
