-------------------------- MODULE MCLoanLifecycle ---------------------------
(***************************************************************************)
(* Two loans of one customer with two savings accounts: one loan waits for *)
(* its review, the other has been approved.                                *)
(***************************************************************************)
EXTENDS LoanLifecycle, TLC

CONSTANTS p1, p2, p3, p4, n1, n2, a1, a2, gControl, gLoan, gFee, r1, r2

MCAccount == {a1, a2}
MCGl == {gControl, gLoan, gFee}
MCControlGl == [a \in MCAccount |-> gControl]
MCFeeGl == [a \in MCAccount |-> None]
MCOpeningRow ==
  [a \in MCAccount |->
     [bookBalance |-> 10, lienAmount |-> 0, status |-> "active", postNoDebit |-> FALSE,
      postNoCredit |-> FALSE, restrictionReason |-> FALSE]]
MCLoanRef == (n1 :> r1) @@ (n2 :> r2)

(* n1 carries a fixed charge; n2 five percent of its principal. *)
MCOpeningDetail ==
  LET d == [status |-> "pending", principal |-> 40, outstanding |-> 40, charge |-> 3,
            chargeType |-> "fixed", chargeTime |-> "upfront", feeGl |-> gFee,
            payTo |-> a1, payFrom |-> a1]
  IN (n1 :> d)
       @@ (n2 :> [d EXCEPT !.status = "approved", !.principal = 60, !.outstanding = 60,
                           !.charge = 500, !.chargeType = "percentage", !.payTo = None,
                           !.payFrom = a2])
MCOpeningAccount ==
  LET a == [status |-> "pending", book |-> 0, gl |-> gLoan]
  IN (n1 :> a) @@ (n2 :> [a EXCEPT !.status = "active"])

Review(kind, l) == [kind |-> kind, loan |-> l]
NoChange(l) ==
  [kind |-> "update", loan |-> l, principal |-> None, charge |-> None, chargeType |-> None,
   chargeTime |-> None, payTo |-> None, payFrom |-> None, feeGl |-> None, gl |-> None,
   renames |-> FALSE]
Disburse(l, to, feeGl) ==
  [kind |-> "disburse", loan |-> l, payTo |-> to, payFrom |-> None, feeGl |-> feeGl]

(* The decisions on n1, a change of its principal, and the payment of both loans. *)
LifecycleRequests ==
  { Review(k, n1) : k \in {"approve", "decline", "undo"} }
    \cup { [NoChange(n1) EXCEPT !.principal = 80], Disburse(n1, None, None), Disburse(n2, a1, None) }

(* Changes of n1: a charge by instalments on another ledger, a charge of a tenth of
   an odd principal, whose parts round to less than the whole, and one above the
   cap. Payments of n2 that are refused: no account, the loan's own ledger. *)
WideRequests ==
  LifecycleRequests
    \cup { Review("activate", n1), Review("undo", n2), Disburse(n2, None, None), Disburse(n2, a1, gLoan),
           [NoChange(n1) EXCEPT !.charge = 2, !.chargeTime = "installment", !.gl = gFee],
           [NoChange(n1) EXCEPT !.principal = 45, !.charge = 1000, !.chargeType = "percentage"],
           [NoChange(n1) EXCEPT !.charge = 5, !.renames = TRUE],
           [NoChange(n2) EXCEPT !.principal = 61, !.renames = TRUE] }

(* Payments that are each repaid from the account the other pays to, and an update that
   refers to both accounts. *)
Repaid(disbursement, from) == [disbursement EXCEPT !.payFrom = from]
CrossedRequests ==
  { Repaid(Disburse(n1, a1, None), a2), Repaid(Disburse(n2, a2, None), a1),
    [NoChange(n1) EXCEPT !.payTo = a2, !.payFrom = a2, !.renames = TRUE] }

AllRequests == WideRequests \cup CrossedRequests

Symmetric == Permutations({p1, p2, p3, p4})
=============================================================================
