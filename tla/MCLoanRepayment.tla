-------------------------- MODULE MCLoanRepayment ---------------------------
(***************************************************************************)
(* Two loans that are repaid from one savings account, part of which is    *)
(* held by a lien; and a second instance for the jobs that cannot succeed. *)
(***************************************************************************)
EXTENDS LoanRepayment, TLC

CONSTANTS w1, w2, n1, n2, a1, a2, gControl, gLoan, gIncome, gClosed

MCAccount == {a1}
MCGl == {gControl, gLoan, gIncome}
MCControlGl == [a \in MCAccount |-> gControl]
MCFeeGl == [a \in MCAccount |-> None]
SavingsRow(book, lien) ==
  [bookBalance |-> book, lienAmount |-> lien, status |-> "active", postNoDebit |-> FALSE,
   postNoCredit |-> FALSE, restrictionReason |-> FALSE]
MCOpeningRow == a1 :> SavingsRow(5, 1)

Instalments(p, i, total, d) ==
  [amount |-> [b \in Bucket |-> IF b = "P" THEN p ELSE IF b = "I" THEN i ELSE 0],
   total |-> total, day |-> d]

(* n1 is repaid in two instalments; the parts of n2's only one are rounded up. *)
MCInstalment ==
  (n1 :> <<Instalments(2, 1, 3, 0), Instalments(1, 1, 2, 1)>>) @@ (n2 :> <<Instalments(2, 2, 3, 0)>>)
MCPrincipal == (n1 :> 3) @@ (n2 :> 2)
MCStrategy == (n1 :> <<"C", "I", "P">>) @@ (n2 :> <<"P", "C", "I">>)
MCPayFrom == [l \in {n1, n2} |-> a1]
MCLoanGl == [l \in {n1, n2} |-> gLoan]
MCIncomeGl == [l \in {n1, n2} |-> gIncome]
MCLoanFeeGl == [l \in {n1, n2} |-> None]
MCChange == {4, -2}

-----------------------------------------------------------------------------
(* The second instance: a1 has too little at first, the interest of n1 can not be
   posted, and n2's account is not to be found. *)
DueAccount == {a1, a2}
DueGl == {gControl, gLoan, gClosed}
DueControlGl == [a \in DueAccount |-> gControl]
DueFeeGl == [a \in DueAccount |-> None]
DueOpeningRow == [a \in DueAccount |-> SavingsRow(2, 1)]
DueInstalment ==
  (n1 :> <<Instalments(2, 0, 2, 0), Instalments(0, 1, 1, 1)>>) @@ (n2 :> <<Instalments(1, 0, 1, 0)>>)
DuePrincipal == (n1 :> 2) @@ (n2 :> 1)
DueStrategy == [l \in {n1, n2} |-> <<"P", "C", "I">>]
DuePayFrom == (n1 :> a1) @@ (n2 :> a2)
DueLoanGl == [l \in {n1, n2} |-> gLoan]
DueIncomeGl == [l \in {n1, n2} |-> gClosed]
DueLoanFeeGl == [l \in {n1, n2} |-> None]
DueChange == {2}

=============================================================================
