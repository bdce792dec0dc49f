--------------------------- MODULE MCCoreBanking ----------------------------
(***************************************************************************)
(* One tenant with two savings accounts and a loan account behind one      *)
(* control ledger, a fee ledger, and the requests the runs send to them.   *)
(***************************************************************************)
EXTENDS CoreBanking, TLC

CONSTANTS p1, p2, p3, a1, a2, aLoan, aGone, gControl, gFee, l0, l1, l2, r1, r2, r3

MCAccount == {a1, a2, aLoan, aGone}
MCGl == {gControl, gFee}
MCKnown == {a1, a2, aLoan, gControl, gFee}
MCControlGl == [a \in MCAccount |-> gControl]
MCFeeGl == [a \in MCAccount |-> IF a = a1 THEN gFee ELSE None]
MCLoanAccount == {aLoan}
MCDirectGls == {gFee}
MCLien == {l0, l1, l2}
MCLienAccount == (l0 :> a1) @@ (l1 :> a1) @@ (l2 :> a2)
MCLienAmount == (l0 :> 1) @@ (l1 :> 2) @@ (l2 :> -1)
MCLienRef == (l0 :> r3) @@ (l1 :> r1) @@ (l2 :> r1)
MCLienExpires == {l0, l1}
MCRef == {r1, r2, r3}

BasicRow(book) ==
  [bookBalance |-> book, lienAmount |-> 0, status |-> "active", postNoDebit |-> FALSE,
   postNoCredit |-> FALSE, restrictionReason |-> FALSE]
MCOpeningRow ==
  (a1 :> [BasicRow(4) EXCEPT !.lienAmount = 1]) @@ (a2 :> BasicRow(1))
    @@ (aLoan :> BasicRow(2)) @@ (aGone :> BasicRow(0))
MCOpeningLiens == {l0}

Transfer(a, b, n, fee, ref) ==
  [kind |-> "accountToAccount", sender |-> a, receiver |-> b, amount |-> n, fee |-> fee,
   reference |-> ref]
WithGl(kind, a, g, n, ref) ==
  [kind |-> kind, account |-> a, gl |-> g, amount |-> n, reference |-> ref]
Direct(ref, debits, credits) ==
  [kind |-> "ledger",
   payload |-> [referenceNumber |-> ref, operationType |-> "none", customerAccounts |-> NoLegs,
                debits |-> debits, credits |-> credits, fee |-> None, feeGl |-> None]]
OnLien(kind, l) == [kind |-> kind, lien |-> l]
OnAccount(kind, a) == [kind |-> kind, account |-> a]

(* Both directions between a1 and a2, one of them with a fee and a reference that
   other requests reuse; postings that validation (a fee of nothing among it),
   locks, ledgers or the unique reference reject; every operation on the liens and every restriction. *)
MoneyRequests ==
  { Transfer(a1, a2, 2, 1, r1), Transfer(a2, a1, 2, 0, r2), Transfer(a1, aGone, 1, 0, r2),
    WithGl("accountToGl", a1, gFee, 2, r1), WithGl("glToAccount", a2, gFee, 1, r3),
    Direct(r3, (a1 :> 1) @@ (a2 :> 1), gFee :> 2) }
FeeOfNothing == [Direct(r2, a1 :> 1, a2 :> 1) EXCEPT !.payload.fee = 0, !.payload.feeGl = gFee]
RejectedRequests ==
  { Transfer(aLoan, a1, 1, 0, r2), WithGl("glToAccount", a2, gControl, 1, r2),
    Direct(r2, a1 :> 1, gControl :> 1),
    Direct(r2, (a1 :> 1) @@ (a2 :> 1), (aLoan :> 1) @@ (gFee :> 1)),
    FeeOfNothing }
LienRequests ==
  { OnLien("placeLien", l1), OnLien("placeLien", l2), OnLien("releaseLien", l0),
    OnLien("expireLien", l0), OnLien("releaseLien", l1), OnLien("expireLien", l1),
    OnLien("releaseLien", l2) }
AccountRequests ==
  { OnAccount("blockDebit", a1), OnAccount("unblockDebit", a1), OnAccount("blockCredit", a1),
    OnAccount("unblockCredit", a1), OnAccount("activate", a2) }

CoreRequests ==
  MoneyRequests \cup LienRequests \cup {FeeOfNothing, OnAccount("blockDebit", a1)}
WideRequests == MoneyRequests \cup RejectedRequests \cup LienRequests \cup AccountRequests
=============================================================================
