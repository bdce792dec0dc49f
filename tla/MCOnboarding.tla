---------------------------- MODULE MCOnboarding ----------------------------
(***************************************************************************)
(* Three requests on a pool of two connections, two offices, one customer  *)
(* from before and two ledgers.                                            *)
(***************************************************************************)
EXTENDS Onboarding, TLC

CONSTANTS o1, o2, e1, e2, e3, g1, g2, g3, g4, r1

MCPrefix == o1 :> 1 @@ o2 :> 2

MCCustomers == {[by |-> First, email |-> e1, office |-> o1, status |-> "active"]}
MCLedgers == {[by |-> First, code |-> g, parent |-> None] : g \in {g1, g2}}

Customer(email, office, account, activate, codes) ==
  [kind |-> "customer", email |-> email, office |-> office, account |-> account,
   activate |-> activate, codes |-> codes]
Savings(customer, opening, cash, ref, activate) ==
  [kind |-> "savings", customer |-> customer, opening |-> opening, cash |-> cash,
   ref |-> ref, activate |-> activate, codes |-> {g1}]
Ledger(code, parent) == [kind |-> "ledger", code |-> code, parent |-> parent]

(* Customers with an account, without, with an unknown ledger; accounts with an opening
   balance that is posted, kept back, without cash ledger; accounts of a customer who is
   only being created; loans paid to an account; ledgers below each other. *)
MCRequest ==
  { Customer(e2, o1, TRUE, TRUE, {g1}), Customer(e2, o2, FALSE, FALSE, {}),
    Customer(e3, o1, TRUE, TRUE, {g1}), Customer(e3, o1, TRUE, FALSE, {g1, g3}),
    Savings(First, 10, g2, r1, TRUE), Savings(First, 10, g2, None, TRUE),
    Savings(First, 10, g2, None, FALSE), Savings(First, 10, None, None, FALSE),
    Ledger(g3, g1), Ledger(g3, None), Ledger(g4, g3) }
  \cup { Savings(c, 0, None, None, TRUE) : c \in Process \cup {First} }
  \cup { [kind |-> "loan", customer |-> First, linked |-> l, codes |-> {g1, g2}] :
           l \in {{}} \cup {{p} : p \in Process} }

Symmetry == Permutations(Process)
=============================================================================
