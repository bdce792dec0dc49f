---------------------------- MODULE MCLienExpiry ----------------------------
(***************************************************************************)
(* Liens on one account, two of them under one reference, some expiring.   *)
(***************************************************************************)
EXTENDS LienExpiry, TLC

CONSTANTS a1, l0, l1, l2, r1, r2

MCLienAccount == [l \in Lien |-> a1]
MCLienAmount == [l \in Lien |-> IF l = l0 THEN 2 ELSE 1]
MCLienRef == [l \in Lien |-> IF l = l0 THEN r1 ELSE r2]
MCOpeningBook == [a \in Account |-> 3]
NothingHeld == [a \in Account |-> 0]
=============================================================================
