----------------------------- MODULE AtomicBank -----------------------------
(***************************************************************************)
(* What the posting engine and the lien service promise their callers,     *)
(* with no database underneath: a posting moves all its balances and       *)
(* writes its journal in one step, only against funds that are available   *)
(* in that same step and never twice under one reference; a lien takes     *)
(* available funds out of reach when placed and gives them back once.      *)
(***************************************************************************)
EXTENDS Integers

CONSTANTS
  Account, Lien, LienAccount, LienAmount, LienRef,
  Posting,     \* [change : [Account -> Int], refs : a set, journal : a record]
  JournalId,
  OpeningBook, OpeningHold, OpeningLiens

VARIABLES
  book,          \* [Account -> Int]
  hold,          \* [Account -> Int]
  liens,         \* [Lien -> {"none", "active", "released", "voided"}]
  journals,      \* the journals posted, each under its own id
  transactions   \* the transaction references in use

vars == <<book, hold, liens, journals, transactions>>

Init ==
  /\ book = OpeningBook
  /\ hold = OpeningHold
  /\ liens = [l \in Lien |-> IF l \in OpeningLiens THEN "active" ELSE "none"]
  /\ journals = {}
  /\ transactions = {}

Post(t, id) ==
  /\ \A j \in journals : j.id # id
  /\ t.refs \cap transactions = {}
  /\ \A a \in Account : t.change[a] < 0 => book[a] - hold[a] >= -t.change[a]
  /\ book' = [a \in Account |-> book[a] + t.change[a]]
  /\ journals' = journals \cup {[id |-> id, entry |-> t.journal]}
  /\ transactions' = transactions \cup t.refs
  /\ UNCHANGED <<hold, liens>>

Place(l) ==
  /\ liens[l] = "none"
  /\ \A k \in Lien : LienRef[k] = LienRef[l] => liens[k] = "none"
  /\ book[LienAccount[l]] - hold[LienAccount[l]] >= LienAmount[l]
  /\ hold' = [hold EXCEPT ![LienAccount[l]] = @ + LienAmount[l]]
  /\ liens' = [liens EXCEPT ![l] = "active"]
  /\ UNCHANGED <<book, journals, transactions>>

Lift(l, status) ==
  /\ liens[l] = "active"
  /\ hold' = [hold EXCEPT ![LienAccount[l]] = @ - LienAmount[l]]
  /\ liens' = [liens EXCEPT ![l] = status]
  /\ UNCHANGED <<book, journals, transactions>>

Next ==
  \/ \E t \in Posting, id \in JournalId : Post(t, id)
  \/ \E l \in Lien : Place(l)
  \/ \E l \in Lien, status \in {"released", "voided"} : Lift(l, status)

Spec == Init /\ [][Next]_vars
=============================================================================
