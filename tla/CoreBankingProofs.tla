------------------------- MODULE CoreBankingProofs --------------------------
(***************************************************************************)
(* Proofs about CoreBanking, for any accounts, ledgers, liens, requests and *)
(* number of processes.                                                     *)
(***************************************************************************)
EXTENDS CoreBanking, SumTheorems, TLAPS

-----------------------------------------------------------------------------
(* The inductive invariant.                                                  *)

(* What a process in the middle of a request has behind it. *)
Prepared ==
  \A p \in Proc :
    /\ pc[p] \in {"lock", "commit", "update"} => job[p] \in Request
    /\ pc[p] \in {"lock", "commit"} =>
         \/ job[p].kind \in PostingKinds /\ Accepted(PayloadOf(job[p]))
         \/ job[p].kind \in LienKinds
    /\ pc[p] = "update" => job[p].kind \in UpdateKinds /\ job[p].account \in Known
    /\ pc[p] = "lock" /\ want[p] \in Lien =>
         job[p].kind \in LiftKinds /\ want[p] = job[p].lien
    /\ pc[p] = "lock" => want[p] \in Row
    /\ /\ pc[p] = "commit" \/ (pc[p] = "lock" /\ want[p] \in Account)
       /\ job[p].kind \in LiftKinds
       => target[p] \in {"released", "voided"}

IInv == TypeOK /\ Prepared /\ LocksHeld /\ SnapshotsCurrent
-----------------------------------------------------------------------------
(* Lemmas about payloads and rows.                                           *)

(* A posting request turns into a well-typed payload. *)
LEMMA PayloadType ==
  ASSUME NEW r \in Request, r.kind \in PostingKinds
  PROVE  IsPayload(PayloadOf(r))
  BY RequestAssumption DEF PostingKinds, LienKinds, LiftKinds, UpdateKinds

(* Every request names accounts and liens that exist as parameters. *)
LEMMA AccountsType ==
  ASSUME NEW r \in Request, r.kind \in PostingKinds \cup LienKinds
  PROVE  AccountsOf(r) \subseteq Account \cap Known
<1>1. CASE r.kind \in PostingKinds
  BY <1>1 DEF AccountsOf, Parties, DebitAccounts, CreditAccounts
<1>2. CASE r.kind \notin PostingKinds
  <2>1. r.lien \in Lien
    BY <1>2, RequestAssumption DEF LienKinds, LiftKinds, UpdateKinds
  <2> QED BY <1>2, <2>1, LienAssumption DEF AccountsOf
<1> QED BY <1>1, <1>2

(* A lien request names a lien. *)
LEMMA LienType ==
  ASSUME NEW r \in Request, r.kind \in LienKinds
  PROVE  r.lien \in Lien
  BY RequestAssumption DEF LienKinds, LiftKinds, PostingKinds, UpdateKinds

(* A restriction or an activation names an account. *)
LEMMA UpdateType ==
  ASSUME NEW r \in Request, r.kind \in UpdateKinds
  PROVE  r.account \in Account
  BY RequestAssumption DEF LienKinds, LiftKinds, PostingKinds, UpdateKinds

(* The amount of a leg is a positive integer once the payload was accepted. *)
LEMMA AmountType ==
  ASSUME NEW pl, IsPayload(pl), NEW a \in Parties(pl)
  PROVE  /\ AmountOf(pl, a) \in Int
         /\ Accepted(pl) => AmountOf(pl, a) > 0
<1>1. CASE a \in DOMAIN pl.customerAccounts
  BY <1>1 DEF AmountOf, IsPayload, IsLegs, Accepted, PositiveAmounts
<1>2. CASE a \notin DOMAIN pl.customerAccounts /\ a \in DOMAIN pl.debits
  BY <1>2 DEF AmountOf, IsPayload, IsLegs, Accepted, PositiveAmounts
<1>3. CASE a \notin DOMAIN pl.customerAccounts /\ a \notin DOMAIN pl.debits
  <2>1. a \in DOMAIN pl.credits
    BY <1>3 DEF Parties, DebitAccounts, CreditAccounts, DebitIds, CreditIds, CustomerSide
  <2> QED BY <1>3, <2>1 DEF AmountOf, IsPayload, IsLegs, Accepted, PositiveAmounts
<1> QED BY <1>1, <1>2, <1>3

(* What a fee takes is a number, also where no fee is given. *)
LEMMA FeeType ==
  ASSUME NEW pl, IsPayload(pl)
  PROVE  FeeAmount(pl) \in Int
  BY DEF IsPayload, FeeAmount, HasFee

(* What a posting writes is an integer, covers the liens on the row it was
   computed from, and differs from the old balance by the effect of the legs. *)
LEMMA NewBalance ==
  ASSUME NEW pl, IsPayload(pl), NEW a \in Parties(pl), NEW row \in AccountRow
  PROVE  /\ NewBookBalance(pl, a, row) \in Int
         /\ \A lent \in Int :
              /\ Accepted(pl) /\ lent <= 0 /\ row.lienAmount + lent <= row.bookBalance
              /\ a \in DebitAccounts(pl) => Available(row) >= TotalDebit(pl, a)
              => row.lienAmount + lent <= NewBookBalance(pl, a, row)
<1>1. AmountOf(pl, a) \in Int /\ (Accepted(pl) => AmountOf(pl, a) > 0)
  BY AmountType
<1>2. FeeAmount(pl) \in Int
  BY FeeType
<1>3. row.bookBalance \in Int /\ row.lienAmount \in Int
  BY DEF AccountRow
<1> QED BY <1>1, <1>2, <1>3 DEF NewBookBalance, TotalDebit, Available

(* A posted or lien-adjusted or restricted row is a row. *)
LEMMA RowType ==
  ASSUME NEW row \in AccountRow
  PROVE  /\ \A b \in Int : [row EXCEPT !.bookBalance = b] \in AccountRow
         /\ \A b \in Int : [row EXCEPT !.lienAmount = b] \in AccountRow
         /\ \A r \in Request, seen \in AccountRow :
              r.kind \in UpdateKinds => Updated(r, row, seen) \in AccountRow
<1>1. \A r \in Request, seen \in AccountRow :
        r.kind \in UpdateKinds => Updated(r, row, seen) \in AccountRow
  <2> SUFFICES ASSUME NEW r \in Request, NEW seen \in AccountRow, r.kind \in UpdateKinds
               PROVE  Updated(r, row, seen) \in AccountRow
    OBVIOUS
  <2>1. /\ row = [bookBalance |-> row.bookBalance, lienAmount |-> row.lienAmount, status |-> row.status,
                  postNoDebit |-> row.postNoDebit, postNoCredit |-> row.postNoCredit,
                  restrictionReason |-> row.restrictionReason]
        /\ row.bookBalance \in Int /\ row.lienAmount \in Int /\ row.status \in AccountStatus
        /\ row.postNoDebit \in BOOLEAN /\ row.postNoCredit \in BOOLEAN /\ row.restrictionReason \in BOOLEAN
    BY DEF AccountRow
  <2>2. \A b \in BOOLEAN, c \in BOOLEAN :
          /\ [row EXCEPT !.postNoDebit = b, !.restrictionReason = c] \in AccountRow
          /\ [row EXCEPT !.postNoCredit = b, !.restrictionReason = c] \in AccountRow
    BY <2>1 DEF AccountRow
  <2>3. [row EXCEPT !.status = "active"] \in AccountRow
    BY <2>1 DEF AccountRow, AccountStatus
  <2>4. CASE r.kind = "blockDebit"
    BY <2>2, <2>4 DEF Updated
  <2>5. CASE r.kind = "unblockDebit"
    <3>1. (IF seen.postNoCredit THEN row.restrictionReason ELSE FALSE) \in BOOLEAN
      BY <2>1
    <3> QED BY <2>2, <2>5, <3>1 DEF Updated
  <2>6. CASE r.kind = "blockCredit"
    BY <2>2, <2>6 DEF Updated
  <2>7. CASE r.kind = "unblockCredit"
    <3>1. (IF seen.postNoDebit THEN row.restrictionReason ELSE FALSE) \in BOOLEAN
      BY <2>1
    <3> QED BY <2>2, <2>7, <3>1 DEF Updated
  <2>8. CASE r.kind = "activate"
    BY <2>3, <2>8 DEF Updated
  <2> QED BY <2>4, <2>5, <2>6, <2>7, <2>8 DEF UpdateKinds
<1> QED BY <1>1 DEF AccountRow
-----------------------------------------------------------------------------
(* Lemmas about the steps a process takes.                                   *)

(* AskFor leaves one process waiting for one of the rows, or ready to write. *)
LEMMA AskForEffect ==
  ASSUME ProcTypeOK, NEW p \in Proc, NEW rows \in SUBSET Row, AskFor(p, rows)
  PROVE  /\ pc' \in [Proc -> Step] /\ want' \in [Proc -> Row \cup {None}]
         /\ \/ pc'[p] = "lock" /\ want'[p] \in rows
            \/ pc'[p] = "commit" /\ want'[p] = None /\ rows = {}
         /\ \A q \in Proc \ {p} : pc'[q] = pc[q] /\ want'[q] = want[q]
  BY DEF AskFor, Goto, ProcTypeOK, Step

(* Finish ends one process, frees its rows and leaves the others as they are. *)
LEMMA FinishEffect ==
  ASSUME ProcTypeOK, NEW p \in Proc, NEW answer \in Answer, Finish(p, answer)
  PROVE  /\ ProcTypeOK'
         /\ pc'[p] = "done"
         /\ \A r \in Row : owner'[r] = IF owner[r] = p THEN None ELSE owner[r]
         /\ \A q \in Proc \ {p} :
              /\ pc'[q] = pc[q] /\ job'[q] = job[q] /\ want'[q] = want[q]
              /\ snap'[q] = snap[q] /\ target'[q] = target[q] /\ res'[q] = res[q]
  BY OpeningAssumption DEF Finish, Goto, ProcTypeOK, Step, LienStatus

(* What the other processes have established survives the end of one. *)
LEMMA FinishKeepsPrepared ==
  ASSUME TypeOK, Prepared, NEW p \in Proc, NEW answer \in Answer, Finish(p, answer)
  PROVE  Prepared'
  BY FinishEffect DEF Prepared, TypeOK

(* The locks of the others stay, provided nobody else's lien was settled. *)
LEMMA FinishKeepsLocks ==
  ASSUME TypeOK, Prepared, LocksHeld,
         NEW p \in Proc, NEW answer \in Answer, Finish(p, answer),
         \A l \in Lien : owner[l] # p => liens'[l] = liens[l] \/ liens[l] # "active"
  PROVE  LocksHeld'
<1>1. /\ pc'[p] = "done"
      /\ \A r \in Row : owner'[r] = IF owner[r] = p THEN None ELSE owner[r]
      /\ \A q \in Proc \ {p} : pc'[q] = pc[q] /\ job'[q] = job[q] /\ want'[q] = want[q]
  BY FinishEffect DEF TypeOK
<1>2. p # None /\ \A q \in Proc : q # None
  BY OpeningAssumption
<1>3. ASSUME NEW q \in Proc, q # p
      PROVE  /\ pc'[q] = "commit" => \A a \in AccountsOf(job'[q]) : owner'[a] = q
             /\ /\ pc'[q] = "commit" \/ (pc'[q] = "lock" /\ want'[q] \in Account)
                /\ job'[q].kind \in LiftKinds
                => owner'[job'[q].lien] = q /\ liens'[job'[q].lien] = "active"
  <2>1. CASE pc[q] = "commit" \/ pc[q] = "lock"
    <3>1. job[q] \in Request /\ job[q].kind \in PostingKinds \cup LienKinds
      BY <2>1 DEF Prepared
    <3>2. AccountsOf(job[q]) \subseteq Row
      BY <3>1, AccountsType DEF Row
    <3>3. job[q].kind \in LiftKinds => job[q].lien \in Lien
      BY <3>1, LienType DEF LienKinds
    <3> QED BY <1>1, <1>3, <2>1, <3>2, <3>3 DEF LocksHeld, LienIsActive, Row
  <2>2. CASE pc[q] # "commit" /\ pc[q] # "lock"
    BY <1>1, <1>3, <2>2
  <2> QED BY <2>1, <2>2
<1>4. \A q \in Proc : pc'[q] \notin {"lock", "commit"} => Holds(q)' = {}
  BY <1>1, <1>2 DEF LocksHeld, Holds
<1> QED BY <1>1, <1>3, <1>4 DEF LocksHeld, LienIsActive

(* The rows the others have read stay current, provided nobody else's were written. *)
LEMMA FinishKeepsSnapshots ==
  ASSUME TypeOK, SnapshotsCurrent, NEW p \in Proc, NEW answer \in Answer, Finish(p, answer),
         \A a \in Account : owner[a] # p /\ owner[a] # None => accts'[a] = accts[a]
  PROVE  SnapshotsCurrent'
<1>1. /\ pc'[p] = "done"
      /\ \A r \in Row : owner'[r] = IF owner[r] = p THEN None ELSE owner[r]
      /\ \A q \in Proc \ {p} : pc'[q] = pc[q] /\ snap'[q] = snap[q]
  BY FinishEffect DEF TypeOK
<1>2. None \notin Proc
  BY OpeningAssumption
<1> QED BY <1>1, <1>2 DEF SnapshotsCurrent, Row
-----------------------------------------------------------------------------
(* Every step keeps the invariant.                                           *)

(* The first state satisfies the invariant: nothing is locked or read yet. *)
LEMMA InitIInv == Init => IInv
<1> SUFFICES ASSUME Init PROVE IInv
  OBVIOUS
<1> USE OpeningAssumption DEF Init
<1>1. TypeOK
  BY DEF TypeOK, DataTypeOK, ProcTypeOK, Row, Step, Answer, LienStatus
<1>2. Prepared /\ SnapshotsCurrent
  BY DEF Prepared, SnapshotsCurrent
<1>3. LocksHeld
  BY DEF LocksHeld, Holds
<1> QED BY <1>1, <1>2, <1>3 DEF IInv

(* A request answered without a transaction. *)
LEMMA RefuseKeeps ==
  ASSUME IInv, NEW p \in Proc, Refuse(p)
  PROVE  IInv'
<1> USE DEF IInv, Refuse, Goto, data
<1>1. TypeOK'
  BY DEF TypeOK, DataTypeOK, ProcTypeOK, Step, Answer
<1>2. Prepared'
  BY DEF Prepared, TypeOK, ProcTypeOK
<1>3. LocksHeld'
  BY DEF LocksHeld, TypeOK, ProcTypeOK, Holds, LienIsActive
<1>4. SnapshotsCurrent'
  BY DEF SnapshotsCurrent, TypeOK, ProcTypeOK
<1> QED BY <1>1, <1>2, <1>3, <1>4

(* A request that opens a transaction and asks for its first row. *)
LEMMA OpenKeeps ==
  ASSUME IInv, NEW p \in Proc, NEW r \in Request, NEW rows \in SUBSET Row,
         Serve(p, r), AskFor(p, rows),
         UNCHANGED <<data, expired, owner, snap, target, res>>,
         \/ r.kind \in PostingKinds /\ Accepted(PayloadOf(r)) /\ rows = AccountsOf(r)
         \/ r.kind = "placeLien" /\ rows = AccountsOf(r)
         \/ r.kind \in LiftKinds /\ rows = {r.lien}
  PROVE  IInv'
<1> USE DEF IInv, data
<1>1. /\ pc' \in [Proc -> Step] /\ want' \in [Proc -> Row \cup {None}]
      /\ \/ pc'[p] = "lock" /\ want'[p] \in rows
         \/ pc'[p] = "commit" /\ want'[p] = None /\ rows = {}
      /\ \A q \in Proc \ {p} : pc'[q] = pc[q] /\ want'[q] = want[q]
  BY AskForEffect DEF TypeOK
<1>2. /\ job' \in [Proc -> Request \cup {None}]
      /\ job'[p] = r /\ pc[p] = "idle"
      /\ \A q \in Proc \ {p} : job'[q] = job[q]
  BY DEF Serve, TypeOK, ProcTypeOK
<1>3. \/ r.kind \in PostingKinds \cup {"placeLien"} /\ r.kind \notin LiftKinds
         /\ rows = AccountsOf(r) /\ rows \cap Lien = {}
      \/ r.kind \in LiftKinds /\ rows = {r.lien} /\ rows \cap Account = {}
  <2>1. CASE r.kind \in PostingKinds \cup {"placeLien"} /\ rows = AccountsOf(r)
    BY <2>1, AccountsType, LienAssumption DEF LienKinds, LiftKinds, PostingKinds
  <2>2. CASE r.kind \in LiftKinds /\ rows = {r.lien}
    BY <2>2, LienType, LienAssumption DEF LienKinds
  <2> QED BY <2>1, <2>2
<1>4. TypeOK'
  BY <1>1, <1>2 DEF TypeOK, DataTypeOK, ProcTypeOK
<1>5. Prepared'
  BY <1>1, <1>2, <1>3 DEF Prepared, LienKinds
<1>6. LocksHeld'
  <2>1. \A q \in Proc : Holds(q)' = Holds(q)
    BY DEF Holds
  <2> QED BY <1>1, <1>2, <1>3, <2>1 DEF LocksHeld, LienIsActive
<1>7. SnapshotsCurrent'
  <2>1. \A a \in Account : owner[a] # p
    BY <1>2 DEF LocksHeld, Holds, Row
  <2> QED BY <1>1, <2>1 DEF SnapshotsCurrent
<1> QED BY <1>4, <1>5, <1>6, <1>7

(* A restriction or activation that has read its account. *)
LEMMA StartUpdateKeeps ==
  ASSUME IInv, NEW p \in Proc, NEW r \in Request, StartUpdate(p, r)
  PROVE  IInv'
<1> USE DEF IInv, StartUpdate, Goto, Serve, data
<1>0. r.account \in Account
  BY UpdateType
<1>1. TypeOK'
  BY <1>0 DEF TypeOK, DataTypeOK, ProcTypeOK, Step
<1>2. Prepared'
  BY DEF Prepared, TypeOK, ProcTypeOK
<1>3. LocksHeld'
  BY DEF LocksHeld, TypeOK, ProcTypeOK, Holds, LienIsActive
<1>4. SnapshotsCurrent'
  BY <1>0 DEF SnapshotsCurrent, TypeOK, ProcTypeOK
<1> QED BY <1>1, <1>2, <1>3, <1>4

(* The clock. *)
LEMMA ExpiryKeeps ==
  ASSUME IInv, NEW l \in Lien, ExpiryPasses(l)
  PROVE  IInv'
<1> USE DEF IInv, ExpiryPasses, data
<1>1. TypeOK'
  BY DEF TypeOK, DataTypeOK, ProcTypeOK, DueLiens
<1>2. Prepared' /\ LocksHeld' /\ SnapshotsCurrent'
  BY DEF Prepared, LocksHeld, SnapshotsCurrent, LienIsActive, Holds
<1> QED BY <1>1, <1>2

(* A transaction that ends without having changed anything. *)
LEMMA QuietFinishKeeps ==
  ASSUME IInv, NEW p \in Proc, NEW answer \in Answer, Finish(p, answer),
         UNCHANGED <<data, expired>>
  PROVE  IInv'
<1> USE DEF IInv, data
<1>1. TypeOK'
  BY FinishEffect DEF TypeOK, DataTypeOK
<1>2. Prepared'
  BY FinishKeepsPrepared
<1>3. LocksHeld'
  BY FinishKeepsLocks
<1>4. SnapshotsCurrent'
  BY FinishKeepsSnapshots
<1> QED BY <1>1, <1>2, <1>3, <1>4

(* A lock granted on an account row, and the row read under it. *)
LEMMA LockAccountKeeps ==
  ASSUME IInv, NEW p \in Proc, LockAccount(p)
  PROVE  IInv'
<1> USE DEF IInv, data
<1> DEFINE a == want[p]
           rest == AccountsOf(job[p]) \ (Holds(p) \cup {a})
<1>0. /\ pc[p] = "lock" /\ a \in Account /\ owner[a] = None
      /\ owner' = [owner EXCEPT ![a] = p]
      /\ snap' = [snap EXCEPT ![p][a] = accts[a]]
      /\ AskFor(p, rest)
      /\ UNCHANGED <<data, expired, job, target, res>>
  BY DEF LockAccount, Free
<1>1. /\ job[p] \in Request
      /\ \/ job[p].kind \in PostingKinds /\ Accepted(PayloadOf(job[p]))
         \/ job[p].kind \in LienKinds
  BY <1>0 DEF Prepared
<1>2. AccountsOf(job[p]) \subseteq Account /\ rest \in SUBSET Row
  BY <1>1, AccountsType DEF Row
<1>3. /\ pc' \in [Proc -> Step] /\ want' \in [Proc -> Row \cup {None}]
      /\ \/ pc'[p] = "lock" /\ want'[p] \in rest
         \/ pc'[p] = "commit" /\ want'[p] = None /\ rest = {}
      /\ \A q \in Proc \ {p} : pc'[q] = pc[q] /\ want'[q] = want[q]
  BY <1>0, <1>2, AskForEffect DEF TypeOK
<1>4. p # None /\ Lien \cap Account = {}
  BY OpeningAssumption, LienAssumption
<1>5. \A q \in Proc : job'[q] = job[q]
  BY <1>0
<1>6. \A r \in Row : owner'[r] = IF r = a THEN p ELSE owner[r]
  BY <1>0 DEF TypeOK, ProcTypeOK, Row
<1>7. TypeOK'
  BY <1>0, <1>3 DEF TypeOK, DataTypeOK, ProcTypeOK, Row
<1>8. Prepared'
  BY <1>0, <1>1, <1>2, <1>3, <1>4, <1>5 DEF Prepared
<1>9. LocksHeld'
  <2>1. rest = {} => \A b \in AccountsOf(job[p]) : owner'[b] = p
    BY <1>2, <1>6 DEF Holds, Row
  <2>2. job[p].kind \in LiftKinds => owner'[job[p].lien] = p /\ LienIsActive(job[p].lien)
    <3> SUFFICES ASSUME job[p].kind \in LiftKinds
                 PROVE  owner'[job[p].lien] = p /\ LienIsActive(job[p].lien)
      OBVIOUS
    <3>1. job[p].lien \in Lien
      BY <1>1, LienType DEF LienKinds
    <3> QED BY <1>0, <1>4, <1>6, <3>1 DEF LocksHeld, Row
  <2>3. \A q \in Proc \ {p} : \A r \in Row : owner[r] = q => owner'[r] = q
    BY <1>0, <1>6, OpeningAssumption
  <2>4. \A q \in Proc \ {p} : pc[q] \in {"lock", "commit"} =>
          /\ AccountsOf(job[q]) \subseteq Row
          /\ job[q].kind \in LiftKinds => job[q].lien \in Row
    BY AccountsType, LienType DEF Prepared, Row, LienKinds
  <2>5. \A q \in Proc : pc'[q] \notin {"lock", "commit"} => Holds(q)' = {}
    BY <1>0, <1>3, <1>6 DEF LocksHeld, Holds
  <2> QED BY <1>0, <1>3, <1>5, <2>1, <2>2, <2>3, <2>4, <2>5 DEF LocksHeld, LienIsActive
<1>10. SnapshotsCurrent'
  <2>1. \A q \in Proc, b \in Account :
          snap'[q][b] = IF q = p /\ b = a THEN accts[b] ELSE snap[q][b]
    BY <1>0 DEF TypeOK, ProcTypeOK
  <2> QED BY <1>0, <1>3, <1>6, <2>1 DEF SnapshotsCurrent, Row
<1> QED BY <1>7, <1>8, <1>9, <1>10

(* A lock granted on a lien that is still active. *)
LEMMA LockLienKeeps ==
  ASSUME IInv, NEW p \in Proc, LockLien(p)
  PROVE  IInv'
<1> USE DEF IInv, data
<1> DEFINE l == want[p]
           rest == AccountsOf(job[p])
<1>0. /\ pc[p] = "lock" /\ l \in Lien /\ owner[l] = None /\ LienIsActive(l)
      /\ owner' = [owner EXCEPT ![l] = p]
      /\ target' \in [Proc -> LienStatus] /\ target'[p] \in {"released", "voided"}
      /\ \A q \in Proc \ {p} : target'[q] = target[q]
      /\ AskFor(p, rest)
      /\ UNCHANGED <<data, expired, job, snap, res>>
  BY DEF LockLien, Free, TypeOK, ProcTypeOK, LienStatus
<1>1. job[p] \in Request /\ job[p].kind \in LiftKinds /\ l = job[p].lien
  BY <1>0 DEF Prepared
<1>2. rest \subseteq Account /\ rest \in SUBSET Row
  BY <1>1, AccountsType DEF Row, LienKinds
<1>3. /\ pc' \in [Proc -> Step] /\ want' \in [Proc -> Row \cup {None}]
      /\ \/ pc'[p] = "lock" /\ want'[p] \in rest
         \/ pc'[p] = "commit" /\ want'[p] = None /\ rest = {}
      /\ \A q \in Proc \ {p} : pc'[q] = pc[q] /\ want'[q] = want[q]
  BY <1>0, <1>2, AskForEffect DEF TypeOK
<1>4. Lien \cap Account = {}
  BY LienAssumption
<1>5. \A r \in Row : owner'[r] = IF r = l THEN p ELSE owner[r]
  BY <1>0 DEF TypeOK, ProcTypeOK, Row
<1>6. TypeOK'
  BY <1>0, <1>3 DEF TypeOK, DataTypeOK, ProcTypeOK, Row
<1>7. Prepared'
  BY <1>0, <1>1, <1>2, <1>3, <1>4 DEF Prepared, LienKinds
<1>8. LocksHeld'
  <2>1. owner'[job[p].lien] = p
    BY <1>0, <1>1, <1>5 DEF Row
  <2>2. \A q \in Proc \ {p} : \A r \in Row : owner[r] = q => owner'[r] = q
    BY <1>0, <1>5, OpeningAssumption
  <2>3. \A q \in Proc \ {p} : pc[q] \in {"lock", "commit"} =>
          /\ AccountsOf(job[q]) \subseteq Row
          /\ job[q].kind \in LiftKinds => job[q].lien \in Row
    BY AccountsType, LienType DEF Prepared, Row, LienKinds
  <2>4. \A q \in Proc : pc'[q] \notin {"lock", "commit"} => Holds(q)' = {}
    BY <1>0, <1>3, <1>5 DEF LocksHeld, Holds
  <2>5. \A q \in Proc : pc'[q] = "commit" => \A a \in AccountsOf(job[q]) : owner'[a] = q
    <3>1. pc'[p] = "commit" => rest = {}
      BY <1>3
    <3>2. \A q \in Proc \ {p} : pc'[q] = "commit" => \A a \in AccountsOf(job[q]) : owner'[a] = q
      BY <1>3, <2>2, <2>3 DEF LocksHeld
    <3> QED BY <3>1, <3>2
  <2>6. \A k : LienIsActive(k)' <=> LienIsActive(k)
    BY <1>0 DEF LienIsActive
  <2>7. \A q \in Proc :
          /\ pc'[q] = "commit" \/ (pc'[q] = "lock" /\ want'[q] \in Account)
          /\ job[q].kind \in LiftKinds
          => owner'[job[q].lien] = q /\ LienIsActive(job[q].lien)
    <3>1. owner'[job[p].lien] = p /\ LienIsActive(job[p].lien)
      BY <1>0, <1>1, <2>1
    <3>2. \A q \in Proc \ {p} :
            /\ pc'[q] = "commit" \/ (pc'[q] = "lock" /\ want'[q] \in Account)
            /\ job[q].kind \in LiftKinds
            => owner'[job[q].lien] = q /\ LienIsActive(job[q].lien)
      BY <1>3, <2>2, <2>3 DEF LocksHeld
    <3> QED BY <3>1, <3>2
  <2>8. job' = job
    BY <1>0
  <2> QED BY <2>4, <2>5, <2>6, <2>7, <2>8 DEF LocksHeld
<1>9. SnapshotsCurrent'
  BY <1>0, <1>3, <1>4, <1>5 DEF SnapshotsCurrent, Row
<1> QED BY <1>6, <1>7, <1>8, <1>9

(* What a transaction that is about to write knows of its process and its rows. *)
LEMMA CommitFacts ==
  ASSUME IInv, NEW p \in Proc, NEW kinds, Committing(p, kinds)
  PROVE  /\ pc[p] = "commit" /\ job[p].kind \in kinds /\ Outcome(p) = "ok"
         /\ job[p] \in Request
         /\ \/ job[p].kind \in PostingKinds /\ Accepted(PayloadOf(job[p]))
            \/ job[p].kind \in LienKinds
         /\ AccountsOf(job[p]) \subseteq Account
         /\ \A a \in AccountsOf(job[p]) : owner[a] = p /\ snap[p][a] = accts[a]
<1>1. /\ pc[p] = "commit" /\ job[p].kind \in kinds /\ Outcome(p) = "ok"
      /\ job[p] \in Request
      /\ \/ job[p].kind \in PostingKinds /\ Accepted(PayloadOf(job[p]))
         \/ job[p].kind \in LienKinds
  BY DEF Committing, IInv, Prepared
<1>2. AccountsOf(job[p]) \subseteq Account
  BY <1>1, AccountsType
<1> QED BY <1>1, <1>2 DEF IInv, LocksHeld, SnapshotsCurrent

(* A posting that passes its verdict names known, locked accounts and is covered. *)
LEMMA PostFacts ==
  ASSUME IInv, NEW p \in Proc, Committing(p, PostingKinds)
  PROVE  LET pl == PayloadOf(job[p]) IN
         /\ IsPayload(pl) /\ Accepted(pl)
         /\ Parties(pl) \subseteq Account
         /\ \A a \in Parties(pl) : owner[a] = p /\ snap[p][a] = accts[a]
         /\ \A a \in DebitAccounts(pl) : Available(accts[a]) >= TotalDebit(pl, a)
         /\ ReferenceFree(pl, transactions)
<1> DEFINE pl == PayloadOf(job[p])
<1>1. /\ job[p].kind \in PostingKinds /\ Outcome(p) = "ok" /\ job[p] \in Request
      /\ AccountsOf(job[p]) \subseteq Account
      /\ \A a \in AccountsOf(job[p]) : owner[a] = p /\ snap[p][a] = accts[a]
  BY CommitFacts
<1>2. Accepted(pl)
  BY <1>1, CommitFacts DEF PostingKinds, LienKinds, LiftKinds
<1>3. Verdict(pl, snap[p], transactions) = "ok"
  BY <1>1 DEF Outcome, PostingKinds
<1>4. Resolvable(pl) /\ Covered(pl, snap[p]) /\ ReferenceFree(pl, transactions)
  BY <1>3 DEF Verdict
<1>5. AccountsOf(job[p]) = Parties(pl)
  BY <1>1, <1>4 DEF AccountsOf, Resolvable
<1>6. DebitAccounts(pl) \subseteq Parties(pl)
  BY DEF Parties
<1> QED BY <1>1, <1>2, <1>4, <1>5, <1>6, PayloadType DEF Covered

(* A committed posting keeps the invariant: the rows it writes are locked by it alone. *)
LEMMA PostKeeps ==
  ASSUME IInv, NEW p \in Proc, Post(p)
  PROVE  IInv'
<1> DEFINE pl == PayloadOf(job[p])
<1> USE DEF IInv
<1>0. /\ accts' = [a \in Account |-> PostedRow(pl, a, accts[a], snap[p][a])]
      /\ journals' = journals \cup {[id |-> p, entry |-> JournalOf(pl)]}
      /\ Finish(p, "ok") /\ "ok" \in Answer
      /\ UNCHANGED <<liens, expired>>
  BY DEF Post, Answer
<1>1. /\ IsPayload(pl) /\ Accepted(pl)
      /\ Parties(pl) \subseteq Account
      /\ \A a \in Parties(pl) : owner[a] = p /\ snap[p][a] = accts[a]
      /\ \A a \in DebitAccounts(pl) : Available(accts[a]) >= TotalDebit(pl, a)
  BY PostFacts DEF Post
<1>2. \A a \in Account : accts[a] \in AccountRow
  BY DEF TypeOK, DataTypeOK
<1>3. \A a \in Account \ Parties(pl) : accts'[a] = accts[a]
  BY <1>0 DEF PostedRow
<1>4. \A a \in Parties(pl) :
        accts'[a] = [accts[a] EXCEPT !.bookBalance = NewBookBalance(pl, a, accts[a])]
  BY <1>0, <1>1 DEF PostedRow
<1>5. \A a \in Parties(pl) : accts'[a] \in AccountRow
  <2> SUFFICES ASSUME NEW a \in Parties(pl) PROVE accts'[a] \in AccountRow
    OBVIOUS
  <2>1. accts[a] \in AccountRow
    BY <1>1, <1>2
  <2>2. NewBookBalance(pl, a, accts[a]) \in Int
    BY <1>1, <2>1, NewBalance
  <2> QED BY <1>4, <2>1, <2>2, RowType
<1>6. TypeOK'
  <2>1. accts' \in [Account -> AccountRow]
    BY <1>0, <1>2, <1>3, <1>5
  <2> QED BY <1>0, <2>1, FinishEffect DEF TypeOK, DataTypeOK
<1>7. Prepared'
  BY <1>0, FinishKeepsPrepared
<1>8. LocksHeld'
  BY <1>0, FinishKeepsLocks
<1>9. SnapshotsCurrent'
  BY <1>0, <1>1, <1>3, FinishKeepsSnapshots
<1> QED BY <1>6, <1>7, <1>8, <1>9

(* What placing and lifting a lien do to its account, from the row read under the lock. *)
LEMMA SetHoldEffect ==
  ASSUME IInv, NEW p \in Proc, NEW l \in Lien, NEW n \in Int, SetHold(p, l, n),
         snap[p][LienAccount[l]] = accts[LienAccount[l]]
  PROVE  /\ accts' \in [Account -> AccountRow]
         /\ LienAccount[l] \in Account
         /\ accts'[LienAccount[l]] =
              [accts[LienAccount[l]] EXCEPT !.lienAmount = accts[LienAccount[l]].lienAmount + n]
         /\ \A a \in Account \ {LienAccount[l]} : accts'[a] = accts[a]
<1> DEFINE a == LienAccount[l]
<1>1. a \in Account
  BY LienAssumption
<1>2. accts \in [Account -> AccountRow] /\ accts[a] \in AccountRow
  BY <1>1 DEF IInv, TypeOK, DataTypeOK
<1>3. accts' = [accts EXCEPT ![a] = [accts[a] EXCEPT !.lienAmount = accts[a].lienAmount + n]]
  BY DEF SetHold
<1>4. [accts[a] EXCEPT !.lienAmount = accts[a].lienAmount + n] \in AccountRow
  BY <1>2, RowType DEF AccountRow
<1> QED BY <1>1, <1>2, <1>3, <1>4

(* What a lien that commits has established under the lock of its account. *)
LEMMA PlaceFacts ==
  ASSUME IInv, NEW p \in Proc, Committing(p, {"placeLien"})
  PROVE  /\ job[p].lien \in Lien
         /\ owner[LienAccount[job[p].lien]] = p
         /\ snap[p][LienAccount[job[p].lien]] = accts[LienAccount[job[p].lien]]
         /\ Available(accts[LienAccount[job[p].lien]]) >= LienAmount[job[p].lien]
         /\ ~ReferenceTaken(job[p].lien)
<1>1. /\ job[p].kind = "placeLien" /\ Outcome(p) = "ok" /\ job[p] \in Request
      /\ \A a \in AccountsOf(job[p]) : owner[a] = p /\ snap[p][a] = accts[a]
  BY CommitFacts
<1>2. Placeable(job[p].lien, snap[p][LienAccount[job[p].lien]])
  BY <1>1 DEF Outcome, PostingKinds
<1>3. LienAccount[job[p].lien] \in AccountsOf(job[p])
  BY <1>1, <1>2 DEF AccountsOf, Placeable, PostingKinds
<1> QED BY <1>1, <1>2, <1>3, LienType DEF Placeable, LienKinds

(* A lien placed keeps the invariant. *)
LEMMA PlaceKeeps ==
  ASSUME IInv, NEW p \in Proc, PlaceLien(p)
  PROVE  IInv'
<1> DEFINE l == job[p].lien
           a == LienAccount[l]
<1> USE DEF IInv
<1>0. /\ SetHold(p, l, LienAmount[l])
      /\ liens' = [liens EXCEPT ![l] = "active"]
      /\ Finish(p, "ok") /\ "ok" \in Answer
      /\ UNCHANGED <<expired, journals, transactions>>
  BY DEF PlaceLien, Answer
<1>1. /\ l \in Lien /\ owner[a] = p /\ snap[p][a] = accts[a]
      /\ Available(accts[a]) >= LienAmount[l] /\ ~ReferenceTaken(l)
  BY PlaceFacts DEF PlaceLien
<1>2. LienAmount[l] \in Int
  BY <1>1, LienAssumption
<1>3. /\ accts' \in [Account -> AccountRow] /\ a \in Account
      /\ accts'[a] = [accts[a] EXCEPT !.lienAmount = accts[a].lienAmount + LienAmount[l]]
      /\ \A b \in Account \ {a} : accts'[b] = accts[b]
  BY <1>0, <1>1, <1>2, SetHoldEffect
<1>4. liens \in [Lien -> LienStatus] /\ liens' \in [Lien -> LienStatus]
  BY <1>0 DEF TypeOK, DataTypeOK, LienStatus
<1>5. liens[l] = "none"
  BY <1>1, <1>4 DEF ReferenceTaken
<1>6. TypeOK'
  BY <1>0, <1>3, <1>4, FinishEffect DEF TypeOK, DataTypeOK
<1>7. Prepared'
  BY <1>0, FinishKeepsPrepared
<1>8. LocksHeld'
  BY <1>0, <1>4, <1>5, FinishKeepsLocks
<1>9. SnapshotsCurrent'
  BY <1>0, <1>1, <1>3, FinishKeepsSnapshots
<1> QED BY <1>6, <1>7, <1>8, <1>9

(* What a release or an expiry that commits has established under its two locks. *)
LEMMA LiftFacts ==
  ASSUME IInv, NEW p \in Proc, Committing(p, LiftKinds)
  PROVE  /\ job[p].lien \in Lien
         /\ owner[LienAccount[job[p].lien]] = p /\ owner[job[p].lien] = p
         /\ snap[p][LienAccount[job[p].lien]] = accts[LienAccount[job[p].lien]]
         /\ liens[job[p].lien] = "active"
         /\ target[p] \in {"released", "voided"}
<1>1. /\ pc[p] = "commit" /\ job[p].kind \in LiftKinds
      /\ Outcome(p) = "ok" /\ job[p] \in Request
      /\ \A a \in AccountsOf(job[p]) : owner[a] = p /\ snap[p][a] = accts[a]
  BY CommitFacts
<1>2. Restorable(job[p], snap[p][LienAccount[job[p].lien]])
  BY <1>1 DEF Outcome, PostingKinds, LiftKinds
<1>3. LienAccount[job[p].lien] \in AccountsOf(job[p])
  BY <1>1, <1>2 DEF AccountsOf, Restorable, PostingKinds, LiftKinds
<1>4. job[p].lien \in Lien
  BY <1>1, LienType DEF LienKinds
<1>5. owner[job[p].lien] = p /\ liens[job[p].lien] = "active"
  BY <1>1 DEF IInv, LocksHeld, LienIsActive
<1>6. target[p] \in {"released", "voided"}
  BY <1>1 DEF IInv, Prepared
<1> QED BY <1>1, <1>3, <1>4, <1>5, <1>6

(* A lien lifted keeps the invariant. *)
LEMMA LiftKeeps ==
  ASSUME IInv, NEW p \in Proc, LiftLien(p)
  PROVE  IInv'
<1> DEFINE l == job[p].lien
           a == LienAccount[l]
<1> USE DEF IInv
<1>0. /\ SetHold(p, l, -LienAmount[l])
      /\ liens' = [liens EXCEPT ![l] = target[p]]
      /\ Finish(p, "ok") /\ "ok" \in Answer
      /\ UNCHANGED <<expired, journals, transactions>>
  BY DEF LiftLien, Answer
<1>1. /\ l \in Lien /\ owner[a] = p /\ owner[l] = p /\ snap[p][a] = accts[a]
      /\ target[p] \in {"released", "voided"}
  BY LiftFacts DEF LiftLien
<1>2. LienAmount[l] \in Int /\ -LienAmount[l] \in Int
  BY <1>1, LienAssumption
<1>3. /\ accts' \in [Account -> AccountRow] /\ a \in Account
      /\ accts'[a] = [accts[a] EXCEPT !.lienAmount = accts[a].lienAmount + (-LienAmount[l])]
      /\ \A b \in Account \ {a} : accts'[b] = accts[b]
  BY <1>0, <1>1, <1>2, SetHoldEffect
<1>4. liens \in [Lien -> LienStatus] /\ liens' \in [Lien -> LienStatus]
  BY <1>0, <1>1 DEF TypeOK, DataTypeOK, LienStatus
<1>5. TypeOK'
  BY <1>0, <1>3, <1>4, FinishEffect DEF TypeOK, DataTypeOK
<1>6. Prepared'
  BY <1>0, FinishKeepsPrepared
<1>7. LocksHeld'
  BY <1>0, <1>1, <1>4, FinishKeepsLocks
<1>8. SnapshotsCurrent'
  BY <1>0, <1>1, <1>3, FinishKeepsSnapshots
<1> QED BY <1>5, <1>6, <1>7, <1>8

(* A restriction or an activation, which locks nothing ahead, waits for a free row. *)
LEMMA UpdateKeeps ==
  ASSUME IInv, NEW p \in Proc, Update(p)
  PROVE  IInv'
<1> DEFINE a == job[p].account
<1> USE DEF IInv
<1>0. /\ pc[p] = "update" /\ owner[a] = None
      /\ accts' = [accts EXCEPT ![a] = Updated(job[p], accts[a], snap[p][a])]
      /\ Finish(p, "ok") /\ "ok" \in Answer
      /\ UNCHANGED <<liens, expired, journals, transactions>>
  BY DEF Update, Answer, Free
<1>1. job[p] \in Request /\ job[p].kind \in UpdateKinds
  BY <1>0 DEF Prepared
<1>2. /\ a \in Account /\ accts \in [Account -> AccountRow]
      /\ accts[a] \in AccountRow /\ snap[p][a] \in AccountRow
  BY <1>1, UpdateType DEF TypeOK, DataTypeOK, ProcTypeOK
<1>3. Updated(job[p], accts[a], snap[p][a]) \in AccountRow
  BY <1>1, <1>2, RowType
<1>4. TypeOK'
  BY <1>0, <1>2, <1>3, FinishEffect DEF TypeOK, DataTypeOK
<1>5. Prepared'
  BY <1>0, FinishKeepsPrepared
<1>6. LocksHeld'
  BY <1>0, FinishKeepsLocks
<1>7. SnapshotsCurrent'
  BY <1>0, <1>2, FinishKeepsSnapshots
<1> QED BY <1>4, <1>5, <1>6, <1>7

(* The three ways a request begins. *)
LEMMA StartKeeps ==
  ASSUME IInv, NEW p \in Proc, NEW r \in Request, Start(p, r)
  PROVE  IInv'
<1>1. CASE StartPosting(p, r)
  <2>1. AccountsOf(r) \in SUBSET Row
    BY <1>1, AccountsType DEF StartPosting, Row
  <2> QED BY <1>1, <2>1, OpenKeeps DEF StartPosting
<1>2. CASE StartPlace(p, r)
  <2>1. r.kind = "placeLien" /\ AccountsOf(r) \in SUBSET Row
    BY <1>2, AccountsType DEF StartPlace, Row, LienKinds
  <2> QED BY <1>2, <2>1, OpenKeeps DEF StartPlace
<1>3. CASE StartLift(p, r)
  <2>1. r.kind \in LiftKinds /\ {r.lien} \in SUBSET Row
    BY <1>3, LienType DEF StartLift, Row, LienKinds
  <2> QED BY <1>3, <2>1, OpenKeeps DEF StartLift
<1>4. CASE StartUpdate(p, r)
  BY <1>4, StartUpdateKeeps
<1>5. CASE RefusePosting(p, r) \/ RefusePlace(p, r) \/ RefuseUpdate(p, r)
  BY <1>5, RefuseKeeps DEF RefusePosting, RefusePlace, RefuseUpdate
<1> QED BY <1>1, <1>2, <1>3, <1>4, <1>5 DEF Start

(* A rolled-back transaction is answered with one of the answers. *)
LEMMA OutcomeType ==
  ASSUME NEW p \in Proc
  PROVE  Outcome(p) \in Answer
  BY DEF Outcome, Verdict, Answer

(* Every step inside a transaction keeps the invariant. *)
LEMMA WorkKeeps ==
  ASSUME IInv, NEW p \in Proc, Work(p)
  PROVE  IInv'
<1>1. CASE LienSettled(p)
  BY <1>1, QuietFinishKeeps DEF LienSettled, Answer
<1>2. CASE RollBack(p)
  BY <1>2, QuietFinishKeeps, OutcomeType DEF RollBack
<1>3. CASE DeadlockVictim(p)
  BY <1>3, QuietFinishKeeps DEF DeadlockVictim, Answer
<1> QED BY <1>1, <1>2, <1>3, LockAccountKeeps, LockLienKeeps, PostKeeps, PlaceKeeps,
           LiftKeeps, UpdateKeeps DEF Work

(* A step that changes nothing keeps the invariant. *)
LEMMA StutterKeeps ==
  ASSUME IInv, UNCHANGED vars
  PROVE  IInv'
<1> USE DEF IInv, vars
<1>1. TypeOK' /\ Prepared'
  BY DEF TypeOK, DataTypeOK, ProcTypeOK, Prepared
<1>2. LocksHeld' /\ SnapshotsCurrent'
  BY DEF LocksHeld, SnapshotsCurrent, Holds, LienIsActive
<1> QED BY <1>1, <1>2

(* Every step keeps the invariant. *)
LEMMA NextIInv == IInv /\ [Next]_vars => IInv'
<1> SUFFICES ASSUME IInv, [Next]_vars
             PROVE  IInv'
  OBVIOUS
<1>1. ASSUME NEW p \in Proc, NEW r \in Request, Start(p, r)
      PROVE  IInv'
  BY <1>1, StartKeeps
<1>2. ASSUME NEW p \in Proc, Work(p)
      PROVE  IInv'
  BY <1>2, WorkKeeps
<1>3. ASSUME NEW p \in Proc, Crash(p)
      PROVE  IInv'
  BY <1>3, QuietFinishKeeps DEF Crash, Answer
<1>4. ASSUME NEW l \in Lien, ExpiryPasses(l)
      PROVE  IInv'
  BY <1>4, ExpiryKeeps
<1>5. CASE AllAnswered \/ UNCHANGED vars
  BY <1>5, StutterKeeps DEF AllAnswered
<1> QED BY <1>1, <1>2, <1>3, <1>4, <1>5 DEF Next

(* The invariant holds for every set of accounts, ledgers, requests and processes. *)
THEOREM Invariance == Spec => []IInv
<1>1. Init => IInv
  BY InitIInv
<1>2. IInv /\ [Next]_vars => IInv'
  BY NextIInv
<1> QED BY <1>1, <1>2, PTL DEF Spec

-----------------------------------------------------------------------------
(* Solvency.                                                                 *)

(* The liens that lent money to an account and have been lifted. *)
LentBy(a) ==
  {l \in Lien : LienAccount[l] = a /\ LienAmount[l] < 0 /\ liens[l] \in {"released", "voided"}}

(* What liens have lent an account is a number, and no more than nothing. *)
Lending == \A a \in Account : Lent(a) \in Int /\ Lent(a) <= 0

(* A sum of lent amounts depends on the liens that count alone. *)
LEMMA LentIs ==
  ASSUME NEW a
  PROVE  /\ IsFiniteSet(LentBy(a)) /\ IsFiniteSet(LentBy(a)')
         /\ Lent(a) = SumFunctionOnSet(LienAmount, LentBy(a))
         /\ Lent(a)' = SumFunctionOnSet(LienAmount, LentBy(a)')
<1>1. LentBy(a) \subseteq Lien /\ LentBy(a)' \subseteq Lien
  BY DEF LentBy
<1> QED BY <1>1, FS_Subset, FiniteAssumption DEF Lent, LentBy

(* A step that changes no status of a lien changes nothing of what is lent. *)
LEMMA LentStays ==
  ASSUME NEW a, LentBy(a)' = LentBy(a)
  PROVE  Lent(a)' = Lent(a)
<1>1. SumFunctionOnSet(LienAmount, LentBy(a)') = SumFunctionOnSet(LienAmount, LentBy(a))
  BY Zenon
<1> QED BY <1>1, LentIs

(* A lien that is lifted has lent its amount if that is negative, and nothing if not. *)
LEMMA LentChanges ==
  ASSUME TypeOK, NEW l \in Lien, NEW a \in Account, a = LienAccount[l],
         liens[l] = "active", NEW s \in {"released", "voided"}, liens' = [liens EXCEPT ![l] = s]
  PROVE  Lent(a)' = Lent(a) + (IF LienAmount[l] < 0 THEN LienAmount[l] ELSE 0)
<1>1. \A k \in Lien : LienAmount[k] \in Int
  BY LienAssumption
<1>2. liens \in [Lien -> LienStatus]
  BY DEF TypeOK, DataTypeOK
<1>3. \A k \in LentBy(a) \cup {l} : LienAmount[k] \in Int
  BY <1>1 DEF LentBy
<1>4. SumFunctionOnSet(LienAmount, LentBy(a)) \in Int
  BY <1>3, LentIs, SumType
<1>5. CASE LienAmount[l] < 0
  <2>1. LentBy(a)' = LentBy(a) \cup {l} /\ l \notin LentBy(a)
    BY <1>2, <1>5 DEF LentBy
  <2>2. SumFunctionOnSet(LienAmount, LentBy(a) \cup {l})
          = LienAmount[l] + SumFunctionOnSet(LienAmount, LentBy(a))
    BY <1>3, <2>1, LentIs, SumAdd
  <2>3. SumFunctionOnSet(LienAmount, LentBy(a)') = SumFunctionOnSet(LienAmount, LentBy(a) \cup {l})
    BY <2>1, Zenon
  <2> QED BY <1>1, <1>4, <1>5, <2>2, <2>3, LentIs
<1>6. CASE ~(LienAmount[l] < 0)
  <2>1. LentBy(a)' = LentBy(a)
    BY <1>2, <1>6 DEF LentBy
  <2>2. Lent(a)' = Lent(a) /\ Lent(a) \in Int
    BY <1>4, <2>1, LentStays, LentIs
  <2> QED BY <1>6, <2>2
<1> QED BY <1>5, <1>6

(* Only lifting a lien makes it one that has lent. *)
LEMMA LentElsewhere ==
  ASSUME TypeOK, NEW l \in Lien, NEW s \in LienStatus, liens' = [liens EXCEPT ![l] = s],
         NEW a \in Account, a # LienAccount[l] \/ (liens[l] = "none" /\ s = "active")
  PROVE  Lent(a)' = Lent(a)
<1>1. liens \in [Lien -> LienStatus]
  BY DEF TypeOK, DataTypeOK
<1>2. LentBy(a)' = LentBy(a)
  BY <1>1 DEF LentBy
<1> QED BY <1>2, LentStays

(* A posting spends only what was available in the rows as they are now. *)
LEMMA PostKeepsSolvent ==
  ASSUME IInv, Lending, Solvent, NEW p \in Proc, Post(p)
  PROVE  Lending' /\ Solvent'
<1> DEFINE pl == PayloadOf(job[p])
<1>1. /\ IsPayload(pl) /\ Accepted(pl)
      /\ Parties(pl) \subseteq Account
      /\ \A a \in Parties(pl) : snap[p][a] = accts[a]
      /\ \A a \in DebitAccounts(pl) : Available(accts[a]) >= TotalDebit(pl, a)
  BY PostFacts DEF Post
<1>2. accts' = [a \in Account |-> PostedRow(pl, a, accts[a], snap[p][a])]
  BY DEF Post
<1>3. \A a \in Account : Lent(a)' = Lent(a) /\ Lent(a) \in Int /\ Lent(a) <= 0
  <2>1. \A a \in Account : LentBy(a)' = LentBy(a)
    BY DEF Post, LentBy
  <2> QED BY <2>1, LentStays DEF Lending
<1>4. ASSUME NEW a \in Parties(pl)
      PROVE  accts'[a].lienAmount + Lent(a) <= accts'[a].bookBalance
  <2>1. accts[a] \in AccountRow /\ a \in Account
    BY <1>1 DEF IInv, TypeOK, DataTypeOK
  <2>2. accts'[a] = [accts[a] EXCEPT !.bookBalance = NewBookBalance(pl, a, accts[a])]
    BY <1>1, <1>2 DEF PostedRow
  <2>3. accts[a].lienAmount + Lent(a) <= accts[a].bookBalance
    BY <2>1 DEF Solvent
  <2>4. PICK lent \in Int : lent = Lent(a) /\ lent <= 0
    BY <1>3, <2>1
  <2>5. accts[a].lienAmount + lent <= NewBookBalance(pl, a, accts[a])
    BY <1>1, <2>1, <2>3, <2>4, NewBalance
  <2> QED BY <2>1, <2>2, <2>4, <2>5 DEF AccountRow
<1>5. \A a \in Account : accts'[a].lienAmount + Lent(a) <= accts'[a].bookBalance
  BY <1>2, <1>4 DEF Solvent, PostedRow
<1>6. Solvent'
  BY <1>3, <1>5 DEF Solvent
<1> QED BY <1>3, <1>6 DEF Lending

(* A lien takes only what was available. *)
LEMMA PlaceKeepsSolvent ==
  ASSUME IInv, Lending, Solvent, NEW p \in Proc, PlaceLien(p)
  PROVE  Lending' /\ Solvent'
<1>k. PICK l \in Lien : l = job[p].lien
  BY PlaceFacts DEF PlaceLien
<1>a. PICK a \in Account : a = LienAccount[l]
  BY LienAssumption
<1>1. /\ SetHold(p, l, LienAmount[l]) /\ LienAmount[l] \in Int
      /\ snap[p][a] = accts[a] /\ Available(accts[a]) >= LienAmount[l]
      /\ liens' = [liens EXCEPT ![l] = "active"] /\ ~ReferenceTaken(l)
  BY <1>k, <1>a, PlaceFacts, LienAssumption DEF PlaceLien
<1>2. accts[a] \in AccountRow /\ TypeOK /\ liens[l] = "none"
  BY <1>1 DEF ReferenceTaken, IInv, TypeOK, DataTypeOK
<1>3. /\ accts'[a] = [accts[a] EXCEPT !.lienAmount = accts[a].lienAmount + LienAmount[l]]
      /\ \A b \in Account \ {a} : accts'[b] = accts[b]
  BY <1>a, <1>1, SetHoldEffect
<1>4. \A b \in Account : Lent(b)' = Lent(b) /\ Lent(b) \in Int /\ Lent(b) <= 0
  BY <1>1, <1>2, LentElsewhere DEF Lending, LienStatus
<1>5. accts'[a].lienAmount <= accts'[a].bookBalance
  BY <1>1, <1>2, <1>3 DEF AccountRow, Available
<1>6. accts'[a].lienAmount \in Int /\ accts'[a].bookBalance \in Int
  BY <1>1, <1>2, <1>3 DEF AccountRow
<1>7. accts'[a].lienAmount + Lent(a) <= accts'[a].bookBalance
  BY <1>4, <1>5, <1>6
<1>8. Solvent'
  BY <1>3, <1>4, <1>7 DEF Solvent
<1> QED BY <1>4, <1>8 DEF Lending

(* Lifting a lien gives back what it took, or takes back what it lent. *)
LEMMA LiftKeepsSolvent ==
  ASSUME IInv, Lending, Solvent, NEW p \in Proc, LiftLien(p)
  PROVE  Lending' /\ Solvent'
<1>k. PICK l \in Lien : l = job[p].lien
  BY LiftFacts DEF LiftLien
<1>a. PICK a \in Account : a = LienAccount[l]
  BY LienAssumption
<1>s. PICK s \in {"released", "voided"} : s = target[p]
  BY LiftFacts DEF LiftLien
<1>1. /\ SetHold(p, l, -LienAmount[l]) /\ LienAmount[l] \in Int /\ -LienAmount[l] \in Int
      /\ snap[p][a] = accts[a] /\ liens[l] = "active"
      /\ liens' = [liens EXCEPT ![l] = s]
  BY <1>k, <1>a, <1>s, LiftFacts, LienAssumption DEF LiftLien
<1>2. accts[a] \in AccountRow /\ TypeOK /\ s \in LienStatus
  BY <1>1 DEF IInv, TypeOK, DataTypeOK, LienStatus
<1>3. /\ accts'[a] = [accts[a] EXCEPT !.lienAmount = accts[a].lienAmount + (-LienAmount[l])]
      /\ \A b \in Account \ {a} : accts'[b] = accts[b]
  BY <1>a, <1>1, SetHoldEffect
<1>4. ASSUME NEW b \in Account \ {a} PROVE Lent(b)' = Lent(b)
  <2>1. b \in Account /\ b # LienAccount[l]
    BY <1>a
  <2> QED BY <1>1, <1>2, <2>1, LentElsewhere
<1>5. Lent(a)' = Lent(a) + (IF LienAmount[l] < 0 THEN LienAmount[l] ELSE 0)
  BY <1>a, <1>1, <1>2, LentChanges
<1>6. Lent(a) \in Int /\ Lent(a) <= 0 /\ accts[a].lienAmount + Lent(a) <= accts[a].bookBalance
  BY DEF Lending, Solvent
<1>7. /\ accts'[a].lienAmount = accts[a].lienAmount - LienAmount[l]
      /\ accts'[a].bookBalance = accts[a].bookBalance
      /\ accts[a].lienAmount \in Int /\ accts[a].bookBalance \in Int
  BY <1>1, <1>2, <1>3 DEF AccountRow
<1>8. Lent(a)' \in Int /\ Lent(a)' <= 0 /\ accts'[a].lienAmount + Lent(a)' <= accts'[a].bookBalance
  BY <1>1, <1>5, <1>6, <1>7
<1>9. Solvent'
  BY <1>3, <1>4, <1>8 DEF Solvent
<1> QED BY <1>4, <1>8, <1>9 DEF Lending

(* A restriction or an activation writes neither of the two balances. *)
LEMMA UpdateEffect ==
  ASSUME IInv, NEW p \in Proc, Update(p)
  PROVE  \A a \in Account : /\ accts'[a].bookBalance = accts[a].bookBalance
                            /\ accts'[a].lienAmount = accts[a].lienAmount
<1> DEFINE a == job[p].account
<1>1. /\ job[p] \in Request /\ job[p].kind \in UpdateKinds /\ a \in Account
      /\ accts' = [accts EXCEPT ![a] = Updated(job[p], accts[a], snap[p][a])]
  BY UpdateType DEF Update, IInv, Prepared
<1>2. accts \in [Account -> AccountRow] /\ accts[a] \in AccountRow
  BY <1>1 DEF IInv, TypeOK, DataTypeOK
<1>3. /\ Updated(job[p], accts[a], snap[p][a]).bookBalance = accts[a].bookBalance
      /\ Updated(job[p], accts[a], snap[p][a]).lienAmount = accts[a].lienAmount
  BY <1>1, <1>2 DEF Updated, UpdateKinds, AccountRow
<1> QED BY <1>1, <1>2, <1>3

(* The steps that change no account, lien, journal or transaction. *)
QuietWork(p) ==
  LockAccount(p) \/ LockLien(p) \/ LienSettled(p) \/ RollBack(p) \/ DeadlockVictim(p)

(* Everything but a commit leaves the tables as they are. *)
LEMMA QuietSteps ==
  /\ \A p \in Proc, r \in Request : Start(p, r) => UNCHANGED data
  /\ \A p \in Proc : QuietWork(p) \/ Crash(p) => UNCHANGED data
  /\ \A l \in Lien : ExpiryPasses(l) => UNCHANGED data
  /\ AllAnswered \/ UNCHANGED vars => UNCHANGED data
<1>1. \A p \in Proc, r \in Request : Start(p, r) => UNCHANGED data
  BY DEF Start, StartPosting, RefusePosting, StartPlace, RefusePlace, StartLift, StartUpdate,
         RefuseUpdate, Refuse
<1>2. \A p \in Proc : QuietWork(p) \/ Crash(p) => UNCHANGED data
  BY DEF QuietWork, LockAccount, LockLien, LienSettled, RollBack, DeadlockVictim, Crash
<1>3. \A l \in Lien : ExpiryPasses(l) => UNCHANGED data
  BY DEF ExpiryPasses
<1>4. AllAnswered \/ UNCHANGED vars => UNCHANGED data
  BY DEF AllAnswered, vars, data
<1> QED BY <1>1, <1>2, <1>3, <1>4

(* A step that leaves liens and balances alone keeps accounts solvent. *)
LEMMA SameKeepsSolvent ==
  ASSUME Lending, Solvent, liens' = liens,
         \A a \in Account : /\ accts'[a].bookBalance = accts[a].bookBalance
                            /\ accts'[a].lienAmount = accts[a].lienAmount
  PROVE  Lending' /\ Solvent'
<1>1. \A a \in Account : LentBy(a)' = LentBy(a)
  BY DEF LentBy
<1>2. \A a \in Account : Lent(a)' = Lent(a)
  BY <1>1, LentStays
<1> QED BY <1>2 DEF Lending, Solvent

(* Every step keeps accounts solvent. *)
LEMMA NextSolvent == IInv /\ Lending /\ Solvent /\ [Next]_vars => Lending' /\ Solvent'
<1> SUFFICES ASSUME IInv, Lending, Solvent, [Next]_vars
             PROVE  Lending' /\ Solvent'
  OBVIOUS
<1>1. ASSUME UNCHANGED data PROVE Lending' /\ Solvent'
  BY <1>1, SameKeepsSolvent DEF data
<1>2. ASSUME NEW p \in Proc, Update(p) PROVE Lending' /\ Solvent'
  BY <1>2, UpdateEffect, SameKeepsSolvent DEF Update
<1> QED BY <1>1, <1>2, QuietSteps, PostKeepsSolvent, PlaceKeepsSolvent, LiftKeepsSolvent
        DEF Next, Work, QuietWork

-----------------------------------------------------------------------------
(* Theorems.                                                                 *)

(* Every state of the tables, the locks and the requests is well typed. *)
THEOREM TypeCorrectness == Spec => []TypeOK
<1>1. IInv => TypeOK
  BY DEF IInv
<1> QED BY <1>1, Invariance, PTL

(* A transaction writes only rows it has locked, and lifts only liens that are active. *)
THEOREM LockDiscipline == Spec => []LocksHeld
<1>1. IInv => LocksHeld
  BY DEF IInv
<1> QED BY <1>1, Invariance, PTL

(* What a transaction has read under a lock stays true until it ends. *)
THEOREM ReadsStayCurrent == Spec => []SnapshotsCurrent
<1>1. IInv => SnapshotsCurrent
  BY DEF IInv
<1> QED BY <1>1, Invariance, PTL

(* No interleaving of transfers, postings and liens commits more than an account has: it is
   overdrawn by no more than lifted liens of negative amounts had lent it. *)
THEOREM AccountsStaySolvent == Spec => []Solvent
<1>1. Init => Lending /\ Solvent
  <2> SUFFICES ASSUME Init, NEW a \in Account
               PROVE  Lent(a) = 0 /\ accts[a].lienAmount + Lent(a) <= accts[a].bookBalance
    BY DEF Lending, Solvent
  <2>1. LentBy(a) = {}
    BY DEF Init, LentBy
  <2>2. SumFunctionOnSet(LienAmount, LentBy(a)) = SumFunctionOnSet(LienAmount, {})
    BY <2>1, Zenon
  <2>3. Lent(a) = 0
    BY <2>2, LentIs, SumEmpty
  <2>4. accts[a] = OpeningRow[a] /\ OpeningRow[a] \in AccountRow
        /\ OpeningRow[a].lienAmount <= OpeningRow[a].bookBalance
    BY OpeningAssumption DEF Init
  <2> QED BY <2>3, <2>4 DEF AccountRow
<1>2. IInv /\ Lending /\ Solvent /\ [Next]_vars => Lending' /\ Solvent'
  BY NextSolvent
<1> QED BY <1>1, <1>2, Invariance, PTL DEF Spec

-----------------------------------------------------------------------------
(* One posting per reference: a single transaction leaves its reference behind, and
   the unique index refuses it to the next one. *)
ReferencesRecorded ==
  \A j \in journals : j.entry.transaction => <<j.entry.reference, "", "">> \in transactions

(* A single-transaction posting finds its reference unused and leaves it in use. *)
LEMMA PostRecords ==
  ASSUME IInv, ReferencesRecorded, OnePostingPerReference, NEW p \in Proc, Post(p)
  PROVE  ReferencesRecorded' /\ OnePostingPerReference'
<1> DEFINE pl == PayloadOf(job[p])
           new == [id |-> p, entry |-> JournalOf(pl)]
<1>1. ReferenceFree(pl, transactions)
  BY PostFacts DEF Post
<1>2. /\ journals' = journals \cup {new}
      /\ transactions' = transactions \cup TransactionRefs(pl)
  BY DEF Post
<1>3. /\ new.entry.reference = pl.referenceNumber
      /\ new.entry.transaction = HasTransactionId(pl)
  BY DEF JournalOf
<1>4. HasTransactionId(pl) => TransactionRefs(pl) = {<<pl.referenceNumber, "", "">>}
  BY DEF TransactionRefs
<1>5. HasTransactionId(pl) => <<pl.referenceNumber, "", "">> \notin transactions
  BY <1>1, <1>4 DEF ReferenceFree
<1>6. ReferencesRecorded'
  BY <1>2, <1>3, <1>4 DEF ReferencesRecorded
<1>7. OnePostingPerReference'
  <2>1. \A j \in journals :
          ~(/\ j.entry.reference = new.entry.reference
            /\ j.entry.transaction /\ new.entry.transaction)
    BY <1>3, <1>5 DEF ReferencesRecorded
  <2> HIDE DEF new
  <2> QED BY <1>2, <2>1 DEF OnePostingPerReference
<1> QED BY <1>6, <1>7

(* A request retried or sent twice is posted at most once. *)
THEOREM PostedOnce == Spec => []OnePostingPerReference
<1> DEFINE Once == ReferencesRecorded /\ OnePostingPerReference
<1>1. Init => Once
  BY DEF Init, ReferencesRecorded, OnePostingPerReference
<1>2. IInv /\ Once /\ [Next]_vars => Once'
  <2> SUFFICES ASSUME IInv, Once, [Next]_vars PROVE Once'
    OBVIOUS
  <2>1. ASSUME UNCHANGED <<journals, transactions>> PROVE Once'
    BY <2>1 DEF ReferencesRecorded, OnePostingPerReference
  <2>2. ASSUME NEW p \in Proc, PlaceLien(p) \/ LiftLien(p) \/ Update(p) PROVE Once'
    BY <2>1, <2>2 DEF PlaceLien, LiftLien, Update
  <2>3. ASSUME NEW p \in Proc, Post(p) PROVE Once'
    BY <2>3, PostRecords
  <2>4. ASSUME UNCHANGED data PROVE Once'
    BY <2>1, <2>4 DEF data
  <2> HIDE DEF Once
  <2> QED BY <2>2, <2>3, <2>4, QuietSteps DEF Next, Work, QuietWork
<1>3. Once => OnePostingPerReference
  OBVIOUS
<1> HIDE DEF Once
<1> QED BY <1>1, <1>2, <1>3, Invariance, PTL DEF Spec

-----------------------------------------------------------------------------
(* Holds: each account holds what its active liens add up to.                *)

(* The liens that hold money on an account, their number and the sum of their amounts. *)
ActiveOn(a) == {l \in Lien : LienAccount[l] = a /\ liens[l] = "active"}

(* An account has finitely many active liens, and their sum is a number. *)
LEMMA ActiveFinite ==
  ASSUME NEW a
  PROVE  IsFiniteSet(ActiveOn(a)) /\ IsFiniteSet(ActiveOn(a)')
         /\ HeldOn(a) = SumFunctionOnSet(LienAmount, ActiveOn(a))
         /\ HeldOn(a)' = SumFunctionOnSet(LienAmount, ActiveOn(a)')
<1>1. ActiveOn(a) \subseteq Lien /\ ActiveOn(a)' \subseteq Lien
  BY DEF ActiveOn
<1> QED BY <1>1, FS_Subset, FiniteAssumption DEF HeldOn, ActiveOn

(* A lien placed or lifted changes the sum of its own account by its amount, and no other. *)
LEMMA HeldChanges ==
  ASSUME TypeOK, NEW l \in Lien
  PROVE  /\ liens[l] = "none" /\ liens' = [liens EXCEPT ![l] = "active"] =>
              HeldOn(LienAccount[l])' = HeldOn(LienAccount[l]) + LienAmount[l]
         /\ liens[l] = "active" /\ (\E s \in {"released", "voided"} : liens' = [liens EXCEPT ![l] = s]) =>
              HeldOn(LienAccount[l])' = HeldOn(LienAccount[l]) - LienAmount[l]
         /\ (\E s \in LienStatus : liens' = [liens EXCEPT ![l] = s]) =>
              \A a \in Account \ {LienAccount[l]} : HeldOn(a)' = HeldOn(a)
<1> DEFINE a == LienAccount[l]
<1>1. \A k \in Lien : LienAmount[k] \in Int
  BY LienAssumption
<1>2. \A k \in ActiveOn(a) \cup ActiveOn(a)' \cup {l} : LienAmount[k] \in Int
  BY <1>1 DEF ActiveOn
<1>3. liens \in [Lien -> LienStatus]
  BY DEF TypeOK, DataTypeOK
<1>4. ASSUME liens[l] = "none", liens' = [liens EXCEPT ![l] = "active"]
      PROVE  HeldOn(a)' = HeldOn(a) + LienAmount[l]
  <2>1. ActiveOn(a)' = ActiveOn(a) \cup {l} /\ l \notin ActiveOn(a)
    BY <1>3, <1>4 DEF ActiveOn
  <2>2. SumFunctionOnSet(LienAmount, ActiveOn(a) \cup {l})
          = LienAmount[l] + SumFunctionOnSet(LienAmount, ActiveOn(a))
    BY <1>2, <2>1, ActiveFinite, SumAdd
  <2>3. SumFunctionOnSet(LienAmount, ActiveOn(a)')
          = SumFunctionOnSet(LienAmount, ActiveOn(a) \cup {l})
    BY <2>1, Zenon
  <2>4. SumFunctionOnSet(LienAmount, ActiveOn(a)) \in Int
    BY <1>2, ActiveFinite, SumType
  <2> QED BY <1>1, <2>2, <2>3, <2>4, ActiveFinite
<1>5. ASSUME liens[l] = "active", NEW s \in {"released", "voided"}, liens' = [liens EXCEPT ![l] = s]
      PROVE  HeldOn(a)' = HeldOn(a) - LienAmount[l]
  <2>1. ActiveOn(a)' = ActiveOn(a) \ {l} /\ l \in ActiveOn(a)
    BY <1>3, <1>5 DEF ActiveOn
  <2>2. SumFunctionOnSet(LienAmount, ActiveOn(a))
          = LienAmount[l] + SumFunctionOnSet(LienAmount, ActiveOn(a) \ {l})
    BY <1>2, <2>1, ActiveFinite, SumRemove
  <2>3. SumFunctionOnSet(LienAmount, ActiveOn(a)')
          = SumFunctionOnSet(LienAmount, ActiveOn(a) \ {l})
    BY <2>1, Zenon
  <2>4. SumFunctionOnSet(LienAmount, ActiveOn(a)') \in Int
    BY <1>2, ActiveFinite, SumType
  <2> QED BY <1>1, <2>2, <2>3, <2>4, ActiveFinite
<1>6. ASSUME NEW s \in LienStatus, liens' = [liens EXCEPT ![l] = s], NEW b \in Account \ {a}
      PROVE  HeldOn(b)' = HeldOn(b)
  <2>1. ActiveOn(b)' = ActiveOn(b)
    BY <1>3, <1>6 DEF ActiveOn
  <2>2. SumFunctionOnSet(LienAmount, ActiveOn(b)') = SumFunctionOnSet(LienAmount, ActiveOn(b))
    BY <2>1, Zenon
  <2> QED BY <2>2, ActiveFinite
<1> QED BY <1>4, <1>5, <1>6

(* Placing and lifting a lien keep the running totals. *)
LEMMA HoldKeepsHolds ==
  ASSUME IInv, HoldsMatchLiens, NEW p \in Proc, PlaceLien(p) \/ LiftLien(p)
  PROVE  HoldsMatchLiens'
<1>0. TypeOK
  BY DEF IInv
<1>l. job[p].lien \in Lien
  BY PlaceFacts, LiftFacts DEF PlaceLien, LiftLien
<1>k. PICK l \in Lien : l = job[p].lien
  BY <1>l
<1>a. PICK a \in Account : a = LienAccount[l]
  BY LienAssumption
<1>1. ASSUME PlaceLien(p) PROVE HoldsMatchLiens'
  <2>1. /\ SetHold(p, l, LienAmount[l]) /\ l \in Lien /\ LienAmount[l] \in Int
        /\ snap[p][a] = accts[a] /\ ~ReferenceTaken(l)
        /\ liens' = [liens EXCEPT ![l] = "active"]
    BY <1>1, <1>k, <1>a, PlaceFacts, LienAssumption DEF PlaceLien
  <2>2. liens[l] = "none"
    BY <1>0, <2>1 DEF ReferenceTaken, TypeOK, DataTypeOK
  <2>3. a \in Account /\ accts[a] \in AccountRow
    BY <1>0, <2>1, LienAssumption DEF TypeOK, DataTypeOK
  <2>4. /\ accts'[a] = [accts[a] EXCEPT !.lienAmount = accts[a].lienAmount + LienAmount[l]]
        /\ \A b \in Account \ {a} : accts'[b] = accts[b]
    BY <1>a, <2>1, SetHoldEffect
  <2>5. accts'[a].lienAmount = accts[a].lienAmount + LienAmount[l]
    BY <2>3, <2>4 DEF AccountRow
  <2>6. HeldOn(a)' = HeldOn(a) + LienAmount[l]
    BY <1>0, <1>a, <2>1, <2>2, HeldChanges
  <2>7. \A b \in Account \ {a} : HeldOn(b)' = HeldOn(b)
    BY <1>0, <1>a, <2>1, HeldChanges DEF LienStatus
  <2>8. accts'[a].lienAmount = HeldOn(a)'
    BY <2>3, <2>5, <2>6 DEF HoldsMatchLiens
  <2> QED BY <2>4, <2>7, <2>8 DEF HoldsMatchLiens
<1>2. ASSUME LiftLien(p) PROVE HoldsMatchLiens'
  <2>1. /\ SetHold(p, l, -LienAmount[l]) /\ l \in Lien
        /\ LienAmount[l] \in Int /\ -LienAmount[l] \in Int
        /\ snap[p][a] = accts[a] /\ liens[l] = "active"
        /\ target[p] \in {"released", "voided"}
        /\ liens' = [liens EXCEPT ![l] = target[p]]
    BY <1>2, <1>k, <1>a, LiftFacts, LienAssumption DEF LiftLien
  <2>3. a \in Account /\ accts[a] \in AccountRow
    BY <1>0, <2>1, LienAssumption DEF TypeOK, DataTypeOK
  <2>4. /\ accts'[a] = [accts[a] EXCEPT !.lienAmount = accts[a].lienAmount + (-LienAmount[l])]
        /\ \A b \in Account \ {a} : accts'[b] = accts[b]
    BY <1>a, <2>1, SetHoldEffect
  <2>5. accts'[a].lienAmount = accts[a].lienAmount - LienAmount[l]
    BY <2>1, <2>3, <2>4 DEF AccountRow
  <2>6. HeldOn(a)' = HeldOn(a) - LienAmount[l]
    BY <1>0, <1>a, <2>1, HeldChanges
  <2>7. \A b \in Account \ {a} : HeldOn(b)' = HeldOn(b)
    BY <1>0, <1>a, <2>1, HeldChanges DEF LienStatus
  <2>8. accts'[a].lienAmount = HeldOn(a)'
    BY <2>3, <2>5, <2>6 DEF HoldsMatchLiens
  <2> QED BY <2>4, <2>7, <2>8 DEF HoldsMatchLiens
<1> QED BY <1>1, <1>2

(* A step that changes neither liens nor what is held keeps the totals. *)
LEMMA SameHoldsKept ==
  ASSUME HoldsMatchLiens, liens' = liens,
         \A a \in Account : accts'[a].lienAmount = accts[a].lienAmount
  PROVE  HoldsMatchLiens'
  BY DEF HoldsMatchLiens, HeldOn

(* The held amount of every account is the sum of its active liens, whatever the interleaving
   of liens placed, released and expired, of postings and of restrictions. *)
THEOREM HoldsAddUp == Spec => []HoldsMatchLiens
<1>1. Init => HoldsMatchLiens
  <2> SUFFICES ASSUME Init, NEW a \in Account PROVE accts[a].lienAmount = HeldOn(a)
    BY DEF HoldsMatchLiens
  <2>1. {l \in Lien : LienAccount[l] = a /\ liens[l] = "active"}
          = {l \in OpeningLiens : LienAccount[l] = a}
    BY OpeningAssumption DEF Init
  <2>2. HeldOn(a) = SumFunctionOnSet(LienAmount, {l \in OpeningLiens : LienAccount[l] = a})
    BY <2>1, Zenon DEF HeldOn
  <2> QED BY <2>2, HoldsAssumption DEF Init
<1>2. IInv /\ HoldsMatchLiens /\ [Next]_vars => HoldsMatchLiens'
  <2> SUFFICES ASSUME IInv, HoldsMatchLiens, [Next]_vars PROVE HoldsMatchLiens'
    OBVIOUS
  <2>1. ASSUME UNCHANGED data PROVE HoldsMatchLiens'
    BY <2>1, SameHoldsKept DEF data
  <2>2. ASSUME NEW p \in Proc, Update(p) PROVE HoldsMatchLiens'
    BY <2>2, UpdateEffect, SameHoldsKept DEF Update
  <2>3. ASSUME NEW p \in Proc, Post(p) PROVE HoldsMatchLiens'
    <3>1. \A a \in Account : accts'[a].lienAmount = accts[a].lienAmount
      BY <2>3 DEF Post, PostedRow, IInv, TypeOK, DataTypeOK, AccountRow
    <3> QED BY <2>3, <3>1, SameHoldsKept DEF Post
  <2> QED BY <2>1, <2>2, <2>3, QuietSteps, HoldKeepsHolds DEF Next, Work, QuietWork
<1> QED BY <1>1, <1>2, Invariance, PTL DEF Spec

-----------------------------------------------------------------------------
(* Journals: the lines of a posting and what they add up to.                 *)

(* Every row a payload names, on either side. *)
Ids(pl) == DebitIds(pl) \cup CreditIds(pl)

(* What an id is debited, credited or charged by its leg. *)
DebitOf(pl)  == [i \in Ids(pl) |-> IF i \in DebitIds(pl) THEN AmountOf(pl, i) ELSE 0]
CreditOf(pl) == [i \in Ids(pl) |-> IF i \in CreditIds(pl) THEN AmountOf(pl, i) ELSE 0]
FeeOf(pl)    == [i \in Ids(pl) |-> IF i \in DebitIds(pl) THEN FeeAmount(pl) ELSE 0]

(* The line of a leg, and the line that charges an account the fee. *)
LedgerBehind(i) == IF i \in Account THEN ControlGl[i] ELSE i
LegLine(pl) ==
  [i \in Ids(pl) |-> Line(<<i, "leg">>, LedgerBehind(i), DebitOf(pl)[i], CreditOf(pl)[i])]
FeeLine(pl) == [i \in Ids(pl) |-> Line(<<i, "fee">>, LedgerBehind(i), FeeAmount(pl), 0)]

Legs(pl, I) == {LegLine(pl)[i] : i \in I}
Fees(pl, I) == {FeeLine(pl)[i] : i \in I}

(* Finitely many lines with whole amounts. *)
AreLines(lines) == IsFiniteSet(lines) /\ \A e \in lines : e.debit \in Int /\ e.credit \in Int

(* The ids of a payload are finitely many accounts and ledgers, each on one side, and every leg
   has an amount. *)
LEMMA IdsType ==
  ASSUME NEW pl, IsPayload(pl)
  PROVE  /\ IsFiniteSet(Ids(pl)) /\ Ids(pl) \subseteq Account \cup Gl
         /\ \A i \in Ids(pl) : AmountOf(pl, i) \in Int
         /\ Accepted(pl) => DebitIds(pl) \cap CreditIds(pl) = {}
         /\ FeeAmount(pl) \in Int
<1>1. Ids(pl) \subseteq Account \cup Gl
  BY DEF Ids, DebitIds, CreditIds, CustomerSide, IsPayload, IsLegs
<1>2. IsFiniteSet(Account \cup Gl)
  BY FiniteAssumption, FS_Union
<1>3. IsFiniteSet(Ids(pl))
  BY <1>1, <1>2, FS_Subset
<1>4. \A i \in Ids(pl) : AmountOf(pl, i) \in Int
  <2> TAKE i \in Ids(pl)
  <2>1. i \in DOMAIN pl.customerAccounts \/ i \in DOMAIN pl.debits \/ i \in DOMAIN pl.credits
    BY DEF Ids, DebitIds, CreditIds, CustomerSide
  <2> QED BY <2>1 DEF AmountOf, IsPayload, IsLegs
<1>5. Accepted(pl) => DebitIds(pl) \cap CreditIds(pl) = {}
  BY DEF Accepted, DistinctIds, DebitIds, CreditIds, CustomerSide
<1> QED BY <1>1, <1>3, <1>4, <1>5, FeeType DEF IsPayload

(* What lines add up to is a number. *)
LEMMA LinesSum ==
  ASSUME NEW lines, AreLines(lines)
  PROVE  /\ Debited(lines) = SumFunctionOnSet([e \in lines |-> e.debit], lines)
         /\ Credited(lines) = SumFunctionOnSet([e \in lines |-> e.credit], lines)
         /\ Debited(lines) \in Int /\ Credited(lines) \in Int
<1>1. /\ Debited(lines) = SumFunctionOnSet([e \in lines |-> e.debit], lines)
      /\ Credited(lines) = SumFunctionOnSet([e \in lines |-> e.credit], lines)
  <2>1. /\ DOMAIN [e \in lines |-> e.debit] = lines
        /\ DOMAIN [e \in lines |-> e.credit] = lines
    OBVIOUS
  <2> QED BY <2>1, Zenon DEF Debited, Credited, SumFunction
<1> DEFINE D == [e \in lines |-> e.debit]  C == [e \in lines |-> e.credit]
<1>2. (\A e \in lines : D[e] \in Int) /\ (\A e \in lines : C[e] \in Int) /\ IsFiniteSet(lines)
  BY DEF AreLines
<1>3. SumFunctionOnSet(D, lines) \in Int /\ SumFunctionOnSet(C, lines) \in Int
  <2> HIDE DEF D, C
  <2> QED BY <1>2, SumType
<1> QED BY <1>1, <1>3

(* Two separate sets of lines add up to their two sums. *)
LEMMA LinesUnion ==
  ASSUME NEW L, NEW M, AreLines(L), AreLines(M), L \cap M = {}
  PROVE  /\ AreLines(L \cup M)
         /\ Debited(L \cup M) = Debited(L) + Debited(M)
         /\ Credited(L \cup M) = Credited(L) + Credited(M)
<1> DEFINE D(S) == [e \in S |-> e.debit]  C(S) == [e \in S |-> e.credit]
<1>1. AreLines(L \cup M)
  BY FS_Union DEF AreLines
<1>2. /\ \A e \in L \cup M : D(L \cup M)[e] \in Int /\ C(L \cup M)[e] \in Int
      /\ \A e \in L : D(L \cup M)[e] = D(L)[e] /\ C(L \cup M)[e] = C(L)[e]
      /\ \A e \in M : D(L \cup M)[e] = D(M)[e] /\ C(L \cup M)[e] = C(M)[e]
  BY <1>1 DEF AreLines
<1>3. IsFiniteSet(L) /\ IsFiniteSet(M)
  BY DEF AreLines
<1> HIDE DEF D, C
<1>4. /\ SumFunctionOnSet(D(L \cup M), L \cup M)
           = SumFunctionOnSet(D(L \cup M), L) + SumFunctionOnSet(D(L \cup M), M)
      /\ SumFunctionOnSet(C(L \cup M), L \cup M)
           = SumFunctionOnSet(C(L \cup M), L) + SumFunctionOnSet(C(L \cup M), M)
  BY <1>2, <1>3, SumUnion
<1>5. /\ SumFunctionOnSet(D(L \cup M), L) = SumFunctionOnSet(D(L), L)
      /\ SumFunctionOnSet(C(L \cup M), L) = SumFunctionOnSet(C(L), L)
  <2>1. /\ \A e \in L : D(L \cup M)[e] = D(L)[e] /\ D(L \cup M)[e] \in Int
        /\ \A e \in L : C(L \cup M)[e] = C(L)[e] /\ C(L \cup M)[e] \in Int
    BY <1>2
  <2>2. SumFunctionOnSet(D(L \cup M), L) = SumFunctionOnSet(D(L), L)
    BY <1>3, <2>1, SumSame
  <2>3. SumFunctionOnSet(C(L \cup M), L) = SumFunctionOnSet(C(L), L)
    BY <1>3, <2>1, SumSame
  <2> QED BY <2>2, <2>3
<1>6. /\ SumFunctionOnSet(D(L \cup M), M) = SumFunctionOnSet(D(M), M)
      /\ SumFunctionOnSet(C(L \cup M), M) = SumFunctionOnSet(C(M), M)
  <2>1. /\ \A e \in M : D(L \cup M)[e] = D(M)[e] /\ D(L \cup M)[e] \in Int
        /\ \A e \in M : C(L \cup M)[e] = C(M)[e] /\ C(L \cup M)[e] \in Int
    BY <1>2
  <2>2. SumFunctionOnSet(D(L \cup M), M) = SumFunctionOnSet(D(M), M)
    BY <1>3, <2>1, SumSame
  <2>3. SumFunctionOnSet(C(L \cup M), M) = SumFunctionOnSet(C(M), M)
    BY <1>3, <2>1, SumSame
  <2> QED BY <2>2, <2>3
<1>7. /\ Debited(L) = SumFunctionOnSet(D(L), L) /\ Credited(L) = SumFunctionOnSet(C(L), L)
      /\ Debited(M) = SumFunctionOnSet(D(M), M) /\ Credited(M) = SumFunctionOnSet(C(M), M)
      /\ Debited(L \cup M) = SumFunctionOnSet(D(L \cup M), L \cup M)
      /\ Credited(L \cup M) = SumFunctionOnSet(C(L \cup M), L \cup M)
  BY <1>1, LinesSum DEF D, C
<1> QED BY <1>1, <1>4, <1>5, <1>6, <1>7

(* The lines of some of the legs add up to what these legs debit and credit. *)
LEMMA LegsSum ==
  ASSUME NEW pl, IsPayload(pl), NEW I \in SUBSET Ids(pl)
  PROVE  /\ AreLines(Legs(pl, I))
         /\ Debited(Legs(pl, I)) = SumFunctionOnSet(DebitOf(pl), I)
         /\ Credited(Legs(pl, I)) = SumFunctionOnSet(CreditOf(pl), I)
<1> DEFINE h == LegLine(pl)  L == {h[i] : i \in I}
           D == [e \in L |-> e.debit]  C == [e \in L |-> e.credit]
<1>1. IsFiniteSet(I) /\ \A i \in Ids(pl) : AmountOf(pl, i) \in Int
  BY IdsType, FS_Subset
<1>2. \A i, j \in I : h[i] = h[j] => i = j
  BY DEF LegLine, Line
<1>3. \A i \in I : /\ h[i].debit = DebitOf(pl)[i] /\ h[i].credit = CreditOf(pl)[i]
                   /\ DebitOf(pl)[i] \in Int /\ CreditOf(pl)[i] \in Int
  BY <1>1 DEF LegLine, Line, DebitOf, CreditOf
<1> HIDE DEF h
<1>4. \A i \in I : D[h[i]] = DebitOf(pl)[i] /\ C[h[i]] = CreditOf(pl)[i]
  BY <1>3
<1>5. \A e \in L : e.debit \in Int /\ e.credit \in Int
  BY <1>3
<1> HIDE DEF D, C
<1>6. /\ IsFiniteSet({h[i] : i \in I})
      /\ SumFunctionOnSet(D, {h[i] : i \in I}) = SumFunctionOnSet(DebitOf(pl), I)
  <2>1. \A i \in I : DebitOf(pl)[i] = D[h[i]] /\ DebitOf(pl)[i] \in Int
    BY <1>3, <1>4
  <2> QED BY <1>1, <1>2, <2>1, SumRenamed
<1>7. SumFunctionOnSet(C, {h[i] : i \in I}) = SumFunctionOnSet(CreditOf(pl), I)
  BY <1>1, <1>2, <1>3, <1>4, SumRenamed
<1>8. AreLines(L)
  BY <1>5, <1>6 DEF AreLines
<1>9. Debited(L) = SumFunctionOnSet(D, L) /\ Credited(L) = SumFunctionOnSet(C, L)
  BY <1>8, LinesSum DEF D, C
<1>10. L = Legs(pl, I)
  BY DEF h, Legs
<1> QED BY <1>6, <1>7, <1>8, <1>9, <1>10, Zenon

(* The lines that charge some of the debited accounts add up to a fee for each. *)
LEMMA FeesSum ==
  ASSUME NEW pl, IsPayload(pl), NEW I \in SUBSET DebitIds(pl)
  PROVE  /\ AreLines(Fees(pl, I))
         /\ Debited(Fees(pl, I)) = SumFunctionOnSet(FeeOf(pl), I)
         /\ Credited(Fees(pl, I)) = 0
<1> DEFINE h == FeeLine(pl)  L == {h[i] : i \in I}  Zero == [i \in I |-> 0]
           D == [e \in L |-> e.debit]  C == [e \in L |-> e.credit]
<1>1. IsFiniteSet(I) /\ FeeAmount(pl) \in Int /\ I \subseteq Ids(pl)
  BY IdsType, FS_Subset DEF Ids
<1>2. \A i, j \in I : h[i] = h[j] => i = j
  BY <1>1 DEF FeeLine, Line
<1>3. \A i \in I : /\ h[i].debit = FeeOf(pl)[i] /\ h[i].credit = 0
                   /\ FeeOf(pl)[i] \in Int /\ Zero[i] = 0 /\ Zero[i] \in Int
  BY <1>1 DEF FeeLine, Line, FeeOf
<1> HIDE DEF h, Zero
<1>4. \A i \in I : D[h[i]] = FeeOf(pl)[i] /\ C[h[i]] = Zero[i]
  BY <1>3
<1>5. \A e \in L : e.debit \in Int /\ e.credit \in Int
  BY <1>3
<1> HIDE DEF D, C
<1>6. /\ IsFiniteSet({h[i] : i \in I})
      /\ SumFunctionOnSet(D, {h[i] : i \in I}) = SumFunctionOnSet(FeeOf(pl), I)
  <2>1. \A i \in I : FeeOf(pl)[i] = D[h[i]] /\ FeeOf(pl)[i] \in Int
    BY <1>3, <1>4
  <2> QED BY <1>1, <1>2, <2>1, SumRenamed
<1>7. SumFunctionOnSet(C, {h[i] : i \in I}) = SumFunctionOnSet(Zero, I)
  BY <1>1, <1>2, <1>3, <1>4, SumRenamed
<1>8. SumFunctionOnSet(Zero, I) = 0
  <2>1. {} \in SUBSET I /\ \A i \in I \ {} : Zero[i] = 0
    BY <1>3
  <2>2. SumFunctionOnSet(Zero, I) = SumFunctionOnSet(Zero, {})
    BY <1>1, <1>3, <2>1, SumOfPart
  <2> QED BY <2>2, SumEmpty
<1>9. AreLines(L)
  BY <1>5, <1>6 DEF AreLines
<1>10. Debited(L) = SumFunctionOnSet(D, L) /\ Credited(L) = SumFunctionOnSet(C, L)
  BY <1>9, LinesSum DEF D, C
<1>11. L = Fees(pl, I)
  BY DEF h, Fees
<1> QED BY <1>6, <1>7, <1>8, <1>9, <1>10, <1>11, Zenon

(* A leg and a fee are two lines. *)
LEMMA LegsAndFeesApart ==
  ASSUME NEW pl, NEW I \in SUBSET Ids(pl), NEW J \in SUBSET Ids(pl)
  PROVE  Legs(pl, I) \cap Fees(pl, J) = {}
<1>1. \A i \in I : LegLine(pl)[i].of = <<i, "leg">>
  BY DEF LegLine, Line
<1>2. \A i \in J : FeeLine(pl)[i].of = <<i, "fee">>
  BY DEF FeeLine, Line
<1>3. \A i \in I, j \in J : <<i, "leg">> # <<j, "fee">>
  OBVIOUS
<1> QED BY <1>1, <1>2, <1>3 DEF Legs, Fees

(* The lines of a posting are the lines of its legs, of the fee it charges and of the ledger
   that earns the fee. *)
LEMMA JournalLines ==
  ASSUME NEW pl, IsPayload(pl), Accepted(pl)
  PROVE  JournalOf(pl).lines =
           Legs(pl, Ids(pl)) \cup
             (IF HasFee(pl)
              THEN Fees(pl, DebitAccounts(pl)) \cup {Line(<<pl.feeGl, "fee">>, pl.feeGl, 0, FeeAmount(pl))}
              ELSE {})
<1>1. Ids(pl) \subseteq Account \cup Gl /\ DebitIds(pl) \cap CreditIds(pl) = {}
      /\ Account \cap Gl = {}
  BY IdsType, TenantAssumption
<1>2. AccountLines(pl) \cup LedgerLines(pl) \subseteq Legs(pl, Ids(pl))
  <2>1. ASSUME NEW i \in Ids(pl)
        PROVE  Line(<<i, "leg">>, LedgerBehind(i), DebitOf(pl)[i], CreditOf(pl)[i]) \in Legs(pl, Ids(pl))
    BY DEF Legs, LegLine
  <2>2. ASSUME NEW i \in DebitIds(pl)
        PROVE  i \in Ids(pl) /\ DebitOf(pl)[i] = AmountOf(pl, i) /\ CreditOf(pl)[i] = 0
    BY <1>1 DEF Ids, DebitOf, CreditOf
  <2>3. ASSUME NEW i \in CreditIds(pl)
        PROVE  i \in Ids(pl) /\ CreditOf(pl)[i] = AmountOf(pl, i) /\ DebitOf(pl)[i] = 0
    BY <1>1 DEF Ids, DebitOf, CreditOf
  <2>4. (\A i \in Account : LedgerBehind(i) = ControlGl[i]) /\ (\A i \in Gl : LedgerBehind(i) = i)
    BY <1>1 DEF LedgerBehind
  <2>5. \A i \in DebitAccounts(pl) : Line(<<i, "leg">>, ControlGl[i], AmountOf(pl, i), 0) \in Legs(pl, Ids(pl))
    BY <2>1, <2>2, <2>4 DEF DebitAccounts
  <2>6. \A i \in CreditAccounts(pl) : Line(<<i, "leg">>, ControlGl[i], 0, AmountOf(pl, i)) \in Legs(pl, Ids(pl))
    BY <2>1, <2>3, <2>4 DEF CreditAccounts
  <2>7. \A i \in DebitIds(pl) \cap Gl : Line(<<i, "leg">>, i, AmountOf(pl, i), 0) \in Legs(pl, Ids(pl))
    BY <2>1, <2>2, <2>4
  <2>8. \A i \in CreditIds(pl) \cap Gl : Line(<<i, "leg">>, i, 0, AmountOf(pl, i)) \in Legs(pl, Ids(pl))
    BY <2>1, <2>3, <2>4
  <2> QED BY <2>5, <2>6, <2>7, <2>8 DEF AccountLines, LedgerLines
<1>3. Legs(pl, Ids(pl)) \subseteq AccountLines(pl) \cup LedgerLines(pl)
  <2> SUFFICES ASSUME NEW i \in Ids(pl)
               PROVE  Line(<<i, "leg">>, LedgerBehind(i), DebitOf(pl)[i], CreditOf(pl)[i])
                        \in AccountLines(pl) \cup LedgerLines(pl)
    BY DEF Legs, LegLine
  <2>1. CASE i \in DebitIds(pl)
    <3>1. DebitOf(pl)[i] = AmountOf(pl, i) /\ CreditOf(pl)[i] = 0
      BY <1>1, <2>1 DEF DebitOf, CreditOf
    <3>2. CASE i \in Account
      BY <2>1, <3>1, <3>2 DEF LedgerBehind, DebitAccounts, AccountLines
    <3>3. CASE i \in Gl /\ i \notin Account
      BY <2>1, <3>1, <3>3 DEF LedgerBehind, LedgerLines
    <3> QED BY <1>1, <3>2, <3>3
  <2>2. CASE i \in CreditIds(pl)
    <3>1. CreditOf(pl)[i] = AmountOf(pl, i) /\ DebitOf(pl)[i] = 0
      BY <1>1, <2>2 DEF DebitOf, CreditOf
    <3>2. CASE i \in Account
      BY <2>2, <3>1, <3>2 DEF LedgerBehind, CreditAccounts, AccountLines
    <3>3. CASE i \in Gl /\ i \notin Account
      BY <2>2, <3>1, <3>3 DEF LedgerBehind, LedgerLines
    <3> QED BY <1>1, <3>2, <3>3
  <2> QED BY <2>1, <2>2 DEF Ids
<1>4. FeeLines(pl) = IF HasFee(pl)
                     THEN Fees(pl, DebitAccounts(pl)) \cup {Line(<<pl.feeGl, "fee">>, pl.feeGl, 0, FeeAmount(pl))}
                     ELSE {}
  <2>1. Fees(pl, DebitAccounts(pl)) = {Line(<<a, "fee">>, ControlGl[a], FeeAmount(pl), 0) : a \in DebitAccounts(pl)}
    <3>1. \A a \in DebitAccounts(pl) : FeeLine(pl)[a] = Line(<<a, "fee">>, ControlGl[a], FeeAmount(pl), 0)
      BY DEF FeeLine, DebitAccounts, Ids, LedgerBehind
    <3> QED BY <3>1 DEF Fees
  <2> QED BY <2>1 DEF FeeLines
<1>5. JournalOf(pl).lines = AccountLines(pl) \cup FeeLines(pl) \cup LedgerLines(pl)
  BY DEF JournalOf
<1> HIDE DEF Line
<1> QED BY <1>2, <1>3, <1>4, <1>5

(* One line. *)
LEMMA LineSum ==
  ASSUME NEW e, e.debit \in Int, e.credit \in Int
  PROVE  AreLines({e}) /\ Debited({e}) = e.debit /\ Credited({e}) = e.credit
<1> DEFINE D == [x \in {e} |-> x.debit]  C == [x \in {e} |-> x.credit]
<1>1. AreLines({e})
  BY FS_Singleton DEF AreLines
<1>2. D[e] = e.debit /\ C[e] = e.credit
  OBVIOUS
<1>3. Debited({e}) = SumFunctionOnSet(D, {e}) /\ Credited({e}) = SumFunctionOnSet(C, {e})
  BY <1>1, LinesSum
<1> HIDE DEF D, C
<1>4. SumFunctionOnSet(D, {e}) = D[e] /\ SumFunctionOnSet(C, {e}) = C[e]
  BY <1>2, SumOne
<1> QED BY <1>1, <1>2, <1>3, <1>4

(* Some of the lines. *)
LEMMA SomeLines ==
  ASSUME NEW L, AreLines(L), NEW M \in SUBSET L
  PROVE  AreLines(M)
  BY FS_Subset DEF AreLines

(* The legs of an accepted payload balance. *)
LEMMA LegsBalance ==
  ASSUME NEW pl, IsPayload(pl), Accepted(pl)
  PROVE  Debited(Legs(pl, Ids(pl))) = Credited(Legs(pl, Ids(pl)))
<1> DEFINE D == [i \in DebitIds(pl) |-> AmountOf(pl, i)]
           C == [i \in CreditIds(pl) |-> AmountOf(pl, i)]
<1>1. /\ IsFiniteSet(Ids(pl)) /\ IsFiniteSet(DebitIds(pl)) /\ IsFiniteSet(CreditIds(pl))
      /\ DebitIds(pl) \in SUBSET Ids(pl) /\ CreditIds(pl) \in SUBSET Ids(pl)
  <2>1. DebitIds(pl) \in SUBSET Ids(pl) /\ CreditIds(pl) \in SUBSET Ids(pl)
    BY DEF Ids
  <2> QED BY <2>1, IdsType, FS_Subset
<1>2. /\ \A i \in Ids(pl) : DebitOf(pl)[i] \in Int /\ CreditOf(pl)[i] \in Int
      /\ \A i \in Ids(pl) \ DebitIds(pl) : DebitOf(pl)[i] = 0
      /\ \A i \in Ids(pl) \ CreditIds(pl) : CreditOf(pl)[i] = 0
  BY IdsType DEF DebitOf, CreditOf
<1>3. /\ \A i \in DebitIds(pl) : DebitOf(pl)[i] = D[i] /\ DebitOf(pl)[i] \in Int
      /\ \A i \in CreditIds(pl) : CreditOf(pl)[i] = C[i] /\ CreditOf(pl)[i] \in Int
  BY <1>1, <1>2 DEF DebitOf, CreditOf
<1>4. Total(pl, DebitIds(pl)) = SumFunctionOnSet(D, DebitIds(pl))
  <2>1. DOMAIN D = DebitIds(pl)
    OBVIOUS
  <2> QED BY <2>1, Zenon DEF Total, SumFunction
<1>5. Total(pl, CreditIds(pl)) = SumFunctionOnSet(C, CreditIds(pl))
  <2>1. DOMAIN C = CreditIds(pl)
    OBVIOUS
  <2> QED BY <2>1, Zenon DEF Total, SumFunction
<1> HIDE DEF D, C
<1>6. SumFunctionOnSet(DebitOf(pl), Ids(pl)) = SumFunctionOnSet(DebitOf(pl), DebitIds(pl))
  BY <1>1, <1>2, SumOfPart
<1>7. SumFunctionOnSet(DebitOf(pl), DebitIds(pl)) = SumFunctionOnSet(D, DebitIds(pl))
  BY <1>1, <1>3, SumSame
<1>8. SumFunctionOnSet(CreditOf(pl), Ids(pl)) = SumFunctionOnSet(CreditOf(pl), CreditIds(pl))
  BY <1>1, <1>2, SumOfPart
<1>9. SumFunctionOnSet(CreditOf(pl), CreditIds(pl)) = SumFunctionOnSet(C, CreditIds(pl))
  BY <1>1, <1>3, SumSame
<1>10. Total(pl, DebitIds(pl)) = Total(pl, CreditIds(pl))
  BY DEF Accepted
<1>11. /\ Debited(Legs(pl, Ids(pl))) = SumFunctionOnSet(DebitOf(pl), Ids(pl))
       /\ Credited(Legs(pl, Ids(pl))) = SumFunctionOnSet(CreditOf(pl), Ids(pl))
  BY LegsSum
<1> QED BY <1>4, <1>5, <1>6, <1>7, <1>8, <1>9, <1>10, <1>11

(* What a fee needs: one account that pays it and a ledger that earns it. *)
LEMMA FeeFacts ==
  ASSUME NEW pl, IsPayload(pl), Accepted(pl), Resolvable(pl), HasFee(pl)
  PROVE  /\ pl.feeGl \in Gl /\ pl.feeGl \in Ledgers(pl)
         /\ \E s \in DebitIds(pl) \cap Account : DebitAccounts(pl) = {s}
<1>1. pl.feeGl \in Gl
  BY DEF IsPayload, Accepted
<1>2. DebitAccounts(pl) \subseteq Account /\ IsFiniteSet(DebitAccounts(pl))
  BY FiniteAssumption, FS_Subset DEF DebitAccounts
<1>3. Cardinality(DebitAccounts(pl)) = 1
  BY DEF Resolvable, IsAcctToAcctTransfer
<1>4. PICK s : DebitAccounts(pl) = {s}
  BY <1>2, <1>3, FS_Singleton
<1> QED BY <1>1, <1>4 DEF DebitAccounts, Ledgers

(* The lines of a posting that commits balance, the fee included. *)
LEMMA JournalBalances ==
  ASSUME NEW pl, IsPayload(pl), Accepted(pl), Resolvable(pl)
  PROVE  /\ AreLines(JournalOf(pl).lines)
         /\ Debited(JournalOf(pl).lines) = Credited(JournalOf(pl).lines)
<1> DEFINE L == Legs(pl, Ids(pl))
           F == Fees(pl, DebitAccounts(pl))
           e == Line(<<pl.feeGl, "fee">>, pl.feeGl, 0, FeeAmount(pl))
<1>1. AreLines(L) /\ Debited(L) = Credited(L) /\ Debited(L) \in Int
  BY LegsSum, LegsBalance, LinesSum
<1>2. JournalOf(pl).lines = L \cup (IF HasFee(pl) THEN F \cup {e} ELSE {})
  BY JournalLines
<1>3. CASE ~HasFee(pl)
  <2>1. JournalOf(pl).lines = L
    BY <1>2, <1>3
  <2> QED BY <1>1, <2>1, Zenon
<1>4. CASE HasFee(pl)
  <2>1. PICK s \in DebitIds(pl) \cap Account : DebitAccounts(pl) = {s}
    BY <1>4, FeeFacts
  <2>2. pl.feeGl \in Gl /\ pl.feeGl \notin Account /\ FeeAmount(pl) \in Int
    BY <1>4, FeeFacts, IdsType, TenantAssumption
  <2>3. DebitAccounts(pl) \in SUBSET DebitIds(pl) /\ DebitAccounts(pl) \in SUBSET Ids(pl)
    BY DEF DebitAccounts, Ids
  <2>4. AreLines(F) /\ Debited(F) = SumFunctionOnSet(FeeOf(pl), DebitAccounts(pl)) /\ Credited(F) = 0
    BY <2>3, FeesSum
  <2>5. FeeOf(pl)[s] = FeeAmount(pl)
    BY <2>1 DEF FeeOf, Ids
  <2>6. SumFunctionOnSet(FeeOf(pl), {s}) = FeeAmount(pl)
    BY <2>2, <2>5, SumOne
  <2>7. Debited(F) = FeeAmount(pl)
    BY <2>1, <2>4, <2>6
  <2>8. e.debit = 0 /\ e.credit = FeeAmount(pl) /\ e.of = <<pl.feeGl, "fee">>
    BY DEF Line
  <2>9. AreLines({e}) /\ Debited({e}) = 0 /\ Credited({e}) = FeeAmount(pl)
    <3> HIDE DEF e
    <3> QED BY <2>2, <2>8, LineSum
  <2>10. F \cap {e} = {}
    <3>1. FeeLine(pl)[s].of = <<s, "fee">> /\ s # pl.feeGl
      BY <2>1, <2>2 DEF FeeLine, Line, Ids
    <3>2. \A x \in F : x = FeeLine(pl)[s]
      BY <2>1 DEF Fees
    <3>3. <<s, "fee">> # <<pl.feeGl, "fee">>
      BY <3>1
    <3> HIDE DEF F, e
    <3> QED BY <2>8, <3>1, <3>2, <3>3
  <2>11. L \cap (F \cup {e}) = {}
    <3>1. L \cap F = {}
      BY <2>3, LegsAndFeesApart
    <3>2. \A i \in Ids(pl) : LegLine(pl)[i].of = <<i, "leg">>
      BY DEF LegLine, Line
    <3>3. \A x \in L : \E i \in Ids(pl) : x.of = <<i, "leg">>
      BY <3>2 DEF Legs
    <3>4. \A i \in Ids(pl) : <<i, "leg">> # <<pl.feeGl, "fee">>
      OBVIOUS
    <3> HIDE DEF L, F, e
    <3>5. e \notin L
      BY <2>8, <3>3, <3>4
    <3> QED BY <3>1, <3>5
  <2> HIDE DEF L, F, e
  <2>12. AreLines(F \cup {e}) /\ Debited(F \cup {e}) = FeeAmount(pl) /\ Credited(F \cup {e}) = FeeAmount(pl)
    <3>1. /\ AreLines(F \cup {e})
          /\ Debited(F \cup {e}) = Debited(F) + Debited({e})
          /\ Credited(F \cup {e}) = Credited(F) + Credited({e})
      BY <2>4, <2>9, <2>10, LinesUnion
    <3> QED BY <2>2, <2>4, <2>7, <2>9, <3>1
  <2>13. /\ AreLines(L \cup (F \cup {e}))
         /\ Debited(L \cup (F \cup {e})) = Debited(L) + Debited(F \cup {e})
         /\ Credited(L \cup (F \cup {e})) = Credited(L) + Credited(F \cup {e})
    BY <1>1, <2>11, <2>12, LinesUnion
  <2>14. JournalOf(pl).lines = L \cup (F \cup {e})
    BY <1>2, <1>4
  <2>15. Debited(L \cup (F \cup {e})) = Credited(L \cup (F \cup {e}))
    BY <1>1, <2>12, <2>13
  <2> QED BY <2>13, <2>14, <2>15, Zenon
<1> QED BY <1>3, <1>4

(* A posting that commits finds its accounts and ledgers, and may book the ledgers. *)
LEMMA PostVerdict ==
  ASSUME IInv, NEW p \in Proc, Post(p)
  PROVE  /\ Resolvable(PayloadOf(job[p]))
         /\ Ledgers(PayloadOf(job[p])) \subseteq DirectGls
<1>1. job[p].kind \in PostingKinds /\ Outcome(p) = "ok"
  BY DEF Post, Committing
<1>2. Verdict(PayloadOf(job[p]), snap[p], transactions) = "ok"
  BY <1>1 DEF Outcome, PostingKinds
<1> QED BY <1>2 DEF Verdict

(* Journals are finitely many, of finitely many lines each, and written by processes that are
   done. *)
Written ==
  /\ IsFiniteSet(journals)
  /\ \A j \in journals : AreLines(j.entry.lines) /\ pc[j.id] = "done"

(* A committed posting adds a balanced journal. *)
LEMMA PostKeepsJournals ==
  ASSUME IInv, Written, JournalsBalance, NEW p \in Proc, Post(p)
  PROVE  Written' /\ JournalsBalance'
<1>1. PICK new : new = [id |-> p, entry |-> JournalOf(PayloadOf(job[p]))]
  OBVIOUS
<1>2. journals' = journals \cup {new} /\ Finish(p, "ok") /\ "ok" \in Answer
  BY <1>1 DEF Post, Answer
<1>3. pc'[p] = "done" /\ \A q \in Proc \ {p} : pc'[q] = pc[q]
  BY <1>2, FinishEffect DEF IInv, TypeOK
<1>4. AreLines(new.entry.lines) /\ Debited(new.entry.lines) = Credited(new.entry.lines)
  <2>1. /\ AreLines(JournalOf(PayloadOf(job[p])).lines)
        /\ Debited(JournalOf(PayloadOf(job[p])).lines) = Credited(JournalOf(PayloadOf(job[p])).lines)
    BY PostFacts, PostVerdict, JournalBalances DEF Post
  <2>2. new.entry = JournalOf(PayloadOf(job[p]))
    BY <1>1
  <2> QED BY <2>1, <2>2
<1>5. new.id = p
  BY <1>1
<1>6. \A j \in journals : j.id \in Proc /\ pc'[j.id] = "done"
  BY <1>3 DEF Written, IInv, TypeOK, DataTypeOK
<1>7. IsFiniteSet(journals')
  BY <1>2, FS_AddElement DEF Written
<1>8. Written'
  BY <1>2, <1>3, <1>4, <1>5, <1>6, <1>7 DEF Written, AreLines
<1>9. JournalsBalance'
  BY <1>2, <1>4 DEF JournalsBalance, Debited, Credited
<1> QED BY <1>8, <1>9

(* A step that writes no journal keeps the journals it finds. *)
LEMMA SameJournalsKept ==
  ASSUME IInv, Written, NEW p \in Proc, \A q \in Proc \ {p} : pc'[q] = pc[q],
         pc[p] = "done" => pc'[p] = "done", journals' = journals
  PROVE  Written' /\ (JournalsBalance => JournalsBalance')
<1>1. \A j \in journals : j.id \in Proc
  BY DEF IInv, TypeOK, DataTypeOK
<1> QED BY <1>1 DEF Written, AreLines, JournalsBalance, Debited, Credited

(* A step of one process leaves the others where they are, and a done one stays done. *)
LEMMA OneMoves ==
  ASSUME IInv, NEW p \in Proc,
         (\E r \in Request : Start(p, r)) \/ Work(p) \/ Crash(p)
  PROVE  (\A q \in Proc \ {p} : pc'[q] = pc[q]) /\ pc[p] # "done"
<1> USE DEF Goto
<1>0. ProcTypeOK /\ pc \in [Proc -> Step]
  BY DEF IInv, TypeOK, ProcTypeOK
<1>1. ASSUME NEW r \in Request, Start(p, r)
      PROVE  (\A q \in Proc \ {p} : pc'[q] = pc[q]) /\ pc[p] # "done"
  BY <1>0, <1>1 DEF Start, StartPosting, RefusePosting, StartPlace, RefusePlace, StartLift,
                    StartUpdate, RefuseUpdate, Refuse, Serve, AskFor
<1>2. ASSUME NEW answer, Finish(p, answer)
      PROVE  \A q \in Proc \ {p} : pc'[q] = pc[q]
  BY <1>0, <1>2 DEF Finish
<1>3. ASSUME Work(p) \/ Crash(p)
      PROVE  \A q \in Proc \ {p} : pc'[q] = pc[q]
  <2>1. ASSUME LockAccount(p) \/ LockLien(p) PROVE \A q \in Proc \ {p} : pc'[q] = pc[q]
    BY <1>0, <2>1 DEF LockAccount, LockLien, AskFor
  <2>2. ASSUME LienSettled(p) \/ Post(p) \/ PlaceLien(p) \/ LiftLien(p) \/ RollBack(p)
                 \/ Update(p) \/ DeadlockVictim(p) \/ Crash(p)
        PROVE  \A q \in Proc \ {p} : pc'[q] = pc[q]
    BY <1>2, <2>2 DEF LienSettled, Post, PlaceLien, LiftLien, RollBack, Update, DeadlockVictim, Crash
  <2> QED BY <1>3, <2>1, <2>2 DEF Work
<1>4. ASSUME Work(p) \/ Crash(p) PROVE pc[p] # "done"
  <2>1. DeadlockVictim(p) => pc[p] = "lock"
    BY DEF DeadlockVictim, InWaitCycle
  <2> QED BY <1>4, <2>1 DEF Work, Crash, LockAccount, LockLien, LienSettled, Post, PlaceLien, LiftLien,
                            RollBack, Update, Committing
<1> QED BY <1>1, <1>3, <1>4

(* Every step keeps the journals balanced. *)
LEMMA NextJournals == IInv /\ Written /\ JournalsBalance /\ [Next]_vars => Written' /\ JournalsBalance'
<1> SUFFICES ASSUME IInv, Written, JournalsBalance, [Next]_vars
             PROVE  Written' /\ JournalsBalance'
  OBVIOUS
<1> DEFINE Kept == Written' /\ JournalsBalance'
<1>1. ASSUME NEW p \in Proc, Post(p) PROVE Kept
  BY <1>1, PostKeepsJournals
<1>2. ASSUME NEW p \in Proc, (\E r \in Request : Start(p, r)) \/ Work(p) \/ Crash(p),
             journals' = journals
      PROVE  Kept
  BY <1>2, OneMoves, SameJournalsKept
<1>3. ASSUME UNCHANGED <<journals, pc>> PROVE Kept
  BY <1>3 DEF Written, AreLines, JournalsBalance, Debited, Credited
<1>4. ASSUME NEW p \in Proc, Work(p) \/ Crash(p) PROVE Post(p) \/ journals' = journals
  BY <1>4, QuietSteps DEF Work, QuietWork, PlaceLien, LiftLien, Update, data
<1>5. ASSUME NEW p \in Proc, NEW r \in Request, Start(p, r) PROVE journals' = journals
  BY <1>5, QuietSteps DEF data
<1>6. (\E l \in Lien : ExpiryPasses(l)) \/ AllAnswered \/ UNCHANGED vars => UNCHANGED <<journals, pc>>
  BY DEF ExpiryPasses, AllAnswered, vars, data
<1> HIDE DEF Kept
<1>7. Kept
  BY <1>1, <1>2, <1>3, <1>4, <1>5, <1>6 DEF Next
<1> QED BY <1>7 DEF Kept

(* At the start there are no journals. *)
LEMMA NoJournals ==
  ASSUME Init
  PROVE  Written /\ JournalsBalance
  BY FS_EmptySet DEF Init, Written, JournalsBalance

(* Double entry: whatever is posted at once, and whichever of it fails, the lines of every
   journal debit what they credit. *)
THEOREM EveryJournalBalances == Spec => []JournalsBalance
<1>1. Init => Written /\ JournalsBalance
  BY NoJournals
<1>2. IInv /\ (Written /\ JournalsBalance) /\ [Next]_vars => (Written /\ JournalsBalance)'
  BY NextJournals
<1> QED BY <1>1, <1>2, Invariance, PTL DEF Spec

-----------------------------------------------------------------------------
(* Control ledgers: the accounts behind one move by what its journals say.   *)

(* What a posting does to the balance of an account it names. *)
LEMMA BalanceChange ==
  ASSUME NEW pl, IsPayload(pl), Accepted(pl), NEW a \in Parties(pl), NEW row \in AccountRow
  PROVE  /\ NewBookBalance(pl, a, row)
              = row.bookBalance + ((CreditOf(pl)[a] - DebitOf(pl)[a]) - FeeOf(pl)[a])
         /\ CreditOf(pl)[a] \in Int /\ DebitOf(pl)[a] \in Int /\ FeeOf(pl)[a] \in Int
<1>1. /\ a \in Ids(pl) /\ a \in Account
      /\ DebitAccounts(pl) = DebitIds(pl) \cap Account
      /\ a \in DebitIds(pl) \/ a \in CreditIds(pl)
  BY DEF Parties, DebitAccounts, CreditAccounts, Ids
<1>2. AmountOf(pl, a) \in Int /\ FeeAmount(pl) \in Int /\ row.bookBalance \in Int
  BY <1>1, IdsType DEF AccountRow
<1>3. CASE a \in DebitIds(pl)
  <2>1. a \notin CreditIds(pl)
    BY <1>3, IdsType
  <2>2. DebitOf(pl)[a] = AmountOf(pl, a) /\ CreditOf(pl)[a] = 0 /\ FeeOf(pl)[a] = FeeAmount(pl)
    BY <1>1, <1>3, <2>1 DEF DebitOf, CreditOf, FeeOf
  <2>3. NewBookBalance(pl, a, row) = row.bookBalance - (AmountOf(pl, a) + FeeAmount(pl))
    BY <1>1, <1>3 DEF NewBookBalance, TotalDebit
  <2> QED BY <1>2, <2>2, <2>3
<1>4. CASE a \notin DebitIds(pl)
  <2>1. DebitOf(pl)[a] = 0 /\ CreditOf(pl)[a] = AmountOf(pl, a) /\ FeeOf(pl)[a] = 0
    BY <1>1, <1>4 DEF DebitOf, CreditOf, FeeOf
  <2>2. NewBookBalance(pl, a, row) = row.bookBalance + AmountOf(pl, a)
    BY <1>1, <1>4 DEF NewBookBalance
  <2> QED BY <1>2, <2>1, <2>2
<1> QED BY <1>3, <1>4

(* The accounts behind a ledger that a payload names. *)
Touched(pl, g) == Ids(pl) \cap BehindLedger(g)

(* A posting writes on a control ledger exactly one line for each leg and each fee of an account
   behind it. *)
LEMMA ControlLines ==
  ASSUME NEW pl, IsPayload(pl), Accepted(pl), Resolvable(pl), Ledgers(pl) \subseteq DirectGls,
         NEW g, g \notin DirectGls
  PROVE  {e \in JournalOf(pl).lines : e.gl = g}
           = Legs(pl, Touched(pl, g)) \cup
               (IF HasFee(pl) THEN Fees(pl, Touched(pl, g) \cap DebitIds(pl)) ELSE {})
<1> DEFINE e == Line(<<pl.feeGl, "fee">>, pl.feeGl, 0, FeeAmount(pl))
           L == Legs(pl, Ids(pl))
           F == Fees(pl, DebitAccounts(pl))
           P == Touched(pl, g)
<1>1. /\ JournalOf(pl).lines = L \cup (IF HasFee(pl) THEN F \cup {e} ELSE {})
      /\ Ids(pl) \subseteq Account \cup Gl
  BY JournalLines, IdsType
<1>2. \A i \in Ids(pl) : i \notin Account => i # g
  BY <1>1 DEF Ledgers, PlainGls, Ids
<1>3. \A i \in Ids(pl) : LedgerBehind(i) = g <=> i \in P
  <2> TAKE i \in Ids(pl)
  <2>1. CASE i \in Account
    BY <2>1 DEF LedgerBehind, Touched, BehindLedger
  <2>2. CASE i \notin Account
    BY <1>2, <2>2 DEF LedgerBehind, Touched, BehindLedger
  <2> QED BY <2>1, <2>2
<1>4. \A i \in Ids(pl) : LegLine(pl)[i].gl = LedgerBehind(i) /\ FeeLine(pl)[i].gl = LedgerBehind(i)
  BY DEF LegLine, FeeLine, Line
<1>5. HasFee(pl) => e.gl # g
  BY FeeFacts DEF Line
<1>6. {x \in L : x.gl = g} = Legs(pl, P)
  <2>1. P \subseteq Ids(pl)
    BY DEF Touched
  <2> QED BY <1>3, <1>4, <2>1 DEF Legs
<1>7. {x \in F : x.gl = g} = Fees(pl, P \cap DebitIds(pl))
  <2>1. P \cap DebitIds(pl) \subseteq DebitAccounts(pl) /\ DebitAccounts(pl) \subseteq Ids(pl)
    BY DEF Touched, BehindLedger, DebitAccounts, Ids
  <2>2. \A i \in DebitAccounts(pl) : i \in DebitIds(pl)
    BY DEF DebitAccounts
  <2> QED BY <1>3, <1>4, <2>1, <2>2 DEF Fees
<1> HIDE DEF e, L, F, P
<1>8. CASE HasFee(pl)
  BY <1>1, <1>5, <1>6, <1>7, <1>8 DEF P
<1>9. CASE ~HasFee(pl)
  BY <1>1, <1>6, <1>9 DEF P
<1> QED BY <1>8, <1>9

(* What these lines add up to. *)
LEMMA ControlSums ==
  ASSUME NEW pl, IsPayload(pl), Accepted(pl), Resolvable(pl), Ledgers(pl) \subseteq DirectGls,
         NEW g, g \notin DirectGls, NEW M, M = {e \in JournalOf(pl).lines : e.gl = g}
  PROVE  /\ AreLines(M)
         /\ Debited(M) = SumFunctionOnSet(DebitOf(pl), Touched(pl, g))
                           + SumFunctionOnSet(FeeOf(pl), Touched(pl, g))
         /\ Credited(M) = SumFunctionOnSet(CreditOf(pl), Touched(pl, g))
<1> DEFINE P == Touched(pl, g)
           D == P \cap DebitIds(pl)
<1>1. /\ P \in SUBSET Ids(pl) /\ D \in SUBSET DebitIds(pl) /\ D \in SUBSET P
      /\ D \in SUBSET Ids(pl)
  BY DEF Touched
<1>2. IsFiniteSet(P) /\ IsFiniteSet(D) /\ FeeAmount(pl) \in Int
  BY <1>1, IdsType, FS_Subset
<1>3. AreLines(Legs(pl, P)) /\ Debited(Legs(pl, P)) = SumFunctionOnSet(DebitOf(pl), P)
      /\ Credited(Legs(pl, P)) = SumFunctionOnSet(CreditOf(pl), P)
  BY <1>1, LegsSum
<1>4. AreLines(Fees(pl, D)) /\ Debited(Fees(pl, D)) = SumFunctionOnSet(FeeOf(pl), D)
      /\ Credited(Fees(pl, D)) = 0
  BY <1>1, FeesSum
<1>5. /\ \A i \in P : FeeOf(pl)[i] \in Int
      /\ \A i \in P \ D : FeeOf(pl)[i] = 0
  BY <1>1, <1>2 DEF FeeOf
<1>6. SumFunctionOnSet(FeeOf(pl), P) = SumFunctionOnSet(FeeOf(pl), D)
  BY <1>1, <1>2, <1>5, SumOfPart
<1>7. M = Legs(pl, P) \cup (IF HasFee(pl) THEN Fees(pl, D) ELSE {})
  BY ControlLines
<1>8. Debited(Legs(pl, P)) \in Int /\ Credited(Legs(pl, P)) \in Int
  BY <1>3, LinesSum
<1> HIDE DEF P, D
<1>9. CASE HasFee(pl)
  <2>1. Legs(pl, P) \cap Fees(pl, D) = {}
    BY <1>1, LegsAndFeesApart
  <2>2. M = Legs(pl, P) \cup Fees(pl, D)
    BY <1>7, <1>9
  <2>3. /\ AreLines(M)
        /\ Debited(M) = Debited(Legs(pl, P)) + Debited(Fees(pl, D))
        /\ Credited(M) = Credited(Legs(pl, P)) + Credited(Fees(pl, D))
    <3>1. /\ AreLines(Legs(pl, P) \cup Fees(pl, D))
          /\ Debited(Legs(pl, P) \cup Fees(pl, D)) = Debited(Legs(pl, P)) + Debited(Fees(pl, D))
          /\ Credited(Legs(pl, P) \cup Fees(pl, D)) = Credited(Legs(pl, P)) + Credited(Fees(pl, D))
      BY <1>3, <1>4, <2>1, LinesUnion
    <3> QED BY <2>2, <3>1, Zenon
  <2> QED BY <1>3, <1>4, <1>6, <1>8, <2>3 DEF P
<1>10. CASE ~HasFee(pl)
  <2>1. M = Legs(pl, P)
    BY <1>7, <1>10
  <2>2. \A i \in P : FeeOf(pl)[i] = 0
    BY <1>1, <1>10 DEF FeeOf, FeeAmount
  <2>3. SumFunctionOnSet(FeeOf(pl), P) = SumFunctionOnSet(FeeOf(pl), {})
    BY <1>2, <1>5, <2>2, SumOfPart
  <2>4. SumFunctionOnSet(FeeOf(pl), P) = 0
    BY <2>3, SumEmpty
  <2>5. AreLines(M) /\ Debited(M) = Debited(Legs(pl, P)) /\ Credited(M) = Credited(Legs(pl, P))
    BY <1>3, <2>1, Zenon
  <2> QED BY <1>3, <1>8, <2>4, <2>5 DEF P
<1> QED BY <1>9, <1>10

(* What the customer balances and the journals say, as sums over finite sets. *)
LEMMA BooksAre ==
  ASSUME NEW g
  PROVE  /\ IsFiniteSet(BehindLedger(g))
         /\ BooksOf(g) = SumFunctionOnSet(
              [a \in BehindLedger(g) |-> accts[a].bookBalance - OpeningRow[a].bookBalance], BehindLedger(g))
         /\ BooksOf(g)' = SumFunctionOnSet(
              [a \in BehindLedger(g) |-> accts'[a].bookBalance - OpeningRow[a].bookBalance], BehindLedger(g))
<1>1. BehindLedger(g) \subseteq Account
  BY DEF BehindLedger
<1>2. IsFiniteSet(BehindLedger(g))
  BY <1>1, FiniteAssumption, FS_Subset
<1>3. /\ DOMAIN [a \in BehindLedger(g) |-> accts[a].bookBalance - OpeningRow[a].bookBalance] = BehindLedger(g)
      /\ DOMAIN [a \in BehindLedger(g) |-> accts'[a].bookBalance - OpeningRow[a].bookBalance] = BehindLedger(g)
  OBVIOUS
<1>4. BehindLedger(g)' = BehindLedger(g)
  BY DEF BehindLedger
<1> QED BY <1>2, <1>3, <1>4, Zenon DEF BooksOf, SumFunction, BehindLedger

(* A posting moves the balances behind a control ledger by what its lines say of the ledger. *)
LEMMA PostMovesBooks ==
  ASSUME IInv, NEW p \in Proc, Post(p), NEW pl, pl = PayloadOf(job[p]), NEW g, g \notin DirectGls,
         NEW M, M = {e \in JournalOf(pl).lines : e.gl = g}
  PROVE  /\ BooksOf(g) \in Int
         /\ BooksOf(g)' = BooksOf(g) + (Credited(M) - Debited(M))
<1> DEFINE B == BehindLedger(g)
           P == Touched(pl, g)
           Bk == [a \in B |-> accts[a].bookBalance - OpeningRow[a].bookBalance]
           New == [a \in B |-> accts'[a].bookBalance - OpeningRow[a].bookBalance]
           Ch == [a \in B |-> IF a \in P THEN (CreditOf(pl)[a] - DebitOf(pl)[a]) - FeeOf(pl)[a] ELSE 0]
           H == [a \in P |-> DebitOf(pl)[a] + FeeOf(pl)[a]]
<1>1. /\ IsPayload(pl) /\ Accepted(pl) /\ Parties(pl) \subseteq Account
      /\ Resolvable(pl) /\ Ledgers(pl) \subseteq DirectGls
      /\ \A a \in Parties(pl) : snap[p][a] = accts[a]
  BY PostFacts, PostVerdict DEF Post
<1>2. accts' = [a \in Account |-> PostedRow(pl, a, accts[a], snap[p][a])]
  BY DEF Post
<1>3. \A a \in Account : accts[a] \in AccountRow /\ OpeningRow[a] \in AccountRow
  BY OpeningAssumption DEF IInv, TypeOK, DataTypeOK
<1>4. B \subseteq Account /\ P \in SUBSET B /\ P \subseteq Parties(pl) /\ Parties(pl) \cap B \subseteq P
  BY DEF BehindLedger, Touched, Ids, Parties, DebitAccounts, CreditAccounts
<1>5. IsFiniteSet(B) /\ IsFiniteSet(P)
  BY <1>4, BooksAre, FS_Subset
<1>6. \A a \in P : CreditOf(pl)[a] \in Int /\ DebitOf(pl)[a] \in Int /\ FeeOf(pl)[a] \in Int
  BY <1>1, <1>3, <1>4, BalanceChange
<1>7. ASSUME NEW a \in B
      PROVE  Bk[a] \in Int /\ Ch[a] \in Int /\ New[a] = Bk[a] + Ch[a]
  <2>1. accts[a] \in AccountRow /\ accts[a].bookBalance \in Int /\ OpeningRow[a].bookBalance \in Int
    BY <1>3, <1>4 DEF AccountRow
  <2>2. CASE a \in P
    <3>1. accts'[a] = [accts[a] EXCEPT !.bookBalance = NewBookBalance(pl, a, accts[a])]
      BY <1>1, <1>2, <1>4, <2>2 DEF PostedRow
    <3>2. accts'[a].bookBalance = NewBookBalance(pl, a, accts[a])
      BY <2>1, <3>1 DEF AccountRow
    <3>3. NewBookBalance(pl, a, accts[a])
            = accts[a].bookBalance + ((CreditOf(pl)[a] - DebitOf(pl)[a]) - FeeOf(pl)[a])
      BY <1>1, <1>4, <2>1, <2>2, BalanceChange
    <3> QED BY <1>6, <2>1, <2>2, <3>2, <3>3
  <2>3. CASE a \notin P
    <3>1. accts'[a] = accts[a]
      BY <1>2, <1>4, <2>3 DEF PostedRow
    <3> QED BY <2>1, <2>3, <3>1
  <2> QED BY <2>2, <2>3
<1>8. /\ \A a \in P : Ch[a] = (CreditOf(pl)[a] - DebitOf(pl)[a]) - FeeOf(pl)[a]
      /\ \A a \in B \ P : Ch[a] = 0
  BY <1>4
<1>9. \A a \in P : /\ H[a] \in Int /\ H[a] = DebitOf(pl)[a] + FeeOf(pl)[a]
                   /\ Ch[a] \in Int /\ CreditOf(pl)[a] = Ch[a] + H[a]
  BY <1>6, <1>8
<1>10. /\ BooksOf(g) = SumFunctionOnSet(Bk, B)
       /\ BooksOf(g)' = SumFunctionOnSet(New, B)
  BY BooksAre
<1> HIDE DEF B, P, Bk, New, Ch, H
<1>11. SumFunctionOnSet(New, B) = SumFunctionOnSet(Bk, B) + SumFunctionOnSet(Ch, B)
  BY <1>5, <1>7, SumPlus
<1>12. SumFunctionOnSet(Ch, B) = SumFunctionOnSet(Ch, P)
  BY <1>4, <1>5, <1>7, <1>8, SumOfPart
<1>13. SumFunctionOnSet(H, P) = SumFunctionOnSet(DebitOf(pl), P) + SumFunctionOnSet(FeeOf(pl), P)
  BY <1>5, <1>6, <1>9, SumPlus
<1>14. SumFunctionOnSet(CreditOf(pl), P) = SumFunctionOnSet(Ch, P) + SumFunctionOnSet(H, P)
  BY <1>5, <1>9, SumPlus
<1>15. /\ SumFunctionOnSet(Bk, B) \in Int /\ SumFunctionOnSet(Ch, P) \in Int
       /\ SumFunctionOnSet(H, P) \in Int
  BY <1>5, <1>7, <1>9, SumType
<1>16. /\ Debited(M) = SumFunctionOnSet(DebitOf(pl), P) + SumFunctionOnSet(FeeOf(pl), P)
       /\ Credited(M) = SumFunctionOnSet(CreditOf(pl), P)
  BY <1>1, ControlSums DEF P
<1>17. /\ Debited(M) = SumFunctionOnSet(H, P)
       /\ Credited(M) = SumFunctionOnSet(Ch, P) + SumFunctionOnSet(H, P)
  BY <1>13, <1>14, <1>16
<1> QED BY <1>10, <1>11, <1>12, <1>15, <1>17

(* What the journals say of a ledger grows by what a new journal says of it. *)
LEMMA NetCreditGrows ==
  ASSUME Written, NEW new, new \notin journals, journals' = journals \cup {new},
         AreLines(new.entry.lines), NEW g
  PROVE  NetCredit(g)' = NetCredit(g) + (Credited(LinesOf(new, g)) - Debited(LinesOf(new, g)))
<1> DEFINE J == journals
           K == J \cup {new}
           Net(j) == Credited(LinesOf(j, g)) - Debited(LinesOf(j, g))
           F == [j \in J |-> Net(j)]
           G == [j \in K |-> Net(j)]
<1>1. \A j \in K : AreLines(LinesOf(j, g))
  <2>1. \A j \in K : LinesOf(j, g) \in SUBSET j.entry.lines
    BY DEF LinesOf
  <2> QED BY <2>1, SomeLines DEF Written
<1>2. \A j \in K : Net(j) \in Int
  <2> TAKE j \in K
  <2>1. AreLines(LinesOf(j, g))
    BY <1>1
  <2>2. Debited(LinesOf(j, g)) \in Int /\ Credited(LinesOf(j, g)) \in Int
    BY <2>1, LinesSum
  <2> QED BY <2>2
<1>3. NetCredit(g) = SumFunctionOnSet(F, J)
  <2>1. DOMAIN F = J
    OBVIOUS
  <2> QED BY <2>1, Zenon DEF NetCredit, SumFunction
<1>4. NetCredit(g)' = SumFunctionOnSet(G, K)
  <2>1. DOMAIN G = K
    OBVIOUS
  <2>2. NetCredit(g)' = SumFunction([j \in journals' |-> Net(j)])
    BY DEF NetCredit, LinesOf, Debited, Credited
  <2>3. SumFunction([j \in journals' |-> Net(j)]) = SumFunction(G)
    BY Zenon
  <2> QED BY <2>1, <2>2, <2>3, Zenon DEF SumFunction
<1>5. /\ \A j \in J : F[j] = G[j] /\ F[j] \in Int
      /\ \A j \in J \cup {new} : G[j] \in Int
      /\ G[new] = Net(new)
  BY <1>2
<1>6. IsFiniteSet(J)
  BY DEF Written
<1> HIDE DEF F, G
<1>7. SumFunctionOnSet(F, J) = SumFunctionOnSet(G, J)
  BY <1>5, <1>6, SumSame
<1>8. SumFunctionOnSet(G, J \cup {new}) = G[new] + SumFunctionOnSet(G, J)
  BY <1>5, <1>6, SumAdd
<1>9. SumFunctionOnSet(G, J) \in Int /\ Net(new) \in Int
  BY <1>2, <1>5, <1>6, SumType
<1> HIDE DEF Net
<1>10. NetCredit(g)' = NetCredit(g) + Net(new)
  BY <1>3, <1>4, <1>5, <1>7, <1>8, <1>9
<1> QED BY <1>10 DEF Net

(* A posting keeps the control ledgers reconciled. *)
LEMMA PostKeepsControl ==
  ASSUME IInv, Written, ControlReconciled, NEW p \in Proc, Post(p)
  PROVE  ControlReconciled'
<1>0. PICK pl : pl = PayloadOf(job[p])
  OBVIOUS
<1>1. PICK new : new = [id |-> p, entry |-> JournalOf(pl)]
  OBVIOUS
<1>2. journals' = journals \cup {new} /\ pc[p] = "commit"
  BY <1>0, <1>1 DEF Post, Committing
<1>3. new \notin journals
  BY <1>1, <1>2 DEF Written
<1>4. AreLines(new.entry.lines)
  BY <1>0, <1>1, PostFacts, PostVerdict, JournalBalances DEF Post
<1> SUFFICES ASSUME NEW g \in {ControlGl[a] : a \in Account} \ DirectGls
             PROVE  BooksOf(g)' = NetCredit(g)'
  BY DEF ControlReconciled
<1>5. BooksOf(g) = NetCredit(g)
  BY DEF ControlReconciled
<1>6. LinesOf(new, g) = {e \in JournalOf(pl).lines : e.gl = g}
  BY <1>1 DEF LinesOf
<1>7. /\ BooksOf(g) \in Int
      /\ BooksOf(g)' = BooksOf(g) + (Credited(LinesOf(new, g)) - Debited(LinesOf(new, g)))
  BY <1>0, <1>6, PostMovesBooks
<1>8. NetCredit(g)' = NetCredit(g) + (Credited(LinesOf(new, g)) - Debited(LinesOf(new, g)))
  BY <1>2, <1>3, <1>4, NetCreditGrows
<1> QED BY <1>5, <1>7, <1>8

(* A step that changes neither balances nor journals keeps the control ledgers. *)
LEMMA SameBooksKept ==
  ASSUME ControlReconciled, journals' = journals,
         \A a \in Account : accts'[a].bookBalance = accts[a].bookBalance
  PROVE  ControlReconciled'
<1> SUFFICES ASSUME NEW g \in {ControlGl[a] : a \in Account} \ DirectGls
             PROVE  BooksOf(g)' = NetCredit(g)'
  BY DEF ControlReconciled
<1>1. [a \in BehindLedger(g) |-> accts'[a].bookBalance - OpeningRow[a].bookBalance]
        = [a \in BehindLedger(g) |-> accts[a].bookBalance - OpeningRow[a].bookBalance]
  BY DEF BehindLedger
<1>2. BooksOf(g)' = BooksOf(g)
  BY <1>1, BooksAre, Zenon
<1>3. NetCredit(g)' = NetCredit(g)
  BY DEF NetCredit, LinesOf, Debited, Credited
<1> QED BY <1>2, <1>3 DEF ControlReconciled

(* A lien placed or lifted leaves the balance of its account. *)
LEMMA HoldKeepsBooks ==
  ASSUME IInv, NEW p \in Proc, PlaceLien(p) \/ LiftLien(p)
  PROVE  \A a \in Account : accts'[a].bookBalance = accts[a].bookBalance
<1>1. \A a \in Account : accts[a] \in AccountRow
  BY DEF IInv, TypeOK, DataTypeOK
<1>2. \E l \in Lien : \E n : accts' = [accts EXCEPT ![LienAccount[l]].lienAmount = n]
  <2>1. job[p].lien \in Lien
    BY PlaceFacts, LiftFacts DEF PlaceLien, LiftLien
  <2> QED BY <2>1 DEF PlaceLien, LiftLien, SetHold
<1> QED BY <1>1, <1>2 DEF IInv, TypeOK, DataTypeOK, AccountRow

(* At the start nothing has moved and nothing is booked. *)
LEMMA NothingBooked ==
  ASSUME Init
  PROVE  ControlReconciled
<1> SUFFICES ASSUME NEW g PROVE BooksOf(g) = NetCredit(g)
  BY DEF ControlReconciled
<1> DEFINE B == BehindLedger(g)
           Bk == [a \in B |-> accts[a].bookBalance - OpeningRow[a].bookBalance]
<1>1. \A a \in B : Bk[a] = 0
  BY OpeningAssumption DEF Init, BehindLedger, AccountRow
<1>2. BooksOf(g) = SumFunctionOnSet(Bk, B) /\ IsFiniteSet(B)
  BY BooksAre
<1> HIDE DEF B, Bk
<1>3. SumFunctionOnSet(Bk, B) = SumFunctionOnSet(Bk, {})
  BY <1>1, <1>2, SumOfPart
<1>4. BooksOf(g) = 0
  BY <1>2, <1>3, SumEmpty
<1>5. NetCredit(g) = 0
  <2> DEFINE F == [j \in journals |-> Credited(LinesOf(j, g)) - Debited(LinesOf(j, g))]
  <2>1. DOMAIN F = {}
    BY DEF Init
  <2>2. NetCredit(g) = SumFunctionOnSet(F, DOMAIN F)
    BY Zenon DEF NetCredit, SumFunction
  <2>3. SumFunctionOnSet(F, DOMAIN F) = SumFunctionOnSet(F, {})
    BY <2>1, Zenon
  <2> QED BY <2>2, <2>3, SumEmpty
<1> QED BY <1>4, <1>5

(* The balances of the customers behind a control ledger nobody books directly move by exactly
   what the journals say of that ledger. *)
THEOREM ControlLedgersReconcile == Spec => []ControlReconciled
<1> DEFINE Inv == Written /\ JournalsBalance /\ ControlReconciled
<1>1. Init => Inv
  BY NoJournals, NothingBooked
<1>2. IInv /\ Inv /\ [Next]_vars => Inv'
  <2> SUFFICES ASSUME IInv, Inv, [Next]_vars PROVE Inv'
    OBVIOUS
  <2>1. Written' /\ JournalsBalance'
    BY NextJournals
  <2>2. ASSUME UNCHANGED data PROVE ControlReconciled'
    BY <2>2, SameBooksKept DEF data
  <2>3. ASSUME NEW p \in Proc, Update(p) PROVE ControlReconciled'
    BY <2>3, UpdateEffect, SameBooksKept DEF Update
  <2>4. ASSUME NEW p \in Proc, PlaceLien(p) \/ LiftLien(p) PROVE ControlReconciled'
    <3>1. \A a \in Account : accts'[a].bookBalance = accts[a].bookBalance
      BY <2>4, HoldKeepsBooks
    <3> QED BY <2>4, <3>1, SameBooksKept DEF PlaceLien, LiftLien
  <2>5. ControlReconciled'
    BY <2>2, <2>3, <2>4, QuietSteps, PostKeepsControl DEF Next, Work, QuietWork
  <2> QED BY <2>1, <2>5
<1>3. Inv => ControlReconciled
  OBVIOUS
<1> HIDE DEF Inv
<1> QED BY <1>1, <1>2, <1>3, Invariance, PTL DEF Spec

-----------------------------------------------------------------------------
(* The concurrent services implement AtomicBank: a step either commits a posting or a lien, which
   is one step of the bank, or the bank does not see it.                     *)

(* A journal was written by a request that has ended since. *)
JournalsOfDone == \A j \in journals : j.id \in Proc /\ pc[j.id] = "done"

(* A journal belongs to a process that is done, so no process writes a second one. *)
LEMMA NextJournalsOfDone == IInv /\ JournalsOfDone /\ [Next]_vars => JournalsOfDone'
<1> SUFFICES ASSUME IInv, JournalsOfDone, [Next]_vars
             PROVE  JournalsOfDone'
  OBVIOUS
<1> USE DEF IInv, TypeOK, data
<1>1. ASSUME NEW p \in Proc, pc[p] # "done", NEW answer \in Answer, Finish(p, answer),
             journals' = journals \/ \E e : journals' = journals \cup {[id |-> p, entry |-> e]}
      PROVE  JournalsOfDone'
  <2>1. /\ pc'[p] = "done"
        /\ \A q \in Proc \ {p} : pc'[q] = pc[q]
    BY <1>1, FinishEffect
  <2> QED BY <1>1, <2>1 DEF JournalsOfDone
<1>2. ASSUME NEW p \in Proc, NEW rows, pc[p] # "done", AskFor(p, rows), journals' = journals
      PROVE  JournalsOfDone'
  BY <1>2 DEF AskFor, Goto, ProcTypeOK, JournalsOfDone
<1>3. ASSUME NEW p \in Proc, NEW r \in Request, Start(p, r)
      PROVE  JournalsOfDone'
  <2>1. ASSUME StartPosting(p, r) \/ StartPlace(p, r) \/ StartLift(p, r) PROVE JournalsOfDone'
    BY <1>2, <2>1 DEF StartPosting, StartPlace, StartLift, Serve
  <2>2. ASSUME StartUpdate(p, r) \/ Refuse(p) PROVE JournalsOfDone'
    BY <2>2 DEF StartUpdate, Refuse, Serve, Goto, ProcTypeOK, JournalsOfDone
  <2> QED BY <1>3, <2>1, <2>2 DEF Start, RefusePosting, RefusePlace, RefuseUpdate
<1>4. ASSUME NEW p \in Proc, LockAccount(p) \/ LockLien(p)
      PROVE  JournalsOfDone'
  BY <1>2, <1>4 DEF LockAccount, LockLien
<1>5. ASSUME NEW p \in Proc, LienSettled(p) \/ RollBack(p) \/ DeadlockVictim(p) \/ Crash(p)
      PROVE  JournalsOfDone'
  BY <1>1, <1>5, OutcomeType
     DEF LienSettled, RollBack, DeadlockVictim, InWaitCycle, Crash, Answer
<1>6. ASSUME NEW p \in Proc, PlaceLien(p) \/ LiftLien(p) \/ Update(p) \/ Post(p)
      PROVE  JournalsOfDone'
  BY <1>1, <1>6 DEF PlaceLien, LiftLien, Update, Post, Committing, Answer
<1>7. ASSUME UNCHANGED <<journals, pc>> PROVE JournalsOfDone'
  BY <1>7 DEF JournalsOfDone
<1> QED BY <1>3, <1>4, <1>5, <1>6, <1>7 DEF Next, Work, ExpiryPasses, AllAnswered, vars

-----------------------------------------------------------------------------
(* Each committing step is one step of the bank.                             *)

(* The effect of an accepted posting on one account, as the bank sees it. *)
LEMMA EffectOnAccount ==
  ASSUME NEW pl, IsPayload(pl), Accepted(pl), NEW a \in Account, NEW row \in AccountRow,
         a \in DebitAccounts(pl) => Available(row) >= TotalDebit(pl, a)
  PROVE  /\ PostedRow(pl, a, row, row).bookBalance = row.bookBalance + Effect(pl).change[a]
         /\ PostedRow(pl, a, row, row).lienAmount = row.lienAmount
         /\ Effect(pl).change[a] < 0
              => row.bookBalance - row.lienAmount >= -Effect(pl).change[a]
<1>1. a \in Parties(pl) => AmountOf(pl, a) \in Int /\ AmountOf(pl, a) > 0
  BY AmountType
<1>2. FeeAmount(pl) \in Int /\ row.bookBalance \in Int /\ row.lienAmount \in Int
  BY FeeType DEF AccountRow
<1>3. Effect(pl).change[a] = IF a \in DebitAccounts(pl) THEN -TotalDebit(pl, a)
                             ELSE IF a \in CreditAccounts(pl) THEN AmountOf(pl, a) ELSE 0
  BY DEF Effect
<1>4. CASE a \in DebitAccounts(pl)
  <2>1. TotalDebit(pl, a) \in Int /\ a \in Parties(pl)
    BY <1>1, <1>2, <1>4 DEF TotalDebit, Parties
  <2>2. PostedRow(pl, a, row, row) = [row EXCEPT !.bookBalance = row.bookBalance - TotalDebit(pl, a)]
    BY <1>4, <2>1 DEF PostedRow, NewBookBalance
  <2> QED BY <1>2, <1>3, <1>4, <2>1, <2>2 DEF AccountRow, Available
<1>5. CASE a \notin DebitAccounts(pl) /\ a \in CreditAccounts(pl)
  <2>1. a \in Parties(pl)
    BY <1>5 DEF Parties
  <2>2. PostedRow(pl, a, row, row) = [row EXCEPT !.bookBalance = row.bookBalance + AmountOf(pl, a)]
    BY <1>5, <2>1 DEF PostedRow, NewBookBalance
  <2> QED BY <1>1, <1>2, <1>3, <1>5, <2>1, <2>2 DEF AccountRow
<1>6. CASE a \notin DebitAccounts(pl) /\ a \notin CreditAccounts(pl)
  BY <1>2, <1>3, <1>6 DEF PostedRow, Parties
<1> QED BY <1>4, <1>5, <1>6

(* A committed posting is a posting of the atomic bank. *)
LEMMA PostIsBankPost ==
  ASSUME IInv, JournalsOfDone, NEW p \in Proc, Post(p)
  PROVE  Bank!Next
<1> DEFINE pl == PayloadOf(job[p])
           t == Effect(pl)
<1>1. /\ pc[p] = "commit" /\ job[p].kind \in PostingKinds /\ job[p] \in Request
      /\ IsPayload(pl) /\ Accepted(pl) /\ Parties(pl) \subseteq Account
      /\ \A a \in Parties(pl) : snap[p][a] = accts[a]
      /\ \A a \in DebitAccounts(pl) : Available(accts[a]) >= TotalDebit(pl, a)
      /\ ReferenceFree(pl, transactions)
  BY CommitFacts, PostFacts DEF Post
<1>2. /\ accts' = [a \in Account |-> PostedRow(pl, a, accts[a], snap[p][a])]
      /\ journals' = journals \cup {[id |-> p, entry |-> JournalOf(pl)]}
      /\ transactions' = transactions \cup TransactionRefs(pl)
      /\ liens' = liens
  BY DEF Post
<1>3. t \in {Effect(q) : q \in {x \in Payloads : Accepted(x)}}
  BY <1>1 DEF Payloads, Of
<1>4. t.refs = TransactionRefs(pl) /\ t.journal = JournalOf(pl)
  BY DEF Effect
<1>5. ASSUME NEW a \in Account
      PROVE  /\ accts'[a].bookBalance = accts[a].bookBalance + t.change[a]
             /\ accts'[a].lienAmount = accts[a].lienAmount
             /\ t.change[a] < 0 => accts[a].bookBalance - accts[a].lienAmount >= -t.change[a]
  <2>1. accts[a] \in AccountRow
    BY DEF IInv, TypeOK, DataTypeOK
  <2>2. accts'[a] = PostedRow(pl, a, accts[a], accts[a])
    BY <1>1, <1>2 DEF PostedRow
  <2> QED BY <1>1, <2>1, <2>2, EffectOnAccount
<1>6. \A j \in journals : j.id # p
  BY <1>1 DEF JournalsOfDone
<1>7. t.refs \cap transactions = {}
  BY <1>1, <1>4 DEF ReferenceFree
<1> HIDE DEF t
<1>8. Bank!Post(t, p)
  BY <1>2, <1>4, <1>5, <1>6, <1>7 DEF Bank!Post
<1> QED BY <1>3, <1>8 DEF Bank!Next, t

(* A committed lien is a lien placed in the atomic bank. *)
LEMMA PlaceIsBankPlace ==
  ASSUME IInv, NEW p \in Proc, PlaceLien(p)
  PROVE  Bank!Next
<1>0. PICK l \in Lien : l = job[p].lien
  BY PlaceFacts DEF PlaceLien
<1> DEFINE a == LienAccount[l]
<1>1. /\ snap[p][a] = accts[a]
      /\ Available(accts[a]) >= LienAmount[l] /\ ~ReferenceTaken(l)
  BY <1>0, PlaceFacts DEF PlaceLien
<1>2. /\ SetHold(p, l, LienAmount[l])
      /\ liens' = [liens EXCEPT ![l] = "active"]
      /\ UNCHANGED <<journals, transactions>>
  BY <1>0 DEF PlaceLien
<1>3. LienAmount[l] \in Int
  BY <1>1, LienAssumption
<1>4. /\ a \in Account
      /\ accts'[a] = [accts[a] EXCEPT !.lienAmount = accts[a].lienAmount + LienAmount[l]]
      /\ \A b \in Account \ {a} : accts'[b] = accts[b]
  BY <1>1, <1>2, <1>3, SetHoldEffect
<1>5. accts[a] \in AccountRow
  BY <1>4 DEF IInv, TypeOK, DataTypeOK
<1>6. /\ accts'[a].bookBalance = accts[a].bookBalance
      /\ accts'[a].lienAmount = accts[a].lienAmount + LienAmount[l]
  BY <1>4, <1>5 DEF AccountRow
<1>7. \A k \in Lien : LienRef[k] = LienRef[l] => liens[k] = "none"
  BY <1>1 DEF ReferenceTaken
<1>8. liens[l] = "none"
  BY <1>1, <1>7
<1>9. accts[a].bookBalance - accts[a].lienAmount >= LienAmount[l]
  BY <1>1 DEF Available
<1>10. [b \in Account |-> accts'[b].bookBalance] = [b \in Account |-> accts[b].bookBalance]
  BY <1>4, <1>6
<1>11. [b \in Account |-> accts'[b].lienAmount]
         = [[b \in Account |-> accts[b].lienAmount] EXCEPT ![a] = @ + LienAmount[l]]
  BY <1>4, <1>6
<1>12. Bank!Place(l)
  BY <1>2, <1>4, <1>7, <1>8, <1>9, <1>10, <1>11 DEF Bank!Place
<1> QED BY <1>12 DEF Bank!Next

(* A committed release or expiry lifts the lien in the atomic bank. *)
LEMMA LiftIsBankLift ==
  ASSUME IInv, NEW p \in Proc, LiftLien(p)
  PROVE  Bank!Next
<1>0. PICK l \in Lien, status \in {"released", "voided"} :
        l = job[p].lien /\ status = target[p]
  BY LiftFacts DEF LiftLien
<1> DEFINE a == LienAccount[l]
<1>1. snap[p][a] = accts[a] /\ liens[l] = "active"
  BY <1>0, LiftFacts DEF LiftLien
<1>2. /\ SetHold(p, l, -LienAmount[l])
      /\ liens' = [liens EXCEPT ![l] = status]
      /\ UNCHANGED <<journals, transactions>>
  BY <1>0 DEF LiftLien
<1>3. LienAmount[l] \in Int /\ -LienAmount[l] \in Int
  BY <1>1, LienAssumption
<1>4. /\ a \in Account
      /\ accts'[a] = [accts[a] EXCEPT !.lienAmount = accts[a].lienAmount + (-LienAmount[l])]
      /\ \A b \in Account \ {a} : accts'[b] = accts[b]
  BY <1>1, <1>2, <1>3, SetHoldEffect
<1>5. accts[a] \in AccountRow
  BY <1>4 DEF IInv, TypeOK, DataTypeOK
<1>6. /\ accts'[a].bookBalance = accts[a].bookBalance
      /\ accts'[a].lienAmount = accts[a].lienAmount - LienAmount[l]
  BY <1>3, <1>4, <1>5 DEF AccountRow
<1>7. [b \in Account |-> accts'[b].bookBalance] = [b \in Account |-> accts[b].bookBalance]
  BY <1>4, <1>6
<1>8. [b \in Account |-> accts'[b].lienAmount]
        = [[b \in Account |-> accts[b].lienAmount] EXCEPT ![a] = @ - LienAmount[l]]
  BY <1>4, <1>6
<1>9. Bank!Lift(l, status)
  BY <1>1, <1>2, <1>7, <1>8 DEF Bank!Lift
<1> QED BY <1>9 DEF Bank!Next

(* Every other step leaves the bank as it is. *)
LEMMA QuietIsStutter ==
  ASSUME IInv, UNCHANGED data \/ \E p \in Proc : Update(p)
  PROVE  UNCHANGED Bank!vars
<1>1. CASE UNCHANGED data
  BY <1>1 DEF data, Bank!vars
<1>2. ASSUME NEW p \in Proc, Update(p)
      PROVE  UNCHANGED Bank!vars
  <2>1. UNCHANGED <<liens, journals, transactions>>
    BY <1>2 DEF Update
  <2> QED BY <1>2, <2>1, UpdateEffect DEF Bank!vars
<1> QED BY <1>1, <1>2

(* Every step is one of the atomic bank or leaves its variables alone. *)
LEMMA NextIsBankNext == IInv /\ JournalsOfDone /\ [Next]_vars => [Bank!Next]_(Bank!vars)
  BY PostIsBankPost, PlaceIsBankPlace, LiftIsBankLift, QuietIsStutter, QuietSteps
     DEF Next, Work, QuietWork

(* Transfers, postings and liens running concurrently on row locks are
   indistinguishable, in the tables, from the bank that does each in one step. *)
THEOREM BankRefinement == Spec => ImplementsAtomicBank
<1>1. Init => Bank!Init
  BY DEF Init, Bank!Init
<1>2. Init => JournalsOfDone
  BY DEF Init, JournalsOfDone
<1>3. IInv /\ JournalsOfDone /\ [Next]_vars => JournalsOfDone'
  BY NextJournalsOfDone
<1>4. IInv /\ JournalsOfDone /\ [Next]_vars => [Bank!Next]_(Bank!vars)
  BY NextIsBankNext
<1> QED BY <1>1, <1>2, <1>3, <1>4, Invariance, PTL DEF Spec, ImplementsAtomicBank, Bank!Spec
=============================================================================
