---------------------------- MODULE CoreBanking -----------------------------
(***************************************************************************)
(* Concurrent requests against one tenant's accounts: transfers, postings  *)
(* made by other services, liens placed, released and expired, posting      *)
(* restrictions and activations.  Each request is a process that first      *)
(* reads rows without a lock (the pre-checks of the API services) and then  *)
(* runs a PostgreSQL transaction at READ COMMITTED: SELECT ... FOR UPDATE   *)
(* takes one row lock after the other and returns the row as it is when     *)
(* its lock is granted; the writes become visible at commit.                *)
(***************************************************************************)
EXTENDS Posting

CONSTANTS
  Proc,           \* requests in flight, each answered once
  Request,        \* what a request may ask for
  OpeningRow,     \* [Account -> AccountRow]: the rows the history starts from
  OpeningLiens    \* the liens that are active when it starts

PostingKinds == {"accountToAccount", "accountToGl", "glToAccount", "ledger"}
LiftKinds    == {"releaseLien", "expireLien"}
LienKinds    == {"placeLien"} \cup LiftKinds
UpdateKinds  == {"blockDebit", "unblockDebit", "blockCredit", "unblockCredit", "activate"}

ASSUME OpeningAssumption ==
  /\ OpeningRow \in [Account -> AccountRow]
  /\ OpeningLiens \subseteq Lien
  /\ \A a \in Account : OpeningRow[a].lienAmount <= OpeningRow[a].bookBalance
  /\ Proc \cap (Account \cup Lien \cup {None}) = {}

(* The rows a history starts from are rows the services have written: what is held on
   an account are its active liens. *)
ASSUME HoldsAssumption ==
  \A a \in Account :
    OpeningRow[a].lienAmount
      = SumFunctionOnSet(LienAmount, {l \in OpeningLiens : LienAccount[l] = a})

-----------------------------------------------------------------------------
(* What each kind of request carries, and the payload it turns into.         *)
Of(kinds) == {r \in Request : r.kind \in kinds}

Side(id, amount) == [i \in {id} |-> amount]

(* The leg lists TransactionService builds from a transfer DTO. Direct callers
   (opening balances, disbursements, loan repayments) bring their own payload. *)
PayloadOf(r) ==
  CASE r.kind = "accountToAccount" ->
         [referenceNumber |-> r.reference, operationType |-> "debit",
          customerAccounts |-> NoLegs, debits |-> Side(r.sender, r.amount),
          credits |-> Side(r.receiver, r.amount),
          fee |-> IF r.fee > 0 THEN r.fee ELSE None,
          feeGl |-> IF r.fee > 0 THEN FeeGl[r.sender] ELSE None]
    [] r.kind = "accountToGl" ->
         [referenceNumber |-> r.reference, operationType |-> "debit",
          customerAccounts |-> Side(r.account, r.amount), debits |-> NoLegs,
          credits |-> Side(r.gl, r.amount), fee |-> None, feeGl |-> None]
    [] r.kind = "glToAccount" ->
         [referenceNumber |-> r.reference, operationType |-> "credit",
          customerAccounts |-> Side(r.account, r.amount), debits |-> Side(r.gl, r.amount),
          credits |-> NoLegs, fee |-> None, feeGl |-> None]
    [] OTHER -> r.payload

(* What TransactionService checks, on rows it does not lock; it never asks whether
   an account may be credited. *)
PreChecked(r, rows) ==
  CASE r.kind = "accountToAccount" ->
         /\ r.sender # r.receiver
         /\ r.sender \in Known
         /\ PostingAllowed(r.sender, rows[r.sender], "debit", r.amount + r.fee)
         /\ r.fee > 0 => FeeGl[r.sender] # None
    [] r.kind = "accountToGl" ->
         /\ r.gl \in Known \cap DirectGls
         /\ r.account \in Known
         /\ PostingAllowed(r.account, rows[r.account], "debit", r.amount)
    [] r.kind = "glToAccount" ->
         /\ r.gl \in Known \cap DirectGls
         /\ r.account \in Known
    [] OTHER -> TRUE

(* The account rows a request locks before it writes. *)
AccountsOf(r) ==
  Known \cap (IF r.kind \in PostingKinds THEN Parties(PayloadOf(r)) ELSE {LienAccount[r.lien]})

Payloads == {PayloadOf(r) : r \in Of(PostingKinds)}

ASSUME RequestAssumption ==
  \A r \in Request :
    \/ /\ r.kind \in PostingKinds
       /\ IsPayload(PayloadOf(r))
    \/ r.kind \in LienKinds /\ r.lien \in Lien
    \/ r.kind \in UpdateKinds /\ r.account \in Account

-----------------------------------------------------------------------------
VARIABLES
  accts,          \* accounts: [Account -> AccountRow]
  liens,          \* liens.status: [Lien -> LienStatus]
  expired,        \* the liens whose expires_at has passed
  journals,       \* journal_entries with their lines; the id is the process that wrote it
  transactions,   \* transactions.reference of every row
  owner,          \* row locks: [Row -> Proc \cup {None}]
  pc,             \* where a process is
  job,            \* the request a process serves
  want,           \* the row whose lock it asks for next
  snap,           \* the account rows it has read: [Proc -> [Account -> AccountRow]]
  target,         \* the status releaseLien or the expiry job will give its lien
  res             \* how the request was answered

data == <<accts, liens, journals, transactions>>
vars == <<accts, liens, expired, journals, transactions,
          owner, pc, job, want, snap, target, res>>

Row == Account \cup Lien
Step == {"idle", "lock", "commit", "update", "done"}
Answer == {"none", "ok", "refused", "threw", "failed", "lost"}

(* "refused": a pre-check or validation error; "threw", "failed": the transaction
   rolled back, see Posting; "lost": the process died before it answered. *)
DataTypeOK ==
  /\ accts \in [Account -> AccountRow]
  /\ liens \in [Lien -> LienStatus]
  /\ expired \subseteq LienExpires
  /\ \A j \in journals : j.id \in Proc

ProcTypeOK ==
  /\ owner \in [Row -> Proc \cup {None}]
  /\ pc \in [Proc -> Step]
  /\ job \in [Proc -> Request \cup {None}]
  /\ want \in [Proc -> Row \cup {None}]
  /\ snap \in [Proc -> [Account -> AccountRow]]
  /\ target \in [Proc -> LienStatus]
  /\ res \in [Proc -> Answer]

TypeOK == DataTypeOK /\ ProcTypeOK

Init ==
  /\ accts = OpeningRow
  /\ liens = [l \in Lien |-> IF l \in OpeningLiens THEN "active" ELSE "none"]
  /\ expired = {}
  /\ journals = {}
  /\ transactions = {}
  /\ owner = [r \in Row |-> None]
  /\ pc = [p \in Proc |-> "idle"]
  /\ job = [p \in Proc |-> None]
  /\ want = [p \in Proc |-> None]
  /\ snap = [p \in Proc |-> OpeningRow]
  /\ target = [p \in Proc |-> "none"]
  /\ res = [p \in Proc |-> "none"]

-----------------------------------------------------------------------------
(* Steps every request shares.                                               *)
Holds(p) == {r \in Row : owner[r] = p}

Goto(p, step)  == pc' = [pc EXCEPT ![p] = step]
Serve(p, r)    == pc[p] = "idle" /\ job' = [job EXCEPT ![p] = r]

(* FOR UPDATE on a set of rows locks them one at a time, in whatever order the
   plan visits them: the ids are sorted, but the query has no ORDER BY. *)
AskFor(p, rows) ==
  \/ rows # {} /\ Goto(p, "lock") /\ \E r \in rows : want' = [want EXCEPT ![p] = r]
  \/ rows = {} /\ Goto(p, "commit") /\ want' = [want EXCEPT ![p] = None]

(* Mutant: the SELECT has no FOR UPDATE and the UPDATE does not wait. *)
LockIgnored(row) == TRUE

(* The lock a FOR UPDATE or an UPDATE waits for. *)
Free(row) == owner[row] = None

(* COMMIT and ROLLBACK both free the rows. *)
Finish(p, answer) ==
  /\ Goto(p, "done")
  /\ res' = [res EXCEPT ![p] = answer]
  /\ owner' = [r \in Row |-> IF owner[r] = p THEN None ELSE owner[r]]
  /\ job' = [job EXCEPT ![p] = None]
  /\ want' = [want EXCEPT ![p] = None]
  /\ snap' = [snap EXCEPT ![p] = OpeningRow]
  /\ target' = [target EXCEPT ![p] = "none"]

(* The answer to a request that never opened a transaction. *)
Refuse(p) ==
  /\ pc[p] = "idle"
  /\ Goto(p, "done")
  /\ res' = [res EXCEPT ![p] = "refused"]
  /\ UNCHANGED <<data, expired, owner, job, want, snap, target>>

-----------------------------------------------------------------------------
(* The unlocked reads a request starts with.                                 *)
StartPosting(p, r) ==
  /\ r.kind \in PostingKinds
  /\ PreChecked(r, accts) /\ Accepted(PayloadOf(r))
  /\ Serve(p, r)
  /\ AskFor(p, AccountsOf(r))
  /\ UNCHANGED <<data, expired, owner, snap, target, res>>

RefusePosting(p, r) ==
  /\ r.kind \in PostingKinds
  /\ ~(PreChecked(r, accts) /\ Accepted(PayloadOf(r)))
  /\ Refuse(p)

(* Mutant: neither the check nor the unique index. *)
NeverTaken(l) == FALSE

(* lienRepo.exists on the reference, outside the transaction. *)
ReferenceTaken(l) == \E k \in Lien : LienRef[k] = LienRef[l] /\ liens[k] # "none"

StartPlace(p, r) ==
  /\ r.kind = "placeLien"
  /\ ~ReferenceTaken(r.lien)
  /\ Serve(p, r)
  /\ AskFor(p, AccountsOf(r))
  /\ UNCHANGED <<data, expired, owner, snap, target, res>>

RefusePlace(p, r) ==
  /\ r.kind = "placeLien"
  /\ ReferenceTaken(r.lien)
  /\ Refuse(p)

(* releaseLien and the expiry job of a lien that is due lock the lien first. The
   job exists from placeLien or the sweep on, and may run more than once. *)
StartLift(p, r) ==
  /\ r.kind \in LiftKinds
  /\ r.kind = "expireLien" => r.lien \in expired /\ liens[r.lien] # "none"
  /\ Serve(p, r)
  /\ AskFor(p, {r.lien})
  /\ UNCHANGED <<data, expired, owner, snap, target, res>>

(* Is there anything to do, according to the row read without a lock? *)
UpdateNeeded(r, row) ==
  CASE r.kind = "blockDebit"    -> ~row.postNoDebit
    [] r.kind = "unblockDebit"  -> row.postNoDebit
    [] r.kind = "blockCredit"   -> ~row.postNoCredit
    [] r.kind = "unblockCredit" -> row.postNoCredit
    [] r.kind = "activate"      -> row.status # "active"

StartUpdate(p, r) ==
  /\ r.kind \in UpdateKinds
  /\ r.account \in Known
  /\ UpdateNeeded(r, accts[r.account])
  /\ Serve(p, r)
  /\ Goto(p, "update")
  /\ snap' = [snap EXCEPT ![p][r.account] = accts[r.account]]
  /\ UNCHANGED <<data, expired, owner, want, target, res>>

RefuseUpdate(p, r) ==
  /\ r.kind \in UpdateKinds
  /\ ~(r.account \in Known /\ UpdateNeeded(r, accts[r.account]))
  /\ Refuse(p)

-----------------------------------------------------------------------------
(* Row locks.                                                                *)
LockAccount(p) ==
  /\ pc[p] = "lock"
  /\ want[p] \in Account
  /\ Free(want[p])
  /\ owner' = [owner EXCEPT ![want[p]] = p]
  /\ snap' = [snap EXCEPT ![p][want[p]] = accts[want[p]]]
  /\ AskFor(p, AccountsOf(job[p]) \ (Holds(p) \cup {want[p]}))
  /\ UNCHANGED <<data, expired, job, target, res>>

(* Mutant: a lien is lifted if it is there at all. *)
LienExists(l) == liens[l] # "none"

LienIsActive(l) == liens[l] = "active"

(* The lien's status and expiry are judged once its row is locked, before its
   account's. A lien the worker expires is voided whatever the clock says. *)
LockLien(p) ==
  /\ pc[p] = "lock"
  /\ want[p] \in Lien
  /\ Free(want[p])
  /\ LienIsActive(want[p])
  /\ owner' = [owner EXCEPT ![want[p]] = p]
  /\ target' = [target EXCEPT ![p] =
       IF job[p].kind = "expireLien" \/ want[p] \in expired THEN "voided" ELSE "released"]
  /\ AskFor(p, AccountsOf(job[p]))
  /\ UNCHANGED <<data, expired, job, snap, res>>

(* No such lien, or no longer active: releaseLien refuses, the job skips it. *)
LienSettled(p) ==
  /\ pc[p] = "lock"
  /\ want[p] \in Lien
  /\ Free(want[p])
  /\ ~LienIsActive(want[p])
  /\ Finish(p, "refused")
  /\ UNCHANGED <<data, expired>>

-----------------------------------------------------------------------------
(* The rest of a transaction, from its last lock to its end.                 *)

(* placeLien under the account lock; UNIQUE (tenant_id, reference) decides last. *)
Placeable(l, row) ==
  /\ LienAccount[l] \in Known
  /\ row.status = "active"
  /\ Available(row) >= LienAmount[l]
  /\ ConvertsToBigInt
  /\ ~ReferenceTaken(l)

(* Only releaseLien checks that the restored amount is not negative. *)
Restorable(r, row) ==
  /\ LienAccount[r.lien] \in Known
  /\ r.kind = "releaseLien" => row.lienAmount >= LienAmount[r.lien]
  /\ ConvertsToBigInt

(* How the transaction of a process ends, given the rows it has locked and read. *)
Outcome(p) ==
  LET r == job[p] IN
  CASE r.kind \in PostingKinds -> Verdict(PayloadOf(r), snap[p], transactions)
    [] r.kind = "placeLien"    -> IF Placeable(r.lien, snap[p][LienAccount[r.lien]])
                                  THEN "ok" ELSE "threw"
    [] OTHER                   -> IF Restorable(r, snap[p][LienAccount[r.lien]])
                                  THEN "ok" ELSE "threw"

Committing(p, kinds) == pc[p] = "commit" /\ job[p].kind \in kinds /\ Outcome(p) = "ok"

(* Mutant: the caller of the engine leaves its structured error unanswered. *)
RollBackOfThrown(p) ==
  /\ pc[p] = "commit"
  /\ Outcome(p) = "threw"
  /\ Finish(p, Outcome(p))
  /\ UNCHANGED <<data, expired>>

RollBack(p) ==
  /\ pc[p] = "commit"
  /\ Outcome(p) # "ok"
  /\ Finish(p, Outcome(p))
  /\ UNCHANGED <<data, expired>>

(* ON CONFLICT (id) DO UPDATE SET book_balance = EXCLUDED.book_balance: the new
   balance is computed from the row read under the lock, the other columns stay. *)
PostedRow(pl, a, row, seen) ==
  IF a \in Parties(pl) THEN [row EXCEPT !.bookBalance = NewBookBalance(pl, a, seen)] ELSE row

Post(p) ==
  /\ Committing(p, PostingKinds)
  /\ LET pl == PayloadOf(job[p]) IN
       /\ accts' = [a \in Account |-> PostedRow(pl, a, accts[a], snap[p][a])]
       /\ journals' = journals \cup {[id |-> p, entry |-> JournalOf(pl)]}
       /\ transactions' = transactions \cup TransactionRefs(pl)
  /\ Finish(p, "ok")
  /\ UNCHANGED <<liens, expired>>

(* lien_amount is written from the row read under the lock as well. *)
SetHold(p, l, amount) ==
  accts' = [accts EXCEPT ![LienAccount[l]].lienAmount = snap[p][LienAccount[l]].lienAmount + amount]

PlaceLien(p) ==
  /\ Committing(p, {"placeLien"})
  /\ LET l == job[p].lien IN
       /\ SetHold(p, l, LienAmount[l])
       /\ liens' = [liens EXCEPT ![l] = "active"]
  /\ Finish(p, "ok")
  /\ UNCHANGED <<expired, journals, transactions>>

LiftLien(p) ==
  /\ Committing(p, LiftKinds)
  /\ LET l == job[p].lien IN
       /\ SetHold(p, l, -LienAmount[l])
       /\ liens' = [liens EXCEPT ![l] = target[p]]
  /\ Finish(p, "ok")
  /\ UNCHANGED <<expired, journals, transactions>>

(* One UPDATE statement: it waits for the row's lock, but what it writes was
   decided on the row read before. *)
Updated(r, row, seen) ==
  CASE r.kind = "blockDebit"    -> [row EXCEPT !.postNoDebit = TRUE, !.restrictionReason = TRUE]
    [] r.kind = "unblockDebit"  -> [row EXCEPT !.postNoDebit = FALSE,
                                               !.restrictionReason = IF seen.postNoCredit THEN @ ELSE FALSE]
    [] r.kind = "blockCredit"   -> [row EXCEPT !.postNoCredit = TRUE, !.restrictionReason = TRUE]
    [] r.kind = "unblockCredit" -> [row EXCEPT !.postNoCredit = FALSE,
                                               !.restrictionReason = IF seen.postNoDebit THEN @ ELSE FALSE]
    [] r.kind = "activate"      -> [row EXCEPT !.status = "active"]

Update(p) ==
  /\ pc[p] = "update"
  /\ LET a == job[p].account IN
       /\ Free(a)
       /\ accts' = [accts EXCEPT ![a] = Updated(job[p], @, snap[p][a])]
  /\ Finish(p, "ok")
  /\ UNCHANGED <<liens, expired, journals, transactions>>

-----------------------------------------------------------------------------
(* PostgreSQL aborts one transaction of every cycle of waiting ones. *)
InWaitCycle(p) ==
  \E S \in SUBSET Proc :
    /\ p \in S
    /\ \A q \in S : pc[q] = "lock"
    /\ {owner[want[q]] : q \in S} = S

DeadlockVictim(p) ==
  /\ InWaitCycle(p)
  /\ Finish(p, "failed")
  /\ UNCHANGED <<data, expired>>

(* The service process dies: its open transaction is rolled back. *)
Crash(p) ==
  /\ pc[p] \in {"lock", "commit", "update"}
  /\ Finish(p, "lost")
  /\ UNCHANGED <<data, expired>>

(* Mutant: liens without an expires_at are due as well. *)
EveryLien == Lien \ expired

DueLiens == LienExpires \ expired

(* Nobody looks at the expiry of a lien that is no longer active. *)
ExpiryPasses(l) ==
  /\ l \in DueLiens
  /\ liens[l] = "active"
  /\ expired' = expired \cup {l}
  /\ UNCHANGED <<data, owner, pc, job, want, snap, target, res>>

(* Every request has been answered: nothing is left to do. *)
AllAnswered ==
  /\ \A p \in Proc : pc[p] = "done"
  /\ UNCHANGED vars

-----------------------------------------------------------------------------
Start(p, r) ==
  \/ StartPosting(p, r) \/ RefusePosting(p, r)
  \/ StartPlace(p, r) \/ RefusePlace(p, r)
  \/ StartLift(p, r)
  \/ StartUpdate(p, r) \/ RefuseUpdate(p, r)

Work(p) ==
  \/ LockAccount(p) \/ LockLien(p) \/ LienSettled(p)
  \/ Post(p) \/ PlaceLien(p) \/ LiftLien(p) \/ RollBack(p)
  \/ Update(p)
  \/ DeadlockVictim(p)

Next ==
  \/ \E p \in Proc, r \in Request : Start(p, r)
  \/ \E p \in Proc : Work(p)
  \/ \E p \in Proc : Crash(p)
  \/ \E l \in Lien : ExpiryPasses(l)
  \/ AllAnswered

(* The database serves every open statement; nothing forces a client to send a
   request, a process to crash or a clock to pass an expiry. *)
Fairness == \A p \in Proc : WF_vars(Work(p))

Spec == Init /\ [][Next]_vars /\ Fairness

-----------------------------------------------------------------------------
(* Correctness.                                                              *)

(* Two debits, or a debit and a lien, are checked on an unlocked row and again under the
   lock: no interleaving of transfers, postings and liens lets an account spend what it
   has not. A lien of a negative amount, which neither PlaceLienDto nor placeLien refuses,
   lends its amount while it is active; once it is lifted, and only then and by no more,
   the account may be overdrawn. *)
Lent(a) ==
  SumFunctionOnSet(LienAmount,
    {l \in Lien : LienAccount[l] = a /\ LienAmount[l] < 0 /\ liens[l] \in {"released", "voided"}})
Solvent == \A a \in Account : accts[a].lienAmount + Lent(a) <= accts[a].bookBalance

(* accounts.lien_amount is a running total kept by three handlers in two
   services; it equals the sum of the liens that are active. *)
HeldOn(a) ==
  SumFunctionOnSet(LienAmount, {l \in Lien : LienAccount[l] = a /\ liens[l] = "active"})
HoldsMatchLiens == \A a \in Account : accts[a].lienAmount = HeldOn(a)

(* Double entry: the lines of every journal balance, fee included. *)
Debited(lines)  == SumFunction([e \in lines |-> e.debit])
Credited(lines) == SumFunction([e \in lines |-> e.credit])
JournalsBalance == \A j \in journals : Debited(j.entry.lines) = Credited(j.entry.lines)

(* The customer balances behind a control ledger that cannot be booked directly
   differ from the opening ones by exactly what the journals say of the ledger. *)
BehindLedger(g) == {a \in Account : ControlGl[a] = g}
BooksOf(g) ==
  SumFunction([a \in BehindLedger(g) |-> accts[a].bookBalance - OpeningRow[a].bookBalance])
LinesOf(j, g) == {e \in j.entry.lines : e.gl = g}
NetCredit(g) ==
  SumFunction([j \in journals |-> Credited(LinesOf(j, g)) - Debited(LinesOf(j, g))])
ControlReconciled ==
  \A g \in {ControlGl[a] : a \in Account} \ DirectGls : BooksOf(g) = NetCredit(g)

(* A transfer retried after a lost answer, or sent twice at once, is posted once:
   of two journals with one reference at most one is a single transaction. *)
OnePostingPerReference ==
  \A j, k \in journals :
    /\ j.entry.reference = k.entry.reference
    /\ j.entry.transaction /\ k.entry.transaction
    => j = k

(* The rows a transaction computes with are the rows it will overwrite: nobody
   changes an account between the lock that read it and the commit. *)
SnapshotsCurrent ==
  \A p \in Proc : \A a \in Account :
    pc[p] \in {"lock", "commit"} /\ owner[a] = p => snap[p][a] = accts[a]

(* A transaction that reaches its writes holds the lock of every account row it
   names, the lien it lifts has stayed active since its own row was locked, and a
   request that is not inside a transaction leaves no row locked behind. *)
LocksHeld ==
  \A p \in Proc :
    /\ pc[p] = "commit" => \A a \in AccountsOf(job[p]) : owner[a] = p
    /\ /\ pc[p] = "commit" \/ (pc[p] = "lock" /\ want[p] \in Account)
       /\ job[p].kind \in LiftKinds
       => owner[job[p].lien] = p /\ LienIsActive(job[p].lien)
    /\ pc[p] \notin {"lock", "commit"} => Holds(p) = {}

(* The concurrent services implement the bank that does everything in one step. *)
Bank == INSTANCE AtomicBank WITH
  Posting <- {Effect(pl) : pl \in {q \in Payloads : Accepted(q)}},
  JournalId <- Proc,
  OpeningBook <- [a \in Account |-> OpeningRow[a].bookBalance],
  OpeningHold <- [a \in Account |-> OpeningRow[a].lienAmount],
  book <- [a \in Account |-> accts[a].bookBalance],
  hold <- [a \in Account |-> accts[a].lienAmount]

ImplementsAtomicBank == Bank!Spec

(* Every request whose process stays alive is answered: no set of transactions
   waits for each other forever, and an aborted one is answered as well. *)
RequestsAnswered ==
  \A p \in Proc : pc[p] \in {"lock", "commit", "update"} ~> pc[p] = "done"

(* "Executes a multi-leg double-entry general ledger and account transfer" (the doc of
   postMultiLegTransfer): one that names existing accounts and bookable ledgers, finds
   the funds and brings a new reference is not answered with an error. *)
PostsWhenItMay ==
  [][\A p \in Proc :
       LET pl == PayloadOf(job[p]) IN
       /\ pc[p] = "commit" /\ job[p].kind \in PostingKinds
       /\ Resolvable(pl) /\ Covered(pl, accts) /\ Ledgers(pl) \subseteq DirectGls
       /\ ReferenceFree(pl, transactions)
       => res'[p] \in {"none", "ok", "lost"}]_vars
=============================================================================
