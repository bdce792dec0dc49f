# Nue core banking: TLA+ models and proofs

Nue is a multi-tenant core-banking application (NestJS, PostgreSQL through drizzle, Redis, BullMQ,
MongoDB). This directory holds TLA+ modules of its core, the TLC configurations that check them on
small instances, and TLAPS proofs of the results that matter most for every instance.
Paths below are relative to the repository root.

## 1. Inventory

Three services share one PostgreSQL database and talk through BullMQ queues in Redis.

| Part | State it keeps | Operations | Interacts through |
|---|---|---|---|
| Posting engine, `libs/modules/src/ledger` | `accounts.book_balance`, `journal_entries`, `journal_entry_lines`, `transactions` | `postMultiLegTransfer` | called by transfers, account opening, loan disbursement and repayment; row locks on `accounts` |
| Posting guard, `libs/modules/src/account` | none | `assertPostingAllowed`, `generateAccountNumber` | reads a row its caller fetched without a lock |
| Transfers, `apps/api-service/src/transaction` | none | account to account, account to/from ledger | guard, then posting engine |
| Liens, `apps/api-service/src/lien` | `liens`, `accounts.lien_amount` | `placeLien`, `releaseLien` | locks lien and account rows; dispatches to the lien queue after its commit |
| Lien worker, `apps/worker-service/src/processors/lien.processor.ts` | the same | sweep (cron), `expireSingleLien` | lien queue, same rows |
| Accounts, `apps/api-service/src/account` | `accounts` | create savings, create loan, activate, block/unblock debit and credit | posting engine for opening balances; plain updates otherwise |
| Loans, `apps/api-service/src/loan` | `loan_details`, `loan_schedules` | calculate, approve, decline, undo, update, disburse | accounts, posting engine |
| Loan worker, `apps/worker-service/src/processors/loan.processor.ts` | the same | sweep, `processLoanRepayment` | loan queue, posting engine |
| Cron, `apps/worker-service/src/worker-service.service.ts`, `processors/base.processor.ts` | schedulers in Redis, schedules in MongoDB | `syncCronSchedules`, cron dispatch | default queue |
| Customers, ledgers, `apps/api-service/src/{customer,accounting}` | `customers`, `general_ledgers` | create, list | uniqueness checks |
| API guard, `apps/api-service/src/auth` | none | token and key checks | users, scopes |
| Portal, `apps/portal-service` | `users`, `roles`; retry counters and login marks in Redis | sign-in, refresh, reset, invite, set-up, block, role changes | cookies, tokens, email queue |
| Tokens, `libs/token` | `app_tokens` in MongoDB: links and sessions | create, verify, consume, delete, revoke | portal handlers and the cookie guard |
| Queues, `libs/background-process` | BullMQ jobs | `dispatchLien`, `dispatchLoan`, `dispatchEmail` | all services |
| Calculator, `libs/common` | `Big.DP`, `Big.RM` | decimal arithmetic on strings, conversion to minor units | every amount |
| Schemas, `libs/database` | the tables | constraints, indexes, defaults | everything |

What is hard in it:

* **Concurrency.** Requests run at READ COMMITTED. Most handlers read without a lock, decide, and act
  later. Only the posting engine and the lien handlers lock rows (`FOR UPDATE`), without `ORDER BY`.
* **Failure.** A service can die in any transaction, and between its commit and its dispatch. Queue jobs
  fail, stall and run twice. The posting engine reports errors in two ways: it throws, or it returns an
  error record, and some callers look at neither.
* **Time.** Liens expire by a delayed job or by a sweep; loan instalments fall due.
* **Numbers.** Balances are integers in minor units, but every sum passes through decimal strings.

What makes each part correct:

* posting engine: double entry, no overspending, no lost update, once per reference, all or nothing;
* liens: the running total `lien_amount` is the sum of active liens, a hold is returned exactly once,
  never early, and in the end;
* restrictions: Post No Debit and Post No Credit hold at the moment money moves;
* loans: one disbursement, schedules that add up to the principal, recovery in the waterfall's order,
  payoff when nothing is owed, schedules in step with the ledger;
* portal: nobody is left without a way to set up his sign-in, a link sets one password, an account is locked
  for wrong passwords only, a session ends with its time, with its user's sign-out or with a new password;
* onboarding: a customer, his account and its opening balance come into being together or not at all; account
  numbers are unique and can always be given.

`PROJECT.json` lists every component with its status and every hazard at its line.

## 2. Modules

| Module | Role | Models |
|---|---|---|
| `BankData` | constants and rows | `schemas/account.ts`, `schemas/lien.ts`, `types/transaction`, `Calculator` |
| `Posting` | operators on one payload | all of `postMultiLegTransfer`: validation, verdict, journal, balances |
| `AtomicBank` | abstract specification | what posting and liens promise, in one step each |
| `CoreBanking` | concurrent requests | transfers, postings, liens, restrictions, activation, locks, crashes |
| `SumTheorems` | lemmas with TLAPS proofs | what sums over finite sets do when a term is added, taken away or changed |
| `CoreBankingProofs` | TLAPS proofs | theorems about `CoreBanking`, and that it implements `AtomicBank` |
| `LienExpiry` | queue, workers, sweep, clock | `placeLien`'s dispatch, the lien processor, BullMQ's lien queue |
| `LienExpiryProofs` | TLAPS proofs | theorems about `LienExpiry` |
| `LoanLifecycle` | racing requests on a loan application | approve, decline, undo, update, disburse (`loan.service.ts`), `validateLoanChargeDetails`, activation of loan accounts |
| `LoanPayout` | abstract specification | what a disbursement promises, in one step |
| `DebtLedger` | abstract specification | what the collection of loans promises, in one step each |
| `LoanRepayment` | queue, workers, account owners, days | the loan processor: sweep, jobs, `processLoanRepayment` with the waterfall and its posting |
| `Amortization` | one calculation, instalment by instalment | `calculateLoanRepayment` for its three callers, the rows `disburseLoan` stores |
| `Portal` | racing requests, links, mails, sessions | portal auth and users, `libs/token`, the cookie guard, the email queue |
| `Onboarding` | racing requests, transactions, connections | `createCustomer`, `createSavingsAccount`, `createLoanAccount`, `createGlAccount`, `generateAccountNumber` |
| `LoanLifecycleProofs`, `LoanRepaymentProofs`, `AmortizationProofs`, `PortalProofs`, `OnboardingProofs` | TLAPS proofs | theorems about the module each is named for |
| `MCCoreBanking`, `MCLienExpiry`, `MCLoanLifecycle`, `MCLoanRepayment`, `MCAmortization`, `MCPortal`, `MCOnboarding` | instances for TLC | |

### CoreBanking

Every element of `Proc` is one request (an HTTP call, a queue job) that is answered once. Its `pc` walks
`idle -> lock -> commit -> done`, or `idle -> update -> done` for the one-statement updates.

| Action | Code |
|---|---|
| `StartPosting`, `RefusePosting` | `transferAccountToAccount`, `transferBetweenAccountAndGl` up to the call of the engine, its validation included; kind `ledger` is any direct call of the engine |
| `LockAccount` | `SELECT ... FOR UPDATE` granting one row; the row read is kept in `snap` |
| `Post`, `RollBack` | the rest of the engine's transaction: every check in the order of the code, then the inserts and the upsert of balances |
| `StartPlace`, `PlaceLien` | `placeLien` |
| `StartLift`, `LockLien`, `LienSettled`, `LiftLien` | `releaseLien` and `expireSingleLien` |
| `StartUpdate`, `Update` | activation and the four restriction endpoints: decided on an unlocked read, written by one UPDATE |
| `DeadlockVictim` | PostgreSQL aborts a member of a wait cycle |
| `Crash` | the process dies, the database rolls back |
| `ExpiryPasses` | a lien's `expires_at` goes by |

A transaction takes its locks one by one and writes at its commit. That is enough: what it writes before
is invisible to others, and what it read is protected by its locks, which is itself checked
(`SnapshotsCurrent`, `LocksHeld`). An insert that meets an uncommitted row with the same unique reference
waits for that row's transaction, which by then has all its locks and waits for nobody; so judging the
reference at commit loses no behaviour. Ledger rows are read without a lock and never change.

Two values of the source are parameters, `BigDP` (20) and `FkDeferred` (FALSE), because with them as they
are no posting that touches an account ever commits (run `as_shipped`). All other runs set them to values
under which the engine works (0, TRUE) and check the design it then has. The proofs hold for every value.

Simplifications: one tenant (every query filters by it); the transaction date, narration and currency are
left out; amounts are integers in minor units, those of liens negative as well, because `PlaceLienDto` asks for a
number string and nothing else; whether a payload has a fee is asked as the code asks it (`HasFee`), and a fee of 0 is
one; a leg list is a function from ids to amounts, so that an
id named twice in one list is not representable (the code rejects it).

### LienExpiry

`Place`, `Release` and `ExpireSingleLien` are the transactions of CoreBanking as single steps. Around them:
the dispatch after the commit (`Dispatch`, `DispatchLost`), the sweep (`Sweep`, `SweepDispatches`,
`SweepBreaksOff`), the queue's job of each lien (`TakeJob`, `RunJob`, `CompleteJob`, `JobFails`,
`JobStalls`), the worker that lost its job and still commits (`GhostRuns`), and the clock of each lien.
BullMQ is external: it is modelled by what the code asks of it (delay, `jobId`, `removeOnComplete`,
`removeOnFail`, no `attempts`, `maxStalledCount`). A delay, counted from the dispatch, ends at the expiry
or later. The conditions under which a sweep reads rows are those of its query; `LIMIT` without `ORDER BY`
returns any rows. `BigDP` is the parameter of CoreBanking: with decimals the conversion of the remaining hold throws
(`ExpiryThrows`), while `placeLien` and `releaseLien`, which print their amounts otherwise, go on.

### LoanLifecycle

Requests on the two rows of a loan, `loan_details` and `accounts`. `Start` reads both without a lock and
makes the checks of the handler; `Plan` is the list of what the handler's transaction claims, in the order of
its statements: rows it locks, and accounts its foreign keys refer to; `Lock` and `ShareKey` take the next; one
action per handler writes and commits. An UPDATE that waits for a
row and the lock it then holds until the commit are one thing, so its write is made at the commit.

| Action | Code |
|---|---|
| `Start`, `Refuse` | the read and the checks of all handlers; the reads of linked accounts and ledgers that follow it are made with it |
| `Lock` | `FOR UPDATE`, or an UPDATE, granted its row |
| `ShareKey` | the check of a foreign key that an UPDATE of `loan_details` changes: `FOR KEY SHARE` on the account it refers to |
| `ApproveLoan`, `DeclineLoan`, `UndoApproval`, `UpdateLoanDetails`, `ActivateAccount` | the handlers' writes |
| `UndoMisses` | the UPDATE of `undoApproval` whose WHERE asks for the status it read, and finds another |
| `RejectDisbursement` | the status check of `disburseLoan` under its lock, and the validation of its posting |
| `DisburseLoan`, `RollBack` | posting (through `Posting`), `_DEB` transaction, loan row, loan account, schedule; the posting's error |
| `DeadlockVictim`, `Crash` | as in CoreBanking |

Charge and principal are kept, with fixed and percentage charges, upfront and by instalments, and with the
rounding of `toMinor`; the principal stands for the remaining terms (tenor, rate, moratorium), which are
read and written at the same places. A key share keeps only `FOR UPDATE` waiting, which the handlers ask for on
`loan_details` and on the account a loan is paid to; so references to accounts are claims, and those to ledgers are not. An upfront fee of less than half a minor unit is not among the instances: the code
would post a line of 0 for it. `approvedTerms` is a history variable, read by a property only.

### LoanRepayment

Disbursed loans with their instalments, and what is taken for them out of the repayment accounts.

| Action | Code |
|---|---|
| `Sweep`, `SweepBreaksOff` | `handleLoanRepaymentSweep`: the query, then a job per loan whose id carries the day; an error in the middle is swallowed by `DefaultProcessor` |
| `TakeJob`, `JobStalls` | a worker gets a job; its lock in the queue runs out, because it died or because it hangs and goes on |
| `LockLoan`, `LoanNotOpen`, `LockAccount`, `AccountMissing` | the two `FOR UPDATE` queries of `processLoanRepayment` and its early returns |
| `MarkOverdue` | the account is inactive or on Post No Debit: what is due becomes overdue |
| `Collect` | loop over the due instalments, waterfall, posting, `_CRD` transaction, loan account, outstanding balance, payoff; one commit |
| `CollectThrows` | the posting or a conversion throws: rollback, the job fails |
| `PayInOrOut`, `RestrictOrRelease` | other requests on the account's row |
| `NextDay` | due dates come, and with the day the ids of jobs change |

`Collection` is the loop, a recursive function over the instalments that `Step` advances; `Taken` is the
waterfall in closed form: each bucket takes what it is owed out of what the buckets before it leave. The
nested posting is judged by the operators of `Posting` (`PostingAnswer`). Its answer is not looked at by the
handler: a throw rolls everything back, a structured error does not (`Posts`), and the rows of the loan are written
although nothing was posted. That is what happens with `FkDeferred` FALSE, the value of the source: `BooksAgree`
says by how much the books part then.
`ServedCrons` names the cron jobs `DefaultProcessor` has a case for. In the source
`HandleLoanRepayment` is not among them, and the sweep never runs; the runs add it, to check the rest.

Simplifications: the statuses `pending` (of an instalment) and `active` (of a loan) are never set and left
out; time is counted in days; a loan has instalments from the start. Amounts per bucket, and the separately
rounded total, are what `disburseLoan` may have written.

### Amortization

One calculation at a time: `Begin`, then an instalment per step, then `Return`, and `Store` for a disbursement.

| Action | Code |
|---|---|
| `Refuse`, `Begin` | the checks of `calculateLoanRepayment` and the start of its loop |
| `Grace` | an instalment of the moratorium, with or without interest |
| `Instalment`, `LastInstalment` | an active instalment: the annuity or the flat share; the last one takes the balance |
| `Return`, `Store` | the answer; the rows of `disburseLoan`, rounded to minor units one by one |

Amounts are integers that count the last decimal the calculator keeps (`Scale`); `HalfEven` is its rounding,
made after each operation as in the code. `Power` is a recursive function, and the sums are `SumFunction`, for the sake of the
proofs. `Dto` is what each caller hands over: the view of a loan passes the
principal in minor units and no charge, and neither it nor the disbursement passes the rate type. A moratorium of
type `none` with a length is a legal request: the code counts no grace and still divides by fewer instalments, so
that a flat loan repays more than its principal; the properties say `Regular` where they leave it out. A `daily`
loan has twelve periods a year. Due dates are left out. The module has no type invariant of its own: its state
is numbers, and its properties bound them.

### Portal

One user, several requests, each a list of steps (`Plan`); every await of a handler is one of them, and no
handler has a transaction.

| Action | Code |
|---|---|
| `Start` | a request comes in, with a link or a cookie its sender has and a code his authenticator shows |
| `Read` | the look-up of the user, and every refusal that depends on him |
| `Insert`, `ClearKey`, `Activate`, `SetStatus`, `SetPassword` | the writes to `users` |
| `Verify`, `Consume`, `Drop`, `Revoke`, `Create`, `Show` | `TokenSessionService` as the handlers and `CookieGuard` use it |
| `CheckMark`, `SetMark`, `ReadCount`, `Recount` | the two halves of the sign-in and the counter of wrong passwords |
| `SendMail`, `Deliver`, `MailFails`, `NextWindow` | the email queue, with the jobId of an invitation and its window of five minutes |
| `LogOut` | the cookies go, the session stays: the route is public, and no guard says whose it is |
| `Crash`, `TokenExpires`, `CacheExpires` | faults and time |

Passwords, secrets, links and sessions are named by the request that made them. `signedOut`, `expired`, `resets` and
`wrongs` are history variables, read by properties only. An administrator acts on others
only, so the acting user is not kept. Notifications without a link are left out, and so is the code that is
accepted in development only. Access and refresh token are one cookie: a call verifies, a refresh verifies and
renews.

### Onboarding

Requests on `customers`, `accounts`, `general_ledgers` and `transactions`, again as lists of steps, one per
statement. Statements of a transaction are visible to others after its commit; a unique index lets an insert
wait for an uncommitted row and fail against a committed one.

| Action | Code |
|---|---|
| `Check`, `CheckLinked`, `CheckParent`, `CheckLedgers` | the reads before (and, in `createCustomer`, inside) the transaction, each on a connection from the pool |
| `Begin`, `Commit` | the transaction, which keeps a connection |
| `InsertCustomer`, `InsertAccount`, `InsertDetails` | `createCustomer`, `createAccountRecord`, the details |
| `CountAccounts`, `NumberExists` | `generateAccountNumber`: count, look, up to three attempts |
| `PostOpening`, `SetBook`, `InsertReceipt` | the opening balance: the posting, the balance, the second transactions row |
| `InsertLedger` | the only write of `createGlAccount` |
| `Crash` | a service dies, its transaction is rolled back |

Names, addresses and terms are left out, and the charge rules of a loan account (they are in `LoanLifecycle`).
Deleted rows do not occur: nothing in the services deletes. The posting of the opening balance is taken as one
that succeeds. A commit is one step; two rows of one transaction become visible together.

### How they compose

`CoreBanking` and `LienExpiry` both implement `AtomicBank` under the mapping that drops what is not
visible to a caller. CoreBanking shows that the transactions are atomic; LienExpiry uses them as atomic
steps and shows that queue, workers and clock never lift a hold twice. LoanLifecycle and LoanRepayment use the operators of
`Posting` for the nested postings of a disbursement and a repayment. LoanLifecycle implements `LoanPayout`, with
requests, locks, stale rows and the status hidden: only what a loan was approved under, what it was paid by, what is owed,
the customers' balances and the fees are left. LoanRepayment implements `DebtLedger`,
with everything of the queue, the locks and the instalments hidden; `Paid` is a parameter of that specification and says
whether what reduces a debt leaves the account with it, which is `FkDeferred` of the code.

## 3. Runs

| Run | Instance | Checks | Result |
|---|---|---|---|
| `core_bank` | 3 requests of 15 kinds | `TypeOK`, `Solvent`, `HoldsMatchLiens`, `JournalsBalance`, `ControlReconciled`, `OnePostingPerReference`, `SnapshotsCurrent`, `LocksHeld`, `ImplementsAtomicBank`, `RequestsAnswered` | holds, 132 thousand states |
| `lien_expiry` | 3 liens, batch of 1, 2 faults | `TypeOK`, `NeverVoidedEarly`, `ImplementsAtomicBank`, `LiftedUnlessStuck` | holds, 32 thousand states |
| `loan_lifecycle` | 2 loans, 4 requests of 17 kinds, requests symmetric | `TypeOK`, `DisbursedOnce`, `BooksAgree`, `OnlyCrossingsDeadlock`, `ImplementsLoanPayout` | holds, 281 thousand states |
| `loan_repayment` | 2 loans on one account, 2 workers, 2 days, 1 fault, 1 change of the account | `TypeOK`, `BooksAgree`, `CollectedInOrder`, `ClosedMeansPaid`, `RestrictionHonoured`, `ImplementsDebtLedger` | holds, 286 thousand states |
| `loan_due` | 2 loans, one account missing, a ledger closed to booking, 1 worker, 2 faults | `BooksAgree`, `DueIsCollected` | holds, 50 thousand states |
| `amortization` | tenors of 1 to 4, grace of 0 to 2, with and without interest, 5 charges, 3 callers | `PrincipalRepaidOnce`, `InstalmentsAddUp`, `LastLikeTheOthers`, `StoredAddsUp` | holds, 54 thousand states |
| `portal` | 1 user found in 6 situations, 3 requests of 13 kinds, 1 fault, 2 windows, requests symmetric | `TypeOK`, `NeverStranded`, `ResetLinkUsedOnce`, `LockedForCause`, `NobodyThrownOut` | holds, 1.4 million states |
| `onboarding` | 3 requests, 2 offices, 2 connections, requests symmetric | `TypeOK`, `AllOrNothing`, `NumbersStayClose`, `StuckOnlyOnThePool` | holds, 351 thousand states |
| `as_shipped` | 2 requests of 21 kinds, `BigDP` 20, `FkDeferred` FALSE | `PostsWhenItMay` | violated |
| `lien_stuck` | as `lien_expiry`, 1 fault | `ReleasedAtExpiry` | violated |
| `loan_races` | 2 loans, 3 requests of 6 kinds | `OnlyPendingLoansChange` | violated |
| `portal_resend` | 3 invitations, no faults | `InvitationArrives` | violated |

What the passing runs show, in words:

* `Solvent`: book balance less liens never goes below zero, although funds are checked before any lock. A lien of
  a negative amount, of which one is among the instances, lends its amount while it is active; once it is lifted the account may
  be overdrawn by that much, and by no more.
* `HoldsMatchLiens`: the running total of holds equals the active liens.
* `JournalsBalance`, `ControlReconciled`: each journal balances, and what the journals say of a control
  ledger is what happened to the customer balances behind it.
* `OnePostingPerReference`: a retried or doubled transfer is posted once.
* `SnapshotsCurrent`, `LocksHeld`: no lost update; locks are complete and never left behind.
* `ImplementsAtomicBank`: nothing is ever visible half way.
* `RequestsAnswered`: opposite transfers may lock in opposite orders and do deadlock; the abort answers one
  of them and frees the other. Three requests form circles of two and of three.
* `NeverVoidedEarly`: the worker does not look at the expiry; the delay alone protects the lien.
* `LiftedUnlessStuck`: lost dispatches, broken sweeps, failed and stalled jobs delay an expiry but do not
  lose it, except by a job that failed and keeps its id, or when such liens fill the sweep's batch.
* `DisbursedOnce`: a loan is paid at most once. The check under the lock is not what guarantees it: a late
  approval brings a disbursed loan back to approved, and the unique reference stops the second payment. It
  takes four requests to get there, which is why the run has four.
* `BooksAgree`: journal, loan account, schedule and customer account show one payment, although all are
  computed from rows read before the transaction.
* `OnlyCrossingsDeadlock`: the handlers lock a loan's two rows in two orders (approve, decline and update the account first, undo
  and disburse the details first), and do deadlock; so do two payments whose accounts cross, by the foreign key of
  one and the `FOR UPDATE` of the other. The property says that nothing else does: any circle of waiting requests, of any
  length, has one of these two pairs in it. A handler whose order is changed breaks it.
* `ImplementsLoanPayout`: a loan is paid in one step, once, by terms it had at some time while it was approved
  (not necessarily the latest), and what is owed is
  what the customer received and the fee together. It fails without the validation of the posting, since fee and net amount
  are rounded apart; without the unique reference; and without the check of the status before the transaction.

* `BooksAgree` (of repayments): instalments, loan account, outstanding balance, receipts, journal and customer
  account tell the same story, although jobs run twice and loans share an account; in `loan_due`, also when the posting
  throws. Where the ledger does not post, the loan's books agree with the instalments, the ledger's with the accounts, and
  the two sides are apart by what was collected; that is proved, and holds in the instance of `loan_repayment` as well if its
  `FkDeferred` is set to FALSE.
* `CollectedInOrder`: the oldest instalment and the first letter of the strategy come first over any number of
  partial runs.
* `ClosedMeansPaid`: a closed loan owes nothing, not even an instalment that is not due yet.
* `RestrictionHonoured`: unlike a transfer, a repayment judges Post No Debit on the locked row.
* `ImplementsDebtLedger`: a debt falls only by money that leaves the account in the same step, and only as far
  as something is owed. The row locks carry this: without them it fails.
* `DueIsCollected`: again and again everything due is collected, except where the account cannot pay or the
  job of the last day has failed.

* `PrincipalRepaidOnce`: the instalments repay the principal, all of it and not more, whatever was lost to rounding.
* `InstalmentsAddUp`: each total is the sum of its parts, the totals are principal, interest and charges, and the
  charges by instalment come to the charge within half of the last decimal for each.
* `LastLikeTheOthers`: what rounding leaves to the last instalment is a small part of it; an annuity for the
  wrong number of periods, or at the wrong rate, would show as a jump at the end.
* `StoredAddsUp`: rounded once more to minor units, principal and totals stay within half a unit of each part.

* `NeverStranded`: inviting, inviting again, resetting and completing race over the links of a user, each
  revoking before it creates and deleting after it writes. A user who lacks a password or an authenticator always
  has a link, or a request that is about to issue one. A crash between the revocation and the creation leaves him
  without, until an administrator asks again; the property is about the races.
* `ResetLinkUsedOnce`: the link is deleted when it is looked up, in one operation, so two requests with one link
  set one password.
* `LockedForCause`: attempts in parallel are lost from the count and never added to it.
* `NobodyThrownOut`: a refresh leaves the session before it alive, so calls in flight with the old cookie succeed. A session
  may end with its time, with its user's sign-out and with a password set through a link, and for no other cause: not
  because a link was asked for, and not because an administrator acted. The code as it is does not end one in the two cases in which it means to (a finding); the
  property leaves both open and holds with a `resetPassword` and a `logOut` that revoke sessions as well.

* `AllOrNothing`: whatever fails or dies between the statements, an account has its details and its customer, a
  customer his account, and no row of a posting is left without its account.
* `NumbersStayClose`: numbers are unique, and every gap a collision leaves is one the next creations can get over.
* `StuckOnlyOnThePool`: transactions wait for each other's unique keys and never in a circle; what can stop
  everything is the look-up of ledgers inside `createCustomer`, which needs a second connection. `Blocked` writes out
  the guards of the statements, and is found by TLC to be the negation of their ENABLED in every state of the run.

What the violated runs show, each against a sentence of the repository that `PROJECT.json` quotes under `findings`:

* `as_shipped`: the decimal strings and the immediate foreign key make every posting fail.
* `lien_stuck`: one failed run of the job that was dispatched with the lien keeps its id, and no sweep can dispatch the lien
  again. `LiftedUnlessStuck` says that nothing else keeps a lien from being lifted.
* `loan_races`: the details of a loan change after its approval.
* `portal_resend`: an invitation sent again while its first mail is queued arrives with a revoked link.

Further findings have no run: their reading is one line of the model, named there, and seldom is an interleaving needed to see
them. Restrictions are judged on a stale row, and for a credit not at all; with decimals the expiry of a lien throws as well; a loan that is
taken back, changed and approved anew while its disbursement is under way is paid by what it was before; a repayment whose posting is answered with an
error is recorded as collected; a loan whose last collection is interest alone stays open; an instalment may be paid with a unit of
its parts uncollected; the sweep of loans is never served; a reset of the password and a sign-out revoke no session; wrong passwords in
parallel count as one; an opening balance is posted twice under one reference, so that its account is never created.

**Bounds.** Accounts: two savings accounts, a loan account and an unknown id, which are all the roles the
code tells apart; every transfer has two ends. Ledgers: a control ledger that cannot be booked directly
and a fee ledger that can. Balances of 4 and 2 units let one of two competing debits through and not both.
Liens: one active from the start, two to be placed that share a reference, one of them of a negative amount. `MaxItems` is 3 so that a list
of four exceeds it. Three processes make wait cycles of two and three and let a third request see what two
others race for. `LoanLifecycle` has one loan under review and one
approved that share the account they are paid to, or are each repaid from the account the other is paid to. `LoanRepayment`: two loans on one account compete for its balance (5 units, 1 held, 9 owed), one
with two instalments and one whose total is rounded down, under two strategies; a second day makes a job of
the day before and one of today run side by side; one change pays in, pays out or restricts; one fault stalls a job or breaks a
sweep. `loan_due` has one worker, since two make its liveness graph too large; the second fault makes a job stall
too often and fail. `Amortization` keeps three decimals and shows one,
so that a third of anything is rounded twice; powers of more factors do not fit TLC's integers, so four
instalments are with a grace period. `Portal`: three requests are two that race and one that profits from it;
the situations put each flow within reach of three requests, the counter with one wrong password on record. One
fault at a time: each of them alone cuts a handler in two. `Onboarding`: three requests exceed two connections,
and meet on one office, one email, one reference and one ledger code. `NumberSpace` is 10, far enough for
three numbers. In `LienExpiry`, `BatchSize` is 1 so that two due liens exceed it; two faults are enough
to exhaust `MaxStalled`, and to lose a dispatch and then break a sweep.

**Fairness.** `CoreBanking`: weak fairness of `Work(p)` for each request: PostgreSQL serves every open
statement and grants a free row lock to a waiter. A request that waits for a row is served when the
holders are done; each process serves one request, so no newcomer takes the row from it for ever.
Nothing is assumed of clients, crashes or clocks.
`LoanLifecycle`: the same formula.
`LienExpiry`: the cron job repeats for ever (`upsertJobScheduler`), workers serve the queue, and time
passes.
`LoanRepayment`: the cron job repeats, days pass, a worker that has taken a job goes on, and a waiting job is
not passed over for ever (strong fairness per loan), because BullMQ's list is first in, first out. `Amortization`, `Portal` and `Onboarding` state safety only and assume no
fairness. Faults are bounded by `MaxFaults` and never fair; nobody has to place or release a lien.

## 4. Proofs

`CoreBankingProofs` proves, for every set of accounts, liens, ledgers, requests and processes that meets
the assumptions of `BankData` and `CoreBanking`:

* `TypeCorrectness`: `Spec => []TypeOK`
* `LockDiscipline`: `Spec => []LocksHeld`
* `ReadsStayCurrent`: `Spec => []SnapshotsCurrent`
* `AccountsStaySolvent`: `Spec => []Solvent`, for liens of any amount
* `PostedOnce`: `Spec => []OnePostingPerReference`
* `HoldsAddUp`: `Spec => []HoldsMatchLiens`
* `EveryJournalBalances`: `Spec => []JournalsBalance`
* `ControlLedgersReconcile`: `Spec => []ControlReconciled`
* `BankRefinement`: `Spec => ImplementsAtomicBank`

The inductive invariant is `IInv == TypeOK /\ Prepared /\ LocksHeld /\ SnapshotsCurrent`. `Prepared` says
what a request has established by the time it reaches a step (its payload was accepted, its lien exists in
the state its kind needs). None of the named properties is inductive without the others: a row is current
only because its lock is held, and a lock set is complete only because the request's kind fixes its rows.
Each action preserves each conjunct in a lemma of its own; `Invariance` puts them together.
`AccountsStaySolvent` then needs only that a posting computes with current rows and covered amounts, and
`PostedOnce` that a single-transaction journal leaves its reference in `transactions`. The three sums follow
from the same invariant: `HoldsAddUp` changes one term of a sum over liens when a lien is placed or lifted;
`EveryJournalBalances` goes back to the validation of the engine, whose totals of debits and credits are the
sums of the lines it writes; `ControlLedgersReconcile` compares, ledger by ledger, the control lines of a
journal with what the same posting does to the customer balances behind it. The refinement maps
`Post`, `PlaceLien` and `LiftLien` to the abstract steps and everything else to a stutter.

`LienExpiryProofs` proves, for every set of liens, batch size, stall limit and number of faults:

* `ExpiryTypeCorrectness`: `Spec => []TypeOK`
* `NeverEarly`: `Spec => NeverVoidedEarly`
* `ExpiryRefinement`: `Spec => ImplementsAtomicBank`

Its inductive invariant is `TypeOK /\ Placed /\ Due`. `Placed` says that only liens which were placed are
dispatched, swept or worked on. `Due` says that whoever works on a job, the worker that holds it or one that
lost it to a stall, got it after the expiry; that is what replaces the check of `expires_at` that
`expireSingleLien` does not make. The refinement maps `Place`, `Release` and every successful
`ExpireSingleLien` to the abstract steps, and the whole queue to a stutter.

`LoanLifecycleProofs` proves, for every set of loans and every set of requests on them:

* `TypeCorrectness`: `Spec => []TypeOK`
* `LoansArePaidOnce`: `Spec => []DisbursedOnce`
* `PaidByApprovedTerms`: `Spec => []OnlyApprovedTermsPaid`, the part of the refinement that names no amounts; its
  definition is in the proof module
* `BooksAreKept`: `Spec => []BooksAgree`
* `DeadlocksNeedCrossings`: `Spec => []OnlyCrossingsDeadlock`
* `PayoutRefinement`: `Spec => ImplementsLoanPayout`

The invariant says of each disbursement at work (`Disbursing`) that the terms it read are terms the loan had
while it was approved, which rows it holds by now, and that it comes to its writes only while the reference of
its loan is not in `transactions`. `PaidOnce` ties journals and schedules to that reference. This is the argument of
`disburseLoan` made explicit: the lock on `loan_details` keeps two disbursements of a loan apart, and the unique reference,
not the status, keeps the second from paying, even after a late approval. `BooksAreKept` adds the sums
(`Books`) and needs to know what a posting credits, to which the validation of its payload is the key.
`DeadlocksNeedCrossings` needs the invariant `Holding`: a lock or a key share belongs to a request that is at
work, and is one of those its plan has put before its next claim. What is left is to look at what a member of a circle can wait for: the account row of a loan
(`AtAccount`), the account a loan is paid to (`AtPayment`), a reference to one (`AtReference`), or the loan's details. In each case the
request it waits for, or the one that waits for it, is the other half of a crossing, because it
has yet to claim something itself (`CirclesCross`). `PayoutRefinement` maps `DisburseLoan` to the payout, a change that
leaves a loan approved to a review, and everything else to a stutter. It adds to the invariant that a
disbursement past its first row has had its posting accepted (`Checked`), from which the fee is the principal less the net amount.

`LoanRepaymentProofs` proves, for every set of loans, every schedule, every order of the waterfall, any number
of workers and any history of the accounts:

* `TypeCorrectness`: `Spec => []TypeOK`
* `ClosedLoansArePaid`: `Spec => []ClosedMeansPaid`
* `OldestFirst`: `Spec => []CollectedInOrder`
* `RestrictionsHold`: `Spec => RestrictionHonoured`
* `BooksAreKept`: `Spec => []BooksAgree`
* `DebtRefinement`: `Spec => ImplementsDebtLedger`

`Locked` says that what a worker read under its locks is still what the rows say; `Kept` says of each loan that
its instalments are rows a run of the loop can leave (`Fits`), that its own books agree with them, and that a closed
loan owes nothing. `TakenIs` proves that the closed form of the waterfall takes in order, never more
than a bucket is owed nor than there is, and everything if something is left; `LoopGoes` carries this through the
loop over the instalments, as an invariant of the numbers of steps made.
Both values of `FkDeferred` are covered: what is posted is what is collected, or nothing, and the two sides of the books are
compared under that (`Posted`).

`AmortizationProofs` proves, for all terms a loan can have and any resolution of the calculator:

* `InstalmentsAreSums`: `Spec => []InstalmentsAddUp`
* `NothingIsLeft`: `Spec => []NothingLeft`, the first three parts of `PrincipalRepaidOnce`
* `LoansRepaidOnce`: `Spec => [](Enough => PrincipalRepaidOnce)`
* `StoredRowsAddUp`: `Spec => [](PrincipalRepaidOnce => StoredAddsUp)`
* `StoredLoansAddUp`: `Spec => [](Enough => StoredAddsUp)`
* `InstalmentsAreLevel`: `Spec => [](Enough => LastIsNearTheOthers)`
* `LoansAreLevel`: `Spec => [](Enough /\ Fine => LastLikeTheOthers)`

The invariant `IInv` carries the sums (`SumsKept`), what each instalment bears of charge and principal
(`TurnsKept`), and that what is left and what is repaid come to the principal at least (`LeftKept`). That an instalment
before the last never takes more than is left, so that the code's clamp at 0 never hides anything, is `Exact`. Equal
shares are rounded up by at most half a last decimal each (`SharesFit`). For an annuity what an instalment repays
grows like a power of the rate, and so does what the rounding of the annuity adds to it: `Ahead` bounds it by the two
powers that the annuity is worked out from. It holds at the start by the three roundings in the annuity (`StartsAhead`), and stays
because the rounding of one interest weighs less than the interest saved (`StaysAhead`); an instalment that is
`Ahead` leaves no less than nothing (`AheadLeaves`). `Enough` says what these bounds need: `n` equal shares of a principal
with at least `n * (n - 1) / 2` last decimals, or an annuity whose own interest in one period is at least two last decimals
per unit of `(1 + r)^n`. With twenty decimals a loan falls short of it if its
principal or its rate differs from 0 in the last decimals only, or if it runs so long at so high a rate that
`(1 + r)^n` comes near 10^20. The hypothesis cannot go: for such a rate the numerator is rounded to a few last decimals, and
over such a time half a last decimal in the annuity grows to the size of the principal. The annuity is then too large, the
instalments before the last take more than is left, and more than the principal is repaid.
In the run `amortization` every calculation that returns has `Enough`.

`Ahead` bounds the roundings from above; `Level`, with `Drift` and `Room`, bounds them from both sides (`StartsLevel`, `StaysLevel`,
`EndsLevel`), so that the last instalment, which takes what is left, is as near to the one before it as all the roundings together:
half a last decimal for each equal share, and for an annuity at rate `r` a distance `d` with `2 * r * d <= 2 * (1 + r)^n + emi` in last
decimals. That is `LastIsNearTheOthers`, without any constant of ours. `LastLikeTheOthers` names a fraction of the principal
(`Accuracy`) instead, and follows where this bound is below that fraction, which `Fine` says of the terms. With twenty decimals a loan of a
hundred thousand at one percent a period is `Fine` up to an `Accuracy` near 10^19; in the run, which has three decimals, both `Enough` and
`Fine` are met by annuities and by equal shares.

`PortalProofs` proves, for any number of users, requests, faults and any limit of retries:

* `TypeCorrectness`: `Spec => []TypeOK`
* `OneResetPerLink`: `Spec => []ResetLinkUsedOnce`
* `LocksHaveCause`: `Spec => []LockedForCause`
* `SessionsAreKept`: `Spec => []NobodyThrownOut`
* `SetUpStaysOpen`: `Spec => []NeverStranded`

The invariant has a part per property over a common core (`Steps`: what may be left of a request's plan;
`SetUpInOrder` and `RowsRead`: what a row read earlier still says). `ResetsCounted`: a link that is being used is dead
already, and one request uses it. `CountsBounded`: the wrong passwords that are read and not yet written back are at most
those missing from the count. `SessionsLast`, from which `NobodyThrownOut` follows: as the code is, a session somebody holds ends by its time alone. `LinksKept`: whoever lacks
an authenticator has a live link, or a request that has yet to create one.

`OnboardingProofs` proves, for any number of requests, offices, connections and any space of numbers:

* `TypeCorrectness`: `Spec => []TypeOK`
* `NothingByHalves`: `Spec => []AllOrNothing`
* `NumbersClose`: `Spec => []NumbersStayClose`
* `OnlyThePoolBlocks`: `Spec => []StuckOnlyOnThePool`
* `OpeningBalancesAreNeverPosted`: `Spec => []NeverPosted`

`Shape` says where in its plan a request is and what it holds there; `Owned` says which rows a request at that
place has written, and that those of a request that ended are complete. `Numbered` and `Tried` bound every number, taken or
about to be, by the count of the office's accounts plus the attempts; the count only grows, so the bound is kept while others
commit. That is why gaps left by collisions never exceed what the attempts bridge. `OnlyThePoolBlocks` goes through the statements
that can wait for a row from the last to the first: the row a request waits for was inserted by one that is further in its plan, and that one is
shown before not to wait (`TransactionsDoNotCircle`). What is left to wait for is a connection. `NeverPosted` is the finding on opening balances for every request: the
second row under the reference of the posting always fails, so no account with an opening balance to post is ever committed.

**Assumptions.** Ids of accounts, ledgers, liens, loans and processes are disjoint, and `None` is none of them; tables have finitely
many rows (`FiniteAssumption`); the rows a history starts from are rows the services can have written: solvent,
with the holds their active liens add up to (`HoldsAssumption`), loans not yet paid, portal users who were set up in
order and whose links are their own (`OpeningAssumption`); requests are of the kinds the DTOs allow; instalments are stored in
the order of their due dates. None restricts the amounts of liens, and none the values of `BigDP`, `FkDeferred` and
`ServedCrons`.
TLC evaluates the assumptions of a module in each of its runs.

**Sums.** The induction theorems of the library take an operator as a parameter, which the provers cannot instantiate.
`SumTheorems` does without: it takes the set of the numbers (`EveryNumber`) or of the parts of a finite set (`EveryPart`)
for which a claim holds, and shows that the set has them all. From there a sum is shown to exist, not to depend on the order
of its terms, and to change by a term when one is added, removed or updated. The models take their sums with `SumFunctionOnSet`
for this reason.

**Only model-checked.** `RequestsAnswered`, `LiftedUnlessStuck` and `DueIsCollected` are liveness under fairness, which is TLC's.
That `Blocked`, the guards of `Onboarding` written out, is the negation of their ENABLED was compared by TLC as well. And what `Power` or
`HalfEven` return is proved here as far as the loop needs it, not against a reference.

## 5. Plan

What is modelled is complete in the sense of the component list. Every invariant and action property of a passing run is proved,
`PrincipalRepaidOnce` and `StoredAddsUp` for terms with `Enough` and `LastLikeTheOthers` for terms with `Enough` and `Fine`. What may be added:

1. Abstract specifications of what a link promises (`Portal`) and of how numbers are given out (`Onboarding`), and
   that the modules implement them.
2. Action properties of the loan and portal modules that would say of one step what their invariants say of a history.

## 6. Not modelled

* The cron synchronisation (`worker-service.service.ts`): it runs once at each start, writes the wanted state
  over whatever it finds, and is repeated in full by the next start. A schedule that is missing until then is what
  the fairness of the sweeps assumes away.
* Roles (`role.service.ts`): writes of single rows. `deactivateRole` counts the users of the role first and may
  miss one that becomes active meanwhile.
* The API's guard: a check of one request against rows it reads.
* Email rendering and sending, templates, token signing, seeds, configuration, interceptors, exception filters,
  DTO validation messages and the read-only list endpoints keep no state that a property could be about.
* Cross-tenant access is a filter in every query and not a behaviour. Real time, the size of numbers beyond exact
  integers (the columns are 64-bit, the balances unbounded in the model) and database failures other than
  rollback are left out.
