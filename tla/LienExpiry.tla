----------------------------- MODULE LienExpiry -----------------------------
(***************************************************************************)
(* How a lien reaches its end of life: placeLien puts a delayed job in the *)
(* BullMQ lien queue when the expiry is close, a cron sweep puts one there *)
(* for every other active lien, and the workers void what is due.  The     *)
(* processes fail: a service dies between its commit and its dispatch, a    *)
(* job fails or stalls, a sweep breaks off half way.  The transactions of   *)
(* CoreBanking are single steps here; both modules implement AtomicBank.    *)
(***************************************************************************)
EXTENDS Integers, FiniteSets, FiniteSetsExt, Functions

CONSTANTS
  Account, Lien, LienAccount, LienAmount, LienRef,
  LienExpires,   \* the liens that carry an expires_at
  OpeningBook,   \* [Account -> Int]: the balances the liens are placed against
  OpeningHold,   \* [Account -> Int]: what is held when the history starts
  OpeningLiens,  \* the liens that are active then, all far from their expiry
  BigDP,         \* Big.DP: the decimals every Calculator result carries, 20 in the source
  BatchSize,     \* BATCH_SIZE of a sweep, 100 in the source
  MaxStalled,    \* maxStalledCount of the workers, 1 in the source
  MaxFaults      \* bound: crashes, failed jobs and failed dispatches of a history

ASSUME ExpiryAssumption ==
  /\ LienAccount \in [Lien -> Account]
  /\ LienAmount \in [Lien -> Int]
  /\ LienExpires \subseteq Lien
  /\ OpeningBook \in [Account -> Nat]
  /\ OpeningHold \in [Account -> Int]
  /\ OpeningLiens \subseteq Lien
  /\ BigDP \in Nat
  /\ BatchSize \in Nat \ {0}
  /\ MaxStalled \in Nat
  /\ MaxFaults \in Nat

ASSUME HoldsAssumption ==
  \A a \in Account :
    OpeningHold[a] = SumFunctionOnSet(LienAmount, {l \in OpeningLiens : LienAccount[l] = a})

VARIABLES
  hold,     \* accounts.lien_amount
  liens,    \* liens.status
  clock,    \* where now stands relative to a lien's expires_at
  unsent,   \* liens whose placeLien has committed and not yet dispatched
  job,      \* the queue's job process-lien-expiration-<id> of each lien
  ghost,    \* liens a worker that lost its job is still working on
  batch,    \* what the running sweep has still to dispatch
  faults    \* how many faults have happened

vars == <<hold, liens, clock, unsent, job, ghost, batch, faults>>

LienStatus == {"none", "active", "released", "voided"}

(* "far" is beyond LIEN_EXPIRATION_SWEEP_HOURS, "near" within them. *)
Clock == {"never", "far", "near", "past"}

NoJob == [state |-> "none", removeOnFail |-> FALSE, stalls |-> 0]
JobState == {"none", "queued", "active", "ran", "failed"}

TypeOK ==
  /\ hold \in [Account -> Int]
  /\ liens \in [Lien -> LienStatus]
  /\ clock \in [Lien -> Clock]
  /\ unsent \subseteq Lien
  /\ job \in [Lien -> [state : JobState, removeOnFail : BOOLEAN, stalls : 0..MaxStalled]]
  /\ ghost \subseteq Lien
  /\ batch \subseteq LienExpires
  /\ faults \in 0..MaxFaults

Init ==
  /\ hold = OpeningHold
  /\ liens = [l \in Lien |-> IF l \in OpeningLiens THEN "active" ELSE "none"]
  /\ clock = [l \in Lien |-> IF l \in OpeningLiens \cap LienExpires THEN "far" ELSE "never"]
  /\ unsent = {}
  /\ job = [l \in Lien |-> NoJob]
  /\ ghost = {}
  /\ batch = {}
  /\ faults = 0

Fault == faults < MaxFaults /\ faults' = faults + 1

-----------------------------------------------------------------------------
(* BullMQ ignores an add whose jobId it still knows, in whatever state. *)
Enqueue(l, removeOnFail) ==
  IF job[l].state = "none"
  THEN job' = [job EXCEPT ![l] = [state |-> "queued", removeOnFail |-> removeOnFail, stalls |-> 0]]
  ELSE UNCHANGED job

(* BigInt() throws on the decimal point of a sum printed with Big.DP decimals. *)
ConvertsToBigInt == BigDP = 0

(* The transactions of the lien service and of the worker, as CoreBanking has them. *)
Place(l) ==
  /\ ConvertsToBigInt
  /\ liens[l] = "none"
  /\ \A k \in Lien : LienRef[k] = LienRef[l] => liens[k] = "none"
  /\ OpeningBook[LienAccount[l]] - hold[LienAccount[l]] >= LienAmount[l]
  /\ hold' = [hold EXCEPT ![LienAccount[l]] = @ + LienAmount[l]]
  /\ liens' = [liens EXCEPT ![l] = "active"]
  /\ \E when \in IF l \in LienExpires THEN {"near", "far"} ELSE {"never"} :
       clock' = [clock EXCEPT ![l] = when]
  /\ unsent' = unsent \cup {l}
  /\ UNCHANGED <<job, ghost, batch, faults>>

Lift(l, status) ==
  /\ hold' = [hold EXCEPT ![LienAccount[l]] = @ - LienAmount[l]]
  /\ liens' = [liens EXCEPT ![l] = status]

Release(l) ==
  /\ ConvertsToBigInt
  /\ liens[l] = "active"
  /\ Lift(l, IF clock[l] = "past" THEN "voided" ELSE "released")
  /\ UNCHANGED <<clock, unsent, job, ghost, batch, faults>>

(* Mutant: expireSingleLien does not look at the status. *)
StillThere(l) == liens[l] # "none"

StillActive(l) == liens[l] = "active"

(* expireSingleLien: a lien that is no longer active is skipped, and for one that is, the
   conversion of what remains held may throw, which rolls everything back. *)
ExpiryThrows(l) == StillActive(l) /\ ~ConvertsToBigInt
ExpireSingleLien(l) ==
  IF StillActive(l) /\ ~ExpiryThrows(l) THEN Lift(l, "voided") ELSE UNCHANGED <<hold, liens>>

-----------------------------------------------------------------------------
(* placeLien after its commit: only an expiry inside the window is dispatched. *)
Dispatch(l) ==
  /\ l \in unsent
  /\ unsent' = unsent \ {l}
  /\ IF clock[l] = "near" THEN Enqueue(l, FALSE) ELSE UNCHANGED job
  /\ UNCHANGED <<hold, liens, clock, ghost, batch, faults>>

(* The API service dies, or the queue cannot be reached: the lien stays. *)
DispatchLost(l) ==
  /\ Fault
  /\ l \in unsent
  /\ unsent' = unsent \ {l}
  /\ UNCHANGED <<hold, liens, clock, job, ghost, batch>>

-----------------------------------------------------------------------------
(* Mutant: the sweep looks ahead only. *)
WithinLookahead(l) == clock[l] = "near"

(* expires_at <= now + LIEN_EXPIRATION_SWEEP_HOURS *)
InSweepWindow(l) == clock[l] \in {"near", "past"}

SweepTargets == {l \in LienExpires : liens[l] = "active" /\ InSweepWindow(l)}

(* The cron job of the default queue runs the sweep, one at a time. LIMIT without
   ORDER BY returns any of the rows; without any row there is nothing to queue. *)
Sweep ==
  /\ batch = {}
  /\ \E rows \in kSubset(Min({BatchSize, Cardinality(SweepTargets)}), SweepTargets) : batch' = rows
  /\ UNCHANGED <<hold, liens, clock, unsent, job, ghost, faults>>

SweepDispatches(l) ==
  /\ l \in batch
  /\ Enqueue(l, TRUE)
  /\ batch' = batch \ {l}
  /\ UNCHANGED <<hold, liens, clock, unsent, ghost, faults>>

(* DefaultProcessor logs what a sweep throws; what was left is left. *)
SweepBreaksOff ==
  /\ Fault
  /\ batch # {}
  /\ batch' = {}
  /\ UNCHANGED <<hold, liens, clock, unsent, job, ghost>>

-----------------------------------------------------------------------------
SetState(l, state) == job' = [job EXCEPT ![l].state = state]

(* Mutant: the jobs carry no delay. *)
AtOnce(l) == TRUE

(* The delay of a job runs until its lien's expires_at, or later. *)
DelayOver(l) == clock[l] = "past"

TakeJob(l) ==
  /\ job[l].state = "queued"
  /\ DelayOver(l)
  /\ SetState(l, "active")
  /\ UNCHANGED <<hold, liens, clock, unsent, ghost, batch, faults>>

(* removeOnComplete: the jobId is free again. *)
CompleteJob(l) ==
  /\ job[l].state = "ran"
  /\ job' = [job EXCEPT ![l] = NoJob]
  /\ UNCHANGED <<hold, liens, clock, unsent, ghost, batch, faults>>

(* No job sets attempts, so the first failure is the last. *)
Failed(l) == job' = [job EXCEPT ![l] = IF @.removeOnFail THEN NoJob ELSE [@ EXCEPT !.state = "failed"]]

RunJob(l) ==
  /\ job[l].state = "active"
  /\ ExpireSingleLien(l)
  /\ IF ExpiryThrows(l) THEN Failed(l) ELSE SetState(l, "ran")
  /\ UNCHANGED <<clock, unsent, ghost, batch, faults>>

(* The database or the worker fails before the lien is judged. *)
JobFails(l) ==
  /\ Fault
  /\ job[l].state = "active"
  /\ Failed(l)
  /\ UNCHANGED <<hold, liens, clock, unsent, ghost, batch>>

(* Mutant: one stall too many. *)
StallsUpToLimit(l) == job[l].stalls <= MaxStalled

StallsLeft(l) == job[l].stalls < MaxStalled

(* The job's lock runs out because its worker died or hangs: the queue hands the
   job out again, MaxStalled times, while the old worker may still be at it. *)
JobStalls(l) ==
  /\ Fault
  /\ job[l].state \in {"active", "ran"}
  /\ IF StallsLeft(l)
     THEN job' = [job EXCEPT ![l].state = "queued", ![l].stalls = @ + 1]
     ELSE Failed(l)
  /\ \/ job[l].state = "active" /\ ghost' = ghost \cup {l}
     \/ UNCHANGED ghost
  /\ UNCHANGED <<hold, liens, clock, unsent, batch>>

GhostRuns(l) ==
  /\ l \in ghost
  /\ ghost' = ghost \ {l}
  /\ ExpireSingleLien(l)
  /\ UNCHANGED <<clock, unsent, job, batch, faults>>

-----------------------------------------------------------------------------
TimePasses(l) ==
  /\ liens[l] = "active"
  /\ \/ clock[l] = "far" /\ clock' = [clock EXCEPT ![l] = "near"]
     \/ clock[l] = "near" /\ clock' = [clock EXCEPT ![l] = "past"]
  /\ UNCHANGED <<hold, liens, unsent, job, ghost, batch, faults>>

Work(l) == TakeJob(l) \/ RunJob(l) \/ CompleteJob(l)

Next ==
  \/ Sweep
  \/ SweepBreaksOff
  \/ \E l \in Lien :
       \/ Place(l) \/ Dispatch(l) \/ DispatchLost(l) \/ Release(l)
       \/ SweepDispatches(l)
       \/ Work(l) \/ JobFails(l) \/ JobStalls(l) \/ GhostRuns(l)
       \/ TimePasses(l)

(* The clock runs, the cron job is repeated for ever, and the workers serve the
   queue. Nobody has to place or release a lien. *)
Fairness ==
  /\ WF_vars(Sweep \/ \E l \in Lien : SweepDispatches(l))
  /\ \A l \in Lien : WF_vars(Work(l)) /\ WF_vars(TimePasses(l))

Spec == Init /\ [][Next]_vars /\ Fairness

-----------------------------------------------------------------------------
(* Correctness.                                                              *)

(* The worker voids what its job names without looking at expires_at, so a lien is
   voided before its time only if the queue hands a job out early. *)
NeverVoidedEarly ==
  [][\A l \in Lien : liens[l] = "active" /\ liens'[l] = "voided" => clock[l] = "past"]_vars

(* Whatever is dispatched twice, retried, stalled or released meanwhile, the hold of
   a lien is given back exactly once. *)
Bank == INSTANCE AtomicBank WITH
  Posting <- {}, JournalId <- {}, journals <- {}, transactions <- {},
  book <- OpeningBook

ImplementsAtomicBank == Bank!Spec

(* A failed job without removeOnFail keeps its jobId for ever. *)
Stuck == {l \in Lien : liens[l] = "active" /\ job[l].state = "failed"}

(* An expired lien is lifted in the end although dispatches get lost, jobs fail and
   sweeps break off, unless its job is stuck or stuck liens fill the sweep. *)
LiftedUnlessStuck ==
  \A l \in Lien :
    liens[l] = "active" /\ clock[l] = "past"
      ~> liens[l] # "active" \/ l \in Stuck \/ Cardinality(Stuck) >= BatchSize

(* "Optional automated release date" (expiresAt in place-lien.dto.ts): a lien that has
   one is lifted some time after it. *)
ReleasedAtExpiry ==
  \A l \in Lien : liens[l] = "active" /\ clock[l] = "past" ~> liens[l] # "active"
=============================================================================
