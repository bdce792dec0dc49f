-------------------------- MODULE LienExpiryProofs --------------------------
(***************************************************************************)
(* For any set of liens, batch size, stall limit and number of faults: the *)
(* variables keep their types, no lien is voided before its time, and what *)
(* the queue, its workers and the clock do is what the atomic bank allows. *)
(***************************************************************************)
EXTENDS LienExpiry, TLAPS

(* Only liens that were placed are dispatched, swept or worked on. *)
Placed ==
  \A l \in Lien :
    l \in unsent \cup batch \cup ghost \/ job[l].state # "none" => liens[l] # "none"

(* A worker has a job, or still works on one it lost, only after the expiry. *)
Due ==
  \A l \in Lien : job[l].state \in {"active", "ran"} \/ l \in ghost => clock[l] = "past"

IInv == TypeOK /\ Placed /\ Due

-----------------------------------------------------------------------------
(* What an add to the queue leaves of the job of each lien. *)
LEMMA EnqueueKeeps ==
  ASSUME TypeOK, NEW l \in Lien, NEW removeOnFail \in BOOLEAN, Enqueue(l, removeOnFail)
  PROVE  /\ job' \in [Lien -> [state : JobState, removeOnFail : BOOLEAN, stalls : 0..MaxStalled]]
         /\ \A k \in Lien : k # l => job'[k] = job[k]
         /\ job'[l].state = job[l].state \/ job'[l].state = "queued"
  BY ExpiryAssumption DEF TypeOK, Enqueue, JobState

(* What a failure leaves of the job of each lien. *)
LEMMA FailedKeeps ==
  ASSUME TypeOK, NEW l \in Lien, Failed(l), job[l].state # "none"
  PROVE  /\ job' \in [Lien -> [state : JobState, removeOnFail : BOOLEAN, stalls : 0..MaxStalled]]
         /\ \A k \in Lien : k # l => job'[k] = job[k]
         /\ job'[l].state \in {"none", "failed"}
  BY ExpiryAssumption DEF TypeOK, Failed, NoJob, JobState

(* A lien that is lifted keeps the types, and was placed before and is after. *)
LEMMA LiftKeeps ==
  ASSUME TypeOK, NEW l \in Lien, liens[l] = "active",
         NEW status \in {"released", "voided"}, Lift(l, status)
  PROVE  /\ hold' \in [Account -> Int]
         /\ liens' \in [Lien -> LienStatus]
         /\ \A k \in Lien : liens'[k] = "none" <=> liens[k] = "none"
         /\ \A k \in Lien : k # l => liens'[k] = liens[k]
         /\ liens'[l] = status
  <1>1. LienAccount[l] \in Account /\ LienAmount[l] \in Int
    BY ExpiryAssumption
  <1>2. hold[LienAccount[l]] - LienAmount[l] \in Int
    BY <1>1 DEF TypeOK
  <1>3. hold' \in [Account -> Int]
    BY <1>2 DEF TypeOK, Lift
  <1>4. liens' \in [Lien -> LienStatus]
    BY DEF TypeOK, Lift, LienStatus
  <1>5. liens'[l] = status /\ \A k \in Lien : k # l => liens'[k] = liens[k]
    BY DEF TypeOK, Lift
  <1> QED
    BY <1>3, <1>4, <1>5

(* What expireSingleLien does to liens and holds. *)
LEMMA ExpireKeeps ==
  ASSUME TypeOK, NEW l \in Lien, ExpireSingleLien(l)
  PROVE  /\ hold' \in [Account -> Int]
         /\ liens' \in [Lien -> LienStatus]
         /\ \A k \in Lien : liens'[k] = "none" <=> liens[k] = "none"
         /\ \A k \in Lien : k # l => liens'[k] = liens[k]
         /\ \/ liens[l] = "active" /\ Lift(l, "voided")
            \/ UNCHANGED <<hold, liens>>
  <1>1. CASE StillActive(l) /\ ~ExpiryThrows(l)
    BY <1>1, LiftKeeps DEF ExpireSingleLien, StillActive
  <1>2. CASE ~(StillActive(l) /\ ~ExpiryThrows(l))
    BY <1>2 DEF ExpireSingleLien, TypeOK
  <1> QED
    BY <1>1, <1>2

(* The first state satisfies the invariant. *)
LEMMA InitIInv == Init => IInv
  <1> SUFFICES ASSUME Init PROVE IInv
    OBVIOUS
  <1>1. TypeOK
    BY ExpiryAssumption DEF Init, TypeOK, LienStatus, Clock, NoJob, JobState
  <1>2. Placed /\ Due
    BY DEF Init, Placed, Due, NoJob
  <1> QED
    BY <1>1, <1>2 DEF IInv

(* Placing, releasing, dispatching and the passing of time keep the invariant. *)
LEMMA ApiKeepsIInv ==
  ASSUME IInv, NEW l \in Lien,
         Place(l) \/ Dispatch(l) \/ DispatchLost(l) \/ Release(l) \/ TimePasses(l)
  PROVE  IInv'
  <1> USE DEF IInv
  <1>1. CASE Place(l)
    <2>1. TypeOK'
      <3>1. LienAccount[l] \in Account /\ LienAmount[l] \in Int
        BY ExpiryAssumption
      <3>2. hold[LienAccount[l]] + LienAmount[l] \in Int
        BY <3>1 DEF TypeOK
      <3>3. hold' \in [Account -> Int]
        BY <1>1, <3>2 DEF Place, TypeOK
      <3>4. liens' \in [Lien -> LienStatus] /\ clock' \in [Lien -> Clock]
        BY <1>1 DEF Place, TypeOK, LienStatus, Clock
      <3> QED
        BY <1>1, <3>3, <3>4 DEF Place, TypeOK
    <2>2. Placed'
      BY <1>1 DEF Place, TypeOK, Placed
    <2>3. Due'
      BY <1>1 DEF Place, TypeOK, Placed, Due
    <2> QED
      BY <2>1, <2>2, <2>3
  <1>2. CASE Dispatch(l)
    <2>1. CASE clock[l] = "near"
      <3>1. Enqueue(l, FALSE)
        BY <1>2, <2>1 DEF Dispatch
      <3>2. TypeOK'
        BY <1>2, <3>1, EnqueueKeeps DEF Dispatch, TypeOK
      <3>3. Placed'
        BY <1>2, <3>1, EnqueueKeeps DEF Dispatch, TypeOK, Placed
      <3>4. Due'
        BY <1>2, <3>1, EnqueueKeeps DEF Dispatch, TypeOK, Due
      <3> QED
        BY <3>2, <3>3, <3>4
    <2>2. CASE clock[l] # "near"
      BY <1>2, <2>2 DEF Dispatch, TypeOK, Placed, Due
    <2> QED
      BY <2>1, <2>2
  <1>3. CASE DispatchLost(l)
    BY <1>3, ExpiryAssumption DEF DispatchLost, Fault, TypeOK, Placed, Due
  <1>4. CASE Release(l)
    <2>1. PICK status \in {"released", "voided"} : Lift(l, status)
      BY <1>4 DEF Release
    <2>2. liens[l] = "active" /\ UNCHANGED <<clock, unsent, job, ghost, batch, faults>>
      BY <1>4 DEF Release
    <2> QED
      BY <2>1, <2>2, LiftKeeps DEF TypeOK, Placed, Due
  <1>5. CASE TimePasses(l)
    BY <1>5 DEF TimePasses, TypeOK, Placed, Due, Clock
  <1> QED
    BY <1>1, <1>2, <1>3, <1>4, <1>5

(* The sweep keeps the invariant. *)
LEMMA SweepKeepsIInv ==
  ASSUME IInv, Sweep \/ SweepBreaksOff \/ \E l \in Lien : SweepDispatches(l)
  PROVE  IInv'
  <1> USE DEF IInv
  <1>1. CASE Sweep
    <2>1. batch' \subseteq SweepTargets
      BY <1>1 DEF Sweep, kSubset
    <2>2. batch' \subseteq LienExpires /\ \A k \in batch' : liens[k] = "active"
      BY <2>1 DEF SweepTargets
    <2> QED
      BY <1>1, <2>2, ExpiryAssumption DEF Sweep, TypeOK, Placed, Due
  <1>2. CASE SweepBreaksOff
    BY <1>2, ExpiryAssumption DEF SweepBreaksOff, Fault, TypeOK, Placed, Due
  <1>3. ASSUME NEW l \in Lien, SweepDispatches(l) PROVE IInv'
    <2>1. Enqueue(l, TRUE)
      BY <1>3 DEF SweepDispatches
    <2>2. TypeOK'
      BY <1>3, <2>1, EnqueueKeeps DEF SweepDispatches, TypeOK
    <2>3. Placed'
      BY <1>3, <2>1, EnqueueKeeps DEF SweepDispatches, TypeOK, Placed
    <2>4. Due'
      BY <1>3, <2>1, EnqueueKeeps DEF SweepDispatches, TypeOK, Due
    <2> QED
      BY <2>2, <2>3, <2>4
  <1> QED
    BY <1>1, <1>2, <1>3

(* The workers keep the invariant, whatever fails or stalls. *)
LEMMA WorkerKeepsIInv ==
  ASSUME IInv, NEW l \in Lien, Work(l) \/ JobFails(l) \/ JobStalls(l) \/ GhostRuns(l)
  PROVE  IInv'
  <1> USE DEF IInv
  <1>1. CASE TakeJob(l)
    <2>1. TypeOK'
      BY <1>1 DEF TakeJob, SetState, TypeOK, JobState
    <2>2. Placed' /\ Due'
      BY <1>1 DEF TakeJob, SetState, DelayOver, TypeOK, JobState, Placed, Due
    <2> QED
      BY <2>1, <2>2
  <1>2. CASE RunJob(l)
    <2>1. ExpireSingleLien(l) /\ job[l].state = "active"
          /\ UNCHANGED <<clock, unsent, ghost, batch, faults>>
      BY <1>2 DEF RunJob
    <2>2. /\ job' \in [Lien -> [state : JobState, removeOnFail : BOOLEAN, stalls : 0..MaxStalled]]
          /\ \A k \in Lien : k # l => job'[k] = job[k]
          /\ job'[l].state \in {"none", "failed", "ran"}
      <3>1. CASE ExpiryThrows(l)
        BY <1>2, <3>1, FailedKeeps DEF RunJob
      <3>2. CASE ~ExpiryThrows(l)
        BY <1>2, <3>2 DEF RunJob, SetState, TypeOK, JobState
      <3> QED
        BY <3>1, <3>2
    <2>3. TypeOK'
      BY <2>1, <2>2, ExpireKeeps DEF TypeOK
    <2>4. liens[l] # "none" /\ clock[l] = "past"
      BY <2>1 DEF Placed, Due
    <2>5. Placed' /\ Due'
      BY <2>1, <2>2, <2>4, ExpireKeeps DEF TypeOK, Placed, Due
    <2> QED
      BY <2>3, <2>5
  <1>3. CASE CompleteJob(l)
    <2>1. TypeOK'
      BY <1>3, ExpiryAssumption DEF CompleteJob, NoJob, TypeOK, JobState
    <2>2. Placed' /\ Due'
      BY <1>3 DEF CompleteJob, NoJob, TypeOK, Placed, Due
    <2> QED
      BY <2>1, <2>2
  <1>4. CASE JobFails(l)
    <2>1. Failed(l) /\ job[l].state = "active" /\ faults' \in 0..MaxFaults
          /\ UNCHANGED <<hold, liens, clock, unsent, ghost, batch>>
      BY <1>4, ExpiryAssumption DEF JobFails, Fault, TypeOK
    <2>2. TypeOK'
      BY <2>1, FailedKeeps DEF TypeOK
    <2>3. Placed' /\ Due'
      BY <2>1, FailedKeeps DEF TypeOK, Placed, Due
    <2> QED
      BY <2>2, <2>3
  <1>5. CASE JobStalls(l)
    <2>1. /\ job[l].state \in {"active", "ran"} /\ faults' \in 0..MaxFaults
          /\ ghost' = ghost \/ ghost' = ghost \cup {l}
          /\ UNCHANGED <<hold, liens, clock, unsent, batch>>
      BY <1>5, ExpiryAssumption DEF JobStalls, Fault, TypeOK
    <2>2. /\ job' \in [Lien -> [state : JobState, removeOnFail : BOOLEAN, stalls : 0..MaxStalled]]
          /\ \A k \in Lien : k # l => job'[k] = job[k]
          /\ job'[l].state \in {"none", "failed", "queued"}
      <3>1. CASE StallsLeft(l)
        BY <1>5, <3>1, ExpiryAssumption DEF JobStalls, StallsLeft, TypeOK, JobState
      <3>2. CASE ~StallsLeft(l)
        BY <1>5, <3>2, FailedKeeps DEF JobStalls
      <3> QED
        BY <3>1, <3>2
    <2>3. TypeOK'
      BY <2>1, <2>2 DEF TypeOK
    <2>4. liens[l] # "none" /\ clock[l] = "past"
      BY <2>1 DEF Placed, Due
    <2>5. Placed' /\ Due'
      BY <2>1, <2>2, <2>4 DEF TypeOK, Placed, Due
    <2> QED
      BY <2>3, <2>5
  <1>6. CASE GhostRuns(l)
    <2>1. ExpireSingleLien(l) /\ ghost' = ghost \ {l}
          /\ UNCHANGED <<clock, unsent, job, batch, faults>>
      BY <1>6 DEF GhostRuns
    <2>2. TypeOK'
      BY <2>1, ExpireKeeps DEF TypeOK
    <2>3. Placed' /\ Due'
      BY <2>1, ExpireKeeps DEF TypeOK, Placed, Due
    <2> QED
      BY <2>2, <2>3
  <1> QED
    BY <1>1, <1>2, <1>3, <1>4, <1>5, <1>6 DEF Work

(* A step that changes nothing keeps the invariant. *)
LEMMA StutterKeepsIInv == IInv /\ UNCHANGED vars => IInv'
  BY DEF vars, IInv, TypeOK, Placed, Due

(* Every step keeps the invariant. *)
LEMMA NextKeepsIInv == IInv /\ [Next]_vars => IInv'
  BY ApiKeepsIInv, SweepKeepsIInv, WorkerKeepsIInv, StutterKeepsIInv DEF Next

(* The invariant holds in every reachable state. *)
THEOREM ExpiryInvariance == Spec => []IInv
  BY InitIInv, NextKeepsIInv, PTL DEF Spec

(* The variables of the queue, the workers, the sweep and the clock keep their types. *)
THEOREM ExpiryTypeCorrectness == Spec => []TypeOK
  <1>1. IInv => TypeOK
    BY DEF IInv
  <1> QED
    BY <1>1, ExpiryInvariance, PTL

-----------------------------------------------------------------------------
(* Which steps void an active lien: a release, a worker or a worker that lost its job. *)
LEMMA VoidsOnlyPast ==
  ASSUME IInv, Next, NEW k \in Lien, liens[k] = "active", liens'[k] = "voided"
  PROVE  clock[k] = "past"
  <1> USE DEF IInv
  <1>1. ASSUME NEW l \in Lien, Place(l) PROVE clock[k] = "past"
    BY <1>1 DEF Place, TypeOK
  <1>2. ASSUME NEW l \in Lien, Release(l) PROVE clock[k] = "past"
    BY <1>2 DEF Release, Lift, TypeOK
  <1>3. ASSUME NEW l \in Lien, RunJob(l) PROVE clock[k] = "past"
    BY <1>3, ExpireKeeps DEF RunJob, Due
  <1>4. ASSUME NEW l \in Lien, GhostRuns(l) PROVE clock[k] = "past"
    BY <1>4, ExpireKeeps DEF GhostRuns, Due
  <1>5. CASE UNCHANGED liens
    BY <1>5
  <1> QED
    BY <1>1, <1>2, <1>3, <1>4, <1>5
    DEF Next, Sweep, SweepBreaksOff, SweepDispatches, Dispatch, DispatchLost, Work, TakeJob,
        CompleteJob, JobFails, JobStalls, TimePasses

(* No lien is voided before its expiry, although no worker looks at the clock: jobs
   are handed out late enough, and one that was lost to a stall is late as well. *)
THEOREM NeverEarly == Spec => NeverVoidedEarly
  <1>1. IInv /\ [Next]_vars
          => [\A l \in Lien : liens[l] = "active" /\ liens'[l] = "voided" => clock[l] = "past"]_vars
    BY VoidsOnlyPast
  <1> QED
    BY <1>1, ExpiryInvariance, PTL DEF Spec, NeverVoidedEarly

-----------------------------------------------------------------------------
(* The first state is one of the atomic bank. *)
LEMMA InitImplements == Init => Bank!Init
  BY DEF Init, Bank!Init

(* A lien that is lifted is lifted in the atomic bank. *)
LEMMA LiftImplements ==
  ASSUME NEW l \in Lien, liens[l] = "active", NEW status \in {"released", "voided"},
         Lift(l, status)
  PROVE  Bank!Next
  <1>1. Bank!Lift(l, status)
    BY DEF Lift, Bank!Lift
  <1> QED
    BY <1>1 DEF Bank!Next

(* Every step is one of the atomic bank or leaves its variables alone. *)
LEMMA StepImplements == IInv /\ [Next]_vars => [Bank!Next]_(Bank!vars)
  <1> SUFFICES ASSUME IInv, [Next]_vars PROVE Bank!Next \/ UNCHANGED <<hold, liens>>
    BY DEF Bank!vars
  <1> USE DEF IInv
  <1>1. ASSUME NEW l \in Lien, Place(l) PROVE Bank!Next
    <2>1. Bank!Place(l)
      BY <1>1 DEF Place, Bank!Place
    <2> QED
      BY <2>1 DEF Bank!Next
  <1>2. ASSUME NEW l \in Lien, Release(l) PROVE Bank!Next
    <2>1. PICK status \in {"released", "voided"} : Lift(l, status)
      BY <1>2 DEF Release
    <2> QED
      BY <1>2, <2>1, LiftImplements DEF Release
  <1>3. ASSUME NEW l \in Lien, RunJob(l) \/ GhostRuns(l) PROVE Bank!Next \/ UNCHANGED <<hold, liens>>
    <2>1. ExpireSingleLien(l)
      BY <1>3 DEF RunJob, GhostRuns
    <2> QED
      BY <2>1, ExpireKeeps, LiftImplements
  <1>4. CASE UNCHANGED <<hold, liens>>
    BY <1>4
  <1> QED
    BY <1>1, <1>2, <1>3, <1>4
    DEF Next, vars, Sweep, SweepBreaksOff, SweepDispatches, Dispatch, DispatchLost, Work, TakeJob,
        CompleteJob, JobFails, JobStalls, TimePasses

(* Dispatches, retries, stalls and sweeps are invisible: what callers see of liens and
   holds is what the atomic bank does, where a hold is given back exactly once. *)
THEOREM ExpiryRefinement == Spec => ImplementsAtomicBank
  BY ExpiryInvariance, InitImplements, StepImplements, PTL DEF Spec, ImplementsAtomicBank, Bank!Spec
=============================================================================
