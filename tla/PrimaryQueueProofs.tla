------------------------- MODULE PrimaryQueueProofs -------------------------
(* Theorems about PrimaryQueue for every number of jobs, tokens, attempts  *)
(* and ticks, and for every choice of Env.                                 *)
EXTENDS PrimaryQueue, FiniteSetTheorems, TLAPS

(* What the operators on job records return.                               *)
LEMMA DownType == ASSUME NEW m \in Nat, NEW n \in 0..m PROVE Down(n) \in 0..m
BY DEF Down

LEMMA StatusValues ==
    /\ Status = {"none", "queued", "running", "completed", "failed",
                 "cancelled", "deleting"}
    /\ Active \subseteq Status
BY DEF Status, Active, Settled

LEMMA NoJobType == NoJob \in JobRecord /\ FailedAdmissionRecord \in JobRecord
BY ConfigAssumption DEF NoJob, FailedAdmissionRecord, JobRecord, Status,
   Active, Settled

LEMMA RecordTypes ==
    ASSUME NEW r \in JobRecord
    PROVE  /\ Failed(r) \in JobRecord
           /\ Cancelled(r) \in JobRecord
           /\ Deleting(r) \in JobRecord
           /\ \A t \in Token :
                r.attempts < MaxAttempts => Claimed(r, t) \in JobRecord
           /\ [r EXCEPT !.leaseLeft = LeaseMs] \in JobRecord
           /\ [r EXCEPT !.status = "completed", !.lease = None,
                        !.leaseLeft = 0] \in JobRecord
           /\ [r EXCEPT !.leaseLeft = Down(@), !.cancelLeft = Down(@)]
                \in JobRecord
<1>1. /\ LeaseMs \in 0..LeaseMs /\ 0 \in 0..LeaseMs
      /\ None \in Token \union {None}
      /\ r.attempts < MaxAttempts => r.attempts + 1 \in 0..MaxAttempts
      /\ Down(r.leaseLeft) \in 0..LeaseMs
      /\ Down(r.cancelLeft) \in 0..LeaseMs
      /\ \A x \in {"running", "completed", "failed", "cancelled", "deleting"} :
           x \in Status
  BY StatusValues, ConfigAssumption, DownType DEF JobRecord
<1> DEFINE d == Down(r.leaseLeft)
           e == Down(r.cancelLeft)
<1>2. Failed(r) \in JobRecord
  BY <1>1 DEF JobRecord, Failed
<1>3. Cancelled(r) \in JobRecord
  BY <1>1 DEF JobRecord, Cancelled
<1>4. Deleting(r) \in JobRecord
  BY <1>1 DEF JobRecord, Deleting
<1>5. ASSUME NEW t \in Token, r.attempts < MaxAttempts
      PROVE  Claimed(r, t) \in JobRecord
  BY <1>5, <1>1 DEF JobRecord, Claimed
<1>6. [r EXCEPT !.leaseLeft = LeaseMs] \in JobRecord
  BY <1>1 DEF JobRecord
<1>7. [r EXCEPT !.status = "completed", !.lease = None, !.leaseLeft = 0]
        \in JobRecord
  BY <1>1 DEF JobRecord
<1>8. [r EXCEPT !.leaseLeft = d, !.cancelLeft = e] \in JobRecord
  <2> HIDE DEF d, e
  <2>1. d \in 0..LeaseMs /\ e \in 0..LeaseMs
    BY <1>1 DEF d, e
  <2>2. QED
    BY <2>1 DEF JobRecord
<1>9. QED
  BY <1>2, <1>3, <1>4, <1>5, <1>6, <1>7, <1>8

LEMMA SweepType ==
    ASSUME TypeOK, RecoverFailures
    PROVE  job' \in [Job -> JobRecord] /\ LiveReservations \in SUBSET Job
BY NoJobType DEF TypeOK, RecoverFailures, LiveReservations

LEMMA TickType ==
    ASSUME NEW m \in Nat, NEW left \in [Job -> 0..m]
    PROVE  CountDown(left) \in [Job -> 0..m]
BY DownType DEF CountDown

-----------------------------------------------------------------------------
(* Typing, one lemma per group of actions.                                 *)

LEMMA TypeRequestStep ==
    ASSUME TypeOK, NEW j \in Job, RequestStep(j)
    PROVE  TypeOK'
<1> USE DEF fileVars, historyVars, RequestPhase
<1>0. ReservationMs \in 0..ReservationMs
  BY ConfigAssumption
<1>1. CASE ReserveAdmission(j)
  <2>1. job' \in [Job -> JobRecord] /\ LiveReservations \in SUBSET Job
    BY <1>1, SweepType DEF ReserveAdmission
  <2>2. QED
    BY <1>0, <1>1, <2>1 DEF TypeOK, ReserveAdmission
<1>2. CASE OpenStaging(j)
  BY <1>2 DEF TypeOK, OpenStaging
<1>3. CASE ReceiveBytes(j)
  BY <1>3 DEF TypeOK, ReceiveBytes
<1>4. CASE RecheckAdmission(j)
  <2>1. job' \in [Job -> JobRecord] /\ LiveReservations \in SUBSET Job
    BY <1>4, SweepType DEF RecheckAdmission
  <2>2. QED
    BY <1>0, <1>4, <2>1 DEF TypeOK, RecheckAdmission
<1>5. CASE RecheckRefused(j)
  <2>1. job' \in [Job -> JobRecord] /\ LiveReservations \in SUBSET Job
    BY <1>5, SweepType DEF RecheckRefused
  <2>2. QED
    BY <1>5, <2>1 DEF TypeOK, RecheckRefused
<1>6. CASE PublishReservedQueuedJob(j)
  <2>1. \A at \in CreatedAt :
          [NoJob EXCEPT !.status = "queued", !.createdAt = at] \in JobRecord
    BY NoJobType, StatusValues DEF JobRecord
  <2>2. job' \in [Job -> JobRecord]
    BY <1>6, <2>1 DEF TypeOK, PublishReservedQueuedJob
  <2>3. dir' \in [Job -> {"absent", "empty", "bytes"}]
    BY <1>6 DEF TypeOK, PublishReservedQueuedJob
  <2>4. QED
    BY <1>6, <2>2, <2>3
    DEF TypeOK, PublishReservedQueuedJob, DropReservation
<1>7. CASE PublishFindsRecord(j)
  BY <1>7 DEF TypeOK, PublishFindsRecord
<1>8. CASE PublishFindsReservationLost(j)
  BY <1>8 DEF TypeOK, PublishFindsReservationLost
<1>9. CASE PublishFailedAdmissionJob(j)
  BY <1>9, NoJobType DEF TypeOK, PublishFailedAdmissionJob, DropReservation
<1>10. CASE AbortAdmissionStaging(j)
  BY <1>10 DEF TypeOK, AbortAdmissionStaging
<1>11. CASE RequestEnds(j)
  BY <1>11 DEF TypeOK, RequestEnds
<1>12. QED
  BY <1>1, <1>2, <1>3, <1>4, <1>5, <1>6, <1>7, <1>8, <1>9, <1>10, <1>11
  DEF RequestStep

LEMMA TypeClaimStep ==
    ASSUME TypeOK, ClaimFindsNothing \/ \E t \in Token : ClaimNextJob(t)
    PROVE  TypeOK'
<1>1. CASE ClaimFindsNothing
  <2>1. \A k \in Job : job[k] \in JobRecord /\ Failed(job[k]) \in JobRecord
    BY RecordTypes DEF TypeOK
  <2>2. QED
    BY <1>1, <2>1 DEF TypeOK, ClaimFindsNothing, historyVars
<1>2. ASSUME NEW t \in Token, ClaimNextJob(t)
      PROVE  TypeOK'
  <2>1. PICK j \in Claimable \ Exhausted, passed \in SUBSET Exhausted :
          /\ job' = [k \in Job |-> IF k = j THEN Claimed(job[k], t)
                                  ELSE IF k \in passed THEN Failed(job[k])
                                  ELSE job[k]]
          /\ issued' = [issued EXCEPT ![t] = j]
          /\ lastClaim' = [lastClaim EXCEPT ![j] = t]
    BY <1>2 DEF ClaimNextJob
  <2>2. j \in Job /\ job[j].attempts < MaxAttempts
    <3>1. j \in Job /\ ~(job[j].attempts >= MaxAttempts)
      BY <2>1 DEF Claimable, Exhausted, ActiveJobs
    <3>2. job[j].attempts \in Nat /\ MaxAttempts \in Nat
      BY <3>1, ConfigAssumption DEF TypeOK, JobRecord
    <3>3. QED
      BY <3>1, <3>2
  <2>3. \A k \in Job : job[k] \in JobRecord /\ Failed(job[k]) \in JobRecord
    BY RecordTypes DEF TypeOK
  <2>4. Claimed(job[j], t) \in JobRecord
    BY <2>2, <2>3, RecordTypes
  <2>5. job' \in [Job -> JobRecord]
    BY <2>1, <2>2, <2>3, <2>4
  <2>6. QED
    BY <1>2, <2>1, <2>2, <2>5 DEF TypeOK, ClaimNextJob
<1>3. QED
  BY <1>1, <1>2

LEMMA TypeHolderStep ==
    ASSUME TypeOK, NEW j \in Job, NEW t \in Token, HolderStep(j, t)
    PROVE  TypeOK'
<1> USE DEF fileVars, historyVars
<1>0. job[j] \in JobRecord
  BY DEF TypeOK
<1>1. CASE FencedUpdate(j, t)
  <2>1. [job[j] EXCEPT !.leaseLeft = LeaseMs] \in JobRecord
    BY <1>0, RecordTypes
  <2>2. job' = [job EXCEPT ![j] = [job[j] EXCEPT !.leaseLeft = LeaseMs]]
    BY <1>1 DEF FencedUpdate
  <2>3. QED
    BY <1>1, <2>1, <2>2 DEF TypeOK, FencedUpdate
<1>2. CASE FencedFail(j, t)
  BY <1>0, <1>2, RecordTypes DEF TypeOK, FencedFail
<1>3. CASE PublishAttemptAndComplete(j, t)
  <2>1. [job[j] EXCEPT !.status = "completed", !.lease = None, !.leaseLeft = 0]
          \in JobRecord
    BY <1>0, RecordTypes
  <2>2. QED
    BY <1>3, <2>1 DEF TypeOK, PublishAttemptAndComplete
<1>4. CASE PublishAttemptTorn(j, t)
  BY <1>4 DEF TypeOK, PublishAttemptTorn
<1>5. CASE AttemptWrites(j, t)
  BY <1>5 DEF TypeOK, AttemptWrites
<1>6. QED
  BY <1>1, <1>2, <1>3, <1>4, <1>5 DEF HolderStep

LEMMA TypePersonStep ==
    ASSUME TypeOK, NEW j \in Job, PersonStep(j)
    PROVE  TypeOK'
<1> USE DEF fileVars, historyVars
<1>0. job[j] \in JobRecord
  BY DEF TypeOK
<1>1. /\ job[j].leaseLeft \in 0..LeaseMs /\ job[j].cancelLeft \in 0..LeaseMs
      /\ Cancelled(job[j]) \in JobRecord /\ Deleting(job[j]) \in JobRecord
  BY <1>0, RecordTypes DEF JobRecord
<1>2. CASE CancelPrimaryJob(j)
  BY <1>1, <1>2 DEF TypeOK, CancelPrimaryJob, DropReservation, Revoke
<1>3. CASE RequestJobDeletion(j)
  BY <1>1, <1>3 DEF TypeOK, RequestJobDeletion, WriteTombstone, Revoke
<1>4. CASE RequestJobDeletionTorn(j)
  BY <1>1, <1>4 DEF TypeOK, RequestJobDeletionTorn, WriteTombstone
<1>5. CASE PurgeOne(j)
  BY <1>5, NoJobType DEF TypeOK, PurgeOne
<1>6. CASE PurgeTorn(j)
  BY <1>6, NoJobType DEF TypeOK, PurgeTorn
<1>7. QED
  BY <1>2, <1>3, <1>4, <1>5, <1>6 DEF PersonStep

LEMMA TypeTick ==
    ASSUME TypeOK, Tick
    PROVE  TypeOK'
<1>1. LeaseMs \in Nat /\ ReservationMs \in Nat
  BY ConfigAssumption
<1>2. \A k \in Job : [job[k] EXCEPT !.leaseLeft = Down(@),
                                   !.cancelLeft = Down(@)] \in JobRecord
  BY RecordTypes DEF TypeOK
<1>3. job' \in [Job -> JobRecord]
  BY <1>2 DEF Tick
<1>4. /\ resvLeft' \in [Job -> 0..ReservationMs]
      /\ safeLeft' \in [Job -> 0..LeaseMs]
      /\ revokedLeft' \in [Job -> 0..LeaseMs]
  BY <1>1, TickType DEF Tick, TypeOK
<1>5. QED
  BY <1>3, <1>4 DEF Tick, TypeOK

LEMMA TypeInductive == TypeOK /\ [Next]_vars => TypeOK'
<1> SUFFICES ASSUME TypeOK, [Next]_vars
             PROVE  TypeOK'
  OBVIOUS
<1>1. CASE SweepReservations
  BY <1>1, SweepType DEF TypeOK, SweepReservations, historyVars
<1>2. ASSUME NEW j \in Job, RequestStep(j) PROVE TypeOK'
  BY <1>2, TypeRequestStep
<1>3. CASE ClaimFindsNothing \/ \E t \in Token : ClaimNextJob(t)
  BY <1>3, TypeClaimStep
<1>4. ASSUME NEW j \in Job, NEW t \in Token, HolderStep(j, t) PROVE TypeOK'
  BY <1>4, TypeHolderStep
<1>5. ASSUME NEW j \in Job, PersonStep(j) PROVE TypeOK'
  BY <1>5, TypePersonStep
<1>6. CASE Tick
  BY <1>6, TypeTick
<1>7. CASE UNCHANGED vars
  BY <1>7 DEF TypeOK, vars, fileVars, historyVars
<1>8. QED
  BY <1>1, <1>2, <1>3, <1>4, <1>5, <1>6, <1>7 DEF Next

(* Every state of the queue is well typed; in particular no record counts  *)
(* more than MaxAttempts attempts, because claimNextJob fails an exhausted *)
(* job instead of claiming it.                                             *)
THEOREM TypeCorrect == Spec => []TypeOK
<1>1. Init => TypeOK
  BY NoJobType, ConfigAssumption DEF Init, TypeOK, RequestPhase
<1>2. QED
  BY <1>1, TypeInductive, PTL DEF Spec

-----------------------------------------------------------------------------
(* Admission control.  An id occupies a place when it is active or has a   *)
(* reservation; only reserveAdmission makes an id occupy one.              *)

Occupied == ActiveJobs \union reserved

LEMMA OccupiedFinite == TypeOK => IsFiniteSet(Occupied) /\ IsFiniteSet(ActiveJobs)
<1> SUFFICES ASSUME TypeOK
             PROVE  IsFiniteSet(Occupied) /\ IsFiniteSet(ActiveJobs)
  OBVIOUS
<1>1. Occupied \subseteq Job /\ ActiveJobs \subseteq Job
  BY DEF Occupied, ActiveJobs, TypeOK
<1>2. QED
  BY <1>1, ConfigAssumption, FS_Subset

(* A sweep makes no job active, since a recovered record is a failed one.  *)
LEMMA SweepActivatesNone ==
    ASSUME TypeOK, RecoverFailures
    PROVE  \A k \in Job : IsActive(k)' = IsActive(k)
<1> SUFFICES ASSUME NEW k \in Job PROVE IsActive(k)' = IsActive(k)
  OBVIOUS
<1>1. CASE Recovered(k)
  <2>1. ~IsActive(k)
    BY <1>1 DEF Recovered, Expired, Orphaned, IsActive, Active
  <2>2. job'[k].status = "failed"
    BY <1>1 DEF RecoverFailures, FailedAdmissionRecord, NoJob
  <2>3. QED
    BY <2>1, <2>2 DEF IsActive, Active
<1>2. CASE ~Recovered(k)
  BY <1>2 DEF RecoverFailures, IsActive
<1>3. QED
  BY <1>1, <1>2

LEMMA RequestStepOccupies ==
    ASSUME TypeOK, NEW j \in Job, RequestStep(j), ~ReserveAdmission(j)
    PROVE  Occupied' \subseteq Occupied
<1> USE DEF Occupied, ActiveJobs, fileVars, historyVars
<1>1. CASE OpenStaging(j) \/ ReceiveBytes(j) \/ PublishFindsRecord(j)
             \/ PublishFindsReservationLost(j) \/ RequestEnds(j)
  BY <1>1 DEF OpenStaging, ReceiveBytes, PublishFindsRecord,
     PublishFindsReservationLost, RequestEnds, IsActive
<1>2. CASE RecheckAdmission(j) \/ RecheckRefused(j)
  <2>1. RecoverFailures /\ reserved' = LiveReservations
    BY <1>2 DEF RecheckAdmission, RecheckRefused
  <2>2. QED
    BY <2>1, SweepActivatesNone DEF LiveReservations
<1>3. CASE PublishReservedQueuedJob(j)
  <2>1. /\ j \in reserved /\ reserved' \subseteq reserved
        /\ \A k \in Job : k # j => job'[k] = job[k]
    BY <1>3 DEF PublishReservedQueuedJob, DropReservation, TypeOK
  <2>2. QED
    BY <2>1 DEF IsActive
<1>4. CASE PublishFailedAdmissionJob(j)
  <2>1. reserved' \subseteq reserved
    BY <1>4 DEF PublishFailedAdmissionJob, DropReservation
  <2>2. \A k \in Job : job'[k] = job[k] \/ job'[k].status = "failed"
    BY <1>4 DEF PublishFailedAdmissionJob, TypeOK, FailedAdmissionRecord, NoJob
  <2>3. QED
    BY <2>1, <2>2 DEF IsActive, Active
<1>5. CASE AbortAdmissionStaging(j)
  BY <1>5 DEF AbortAdmissionStaging, IsActive
<1>6. QED
  BY <1>1, <1>2, <1>3, <1>4, <1>5 DEF RequestStep

LEMMA OtherStepOccupies ==
    ASSUME TypeOK,
           \/ SweepReservations
           \/ \E t \in Token : ClaimNextJob(t)
           \/ ClaimFindsNothing
           \/ \E j \in Job, t \in Token : HolderStep(j, t)
           \/ \E j \in Job : PersonStep(j)
           \/ Tick
           \/ UNCHANGED vars
    PROVE  Occupied' \subseteq Occupied
<1> USE DEF Occupied, ActiveJobs
<1>1. SUFFICES /\ reserved' \subseteq reserved
               /\ \A k \in Job : IsActive(k)' => IsActive(k)
  OBVIOUS
<1>2. CASE SweepReservations
  BY <1>2, SweepActivatesNone DEF SweepReservations, LiveReservations
<1>3. ASSUME NEW t \in Token, ClaimNextJob(t)
      PROVE  /\ reserved' \subseteq reserved
             /\ \A k \in Job : IsActive(k)' => IsActive(k)
  <2>1. PICK j \in Claimable \ Exhausted, passed \in SUBSET Exhausted :
          job' = [k \in Job |-> IF k = j THEN Claimed(job[k], t)
                              ELSE IF k \in passed THEN Failed(job[k])
                              ELSE job[k]]
    BY <1>3 DEF ClaimNextJob
  <2>2. IsActive(j) /\ \A k \in passed : IsActive(k)
    BY <2>1 DEF Claimable, Exhausted
  <2>3. QED
    BY <1>3, <2>1, <2>2 DEF ClaimNextJob, IsActive
<1>4. CASE ClaimFindsNothing
  BY <1>4 DEF ClaimFindsNothing, Exhausted, Claimable, IsActive
<1>5. ASSUME NEW j \in Job, NEW t \in Token, HolderStep(j, t)
      PROVE  /\ reserved' \subseteq reserved
             /\ \A k \in Job : IsActive(k)' => IsActive(k)
  <2>1. reserved' = reserved
    BY <1>5 DEF HolderStep, FencedUpdate, FencedFail, AttemptWrites,
       PublishAttemptAndComplete, PublishAttemptTorn
  <2>2. \A k \in Job : job'[k].status \in {job[k].status, "failed", "completed"}
    <3> USE DEF TypeOK, JobRecord
    <3>1. CASE FencedUpdate(j, t)
      BY <3>1 DEF FencedUpdate
    <3>2. CASE FencedFail(j, t)
      BY <3>2 DEF FencedFail, Failed
    <3>3. CASE PublishAttemptAndComplete(j, t)
      BY <3>3 DEF PublishAttemptAndComplete
    <3>4. CASE PublishAttemptTorn(j, t) \/ AttemptWrites(j, t)
      BY <3>4 DEF PublishAttemptTorn, AttemptWrites
    <3>5. QED
      BY <1>5, <3>1, <3>2, <3>3, <3>4 DEF HolderStep
  <2>3. QED
    BY <2>1, <2>2 DEF IsActive, Active
<1>6. ASSUME NEW j \in Job, PersonStep(j)
      PROVE  /\ reserved' \subseteq reserved
             /\ \A k \in Job : IsActive(k)' => IsActive(k)
  <2>1. reserved' \subseteq reserved
    BY <1>6 DEF PersonStep, CancelPrimaryJob, RequestJobDeletion,
       RequestJobDeletionTorn, PurgeOne, PurgeTorn, DropReservation
  <2>2. \A k \in Job : job'[k].status
                        \in {job[k].status, "cancelled", "deleting", "none"}
    <3> USE DEF TypeOK, JobRecord
    <3>1. CASE CancelPrimaryJob(j)
      BY <3>1 DEF CancelPrimaryJob, Cancelled
    <3>2. CASE RequestJobDeletion(j)
      BY <3>2 DEF RequestJobDeletion, Deleting
    <3>3. CASE RequestJobDeletionTorn(j)
      BY <3>3 DEF RequestJobDeletionTorn
    <3>4. CASE PurgeOne(j) \/ PurgeTorn(j)
      BY <3>4 DEF PurgeOne, PurgeTorn, NoJob
    <3>5. QED
      BY <1>6, <3>1, <3>2, <3>3, <3>4 DEF PersonStep
  <2>3. QED
    BY <2>1, <2>2 DEF IsActive, Active
<1>7. CASE Tick
  <2>1. \A k \in Job : job'[k].status = job[k].status
    BY <1>7 DEF Tick, TypeOK, JobRecord
  <2>2. QED
    BY <1>7, <2>1 DEF Tick, IsActive
<1>8. CASE UNCHANGED vars
  BY <1>8 DEF vars, fileVars, IsActive
<1>9. QED
  BY <1>2, <1>3, <1>4, <1>5, <1>6, <1>7, <1>8

(* reserveAdmission is granted below the bound, and what it counts then is *)
(* everything that occupies a place after its own sweep.                   *)
LEMMA ReserveStaysWithin ==
    ASSUME TypeOK, NEW j \in Job, ReserveAdmission(j)
    PROVE  CapacityBound'
<1> DEFINE Counted == ActiveJobs \union LiveReservations
<1>1. /\ IsFiniteSet(ActiveJobs) /\ IsFiniteSet(LiveReservations)
      /\ ActiveJobs \intersect LiveReservations = {}
  <2>1. LiveReservations \subseteq Job
    BY DEF LiveReservations, TypeOK
  <2>2. QED
    BY <2>1, OccupiedFinite, ConfigAssumption, FS_Subset
    DEF ActiveJobs, LiveReservations
<1>2. /\ IsFiniteSet(Counted)
      /\ Cardinality(Counted)
           = Cardinality(ActiveJobs) + Cardinality(LiveReservations)
           - Cardinality(ActiveJobs \intersect LiveReservations)
  BY <1>1, FS_Union
<1>3. Cardinality(ActiveJobs \intersect LiveReservations) = 0
  BY <1>1, FS_EmptySet
<1>4. /\ Cardinality(ActiveJobs) \in Nat /\ Cardinality(LiveReservations) \in Nat
      /\ Cardinality(Counted) \in Nat
  BY <1>1, <1>2, FS_CardinalityType
<1>5. Cardinality(Counted) < MaxActiveJobs
  BY <1>2, <1>3, <1>4, ConfigAssumption DEF ReserveAdmission, AtCapacity
<1>6. IsFiniteSet(Counted \union {j})
      /\ Cardinality(Counted \union {j}) \in {Cardinality(Counted), Cardinality(Counted) + 1}
  BY <1>2, FS_AddElement
<1>7. ActiveJobs' = ActiveJobs
  BY SweepActivatesNone DEF ReserveAdmission, ActiveJobs
<1>8. (ActiveJobs \union reserved)' = Counted \union {j}
  BY <1>7 DEF ReserveAdmission
<1> HIDE DEF Counted
<1>9. QED
  BY <1>4, <1>5, <1>6, <1>8, ConfigAssumption DEF CapacityBound

(* The active jobs and the reservations never exceed the admission bound   *)
(* together, for every Env: neither a reservation left behind nor a torn   *)
(* deletion or purge can exceed it.                                        *)
THEOREM CapacityKept == Spec => []CapacityBound
<1>1. Init => CapacityBound
  <2> SUFFICES ASSUME Init PROVE CapacityBound
    OBVIOUS
  <2>1. ActiveJobs \union reserved = {}
    BY DEF Init, ActiveJobs, IsActive, Active, NoJob
  <2>2. QED
    BY <2>1, FS_EmptySet, ConfigAssumption DEF CapacityBound
<1>2. TypeOK /\ CapacityBound /\ [Next]_vars => CapacityBound'
  <2> SUFFICES ASSUME TypeOK, CapacityBound, [Next]_vars
               PROVE  CapacityBound'
    OBVIOUS
  <2>1. CASE \E j \in Job : ReserveAdmission(j)
    BY <2>1, ReserveStaysWithin
  <2>2. CASE ~\E j \in Job : ReserveAdmission(j)
    <3>1. Occupied' \subseteq Occupied
      BY <2>2, RequestStepOccupies, OtherStepOccupies DEF Next
    <3>2. /\ IsFiniteSet(Occupied) /\ IsFiniteSet(Occupied')
          /\ Cardinality(Occupied') <= Cardinality(Occupied)
      BY <3>1, OccupiedFinite, FS_Subset
    <3>3. Cardinality(Occupied) \in Nat /\ Cardinality(Occupied') \in Nat
      BY <3>2, FS_CardinalityType
    <3>4. QED
      BY <3>2, <3>3, ConfigAssumption DEF CapacityBound, Occupied
  <2>3. QED
    BY <2>1, <2>2
<1>3. QED
  BY <1>1, <1>2, TypeCorrect, PTL DEF Spec

-----------------------------------------------------------------------------
(* Who may write a job: the lease belongs to the latest claim, and a       *)
(* completed job shows that claim's artifacts.                             *)

ClaimInv == OnlyLatestClaimHolds /\ CompletedShowsLatestAttempt

(* What ClaimInv says of one job, in the current state and in the next.    *)
HoldsFor(k) ==
    /\ job[k].lease # None =>
         /\ job[k].status = "running"
         /\ job[k].lease = lastClaim[k]
         /\ issued[job[k].lease] = k
    /\ job[k].status = "completed" =>
         publishedBy[k] # None /\ publishedBy[k] = lastClaim[k]

LEMMA ClaimInvPerJob == ClaimInv <=> \A k \in Job : HoldsFor(k)
BY DEF ClaimInv, OnlyLatestClaimHolds, CompletedShowsLatestAttempt, HoldsFor

(* A record without a lease that is not completed satisfies it.            *)
LEMMA Unleased ==
    ASSUME NEW k \in Job, job'[k].lease = None, job'[k].status # "completed"
    PROVE  HoldsFor(k)'
BY DEF HoldsFor

(* So does one whose lease, status, artifacts and claim stay as they were. *)
LEMMA Unchanged ==
    ASSUME NEW k \in Job, HoldsFor(k),
           job'[k].lease = job[k].lease, job'[k].status = job[k].status,
           publishedBy'[k] = publishedBy[k], lastClaim'[k] = lastClaim[k],
           issued' = issued
    PROVE  HoldsFor(k)'
BY DEF HoldsFor

LEMMA SweepKeepsClaims ==
    ASSUME TypeOK, ClaimInv, RecoverFailures,
           UNCHANGED <<publishedBy, lastClaim, issued>>, NEW k \in Job
    PROVE  HoldsFor(k)'
<1>1. CASE Recovered(k)
  BY <1>1, Unleased DEF RecoverFailures, FailedAdmissionRecord, NoJob
<1>2. CASE ~Recovered(k)
  BY <1>2, ClaimInvPerJob, Unchanged DEF RecoverFailures
<1>3. QED
  BY <1>1, <1>2

LEMMA RequestKeepsClaims ==
    ASSUME TypeOK, ClaimInv, NEW j \in Job, RequestStep(j), NEW k \in Job
    PROVE  HoldsFor(k)'
<1> USE DEF fileVars, historyVars
<1>0. HoldsFor(k) /\ UNCHANGED <<publishedBy, lastClaim, issued>>
  BY ClaimInvPerJob DEF RequestStep, ReserveAdmission, OpenStaging,
     ReceiveBytes, RecheckAdmission, RecheckRefused, PublishReservedQueuedJob,
     PublishFindsRecord, PublishFindsReservationLost,
     PublishFailedAdmissionJob, AbortAdmissionStaging, RequestEnds
<1>1. CASE ReserveAdmission(j) \/ RecheckAdmission(j) \/ RecheckRefused(j)
  BY <1>0, <1>1, SweepKeepsClaims
  DEF ReserveAdmission, RecheckAdmission, RecheckRefused
<1>2. CASE PublishReservedQueuedJob(j) \/ PublishFailedAdmissionJob(j)
  <2>1. PICK record :
          /\ record.lease = None /\ record.status # "completed"
          /\ job' \in {job, [job EXCEPT ![j] = record]}
    <3>1. CASE PublishReservedQueuedJob(j)
      <4>1. PICK at \in CreatedAt :
              job' = [job EXCEPT ![j] = [NoJob EXCEPT !.status = "queued",
                                                      !.createdAt = at]]
        BY <3>1 DEF PublishReservedQueuedJob
      <4>2. QED
        BY <4>1 DEF NoJob
    <3>2. CASE PublishFailedAdmissionJob(j)
      BY <3>2 DEF PublishFailedAdmissionJob, FailedAdmissionRecord, NoJob
    <3>3. QED
      BY <1>2, <3>1, <3>2
  <2>2. \/ job'[k] = job[k]
        \/ job'[k].lease = None /\ job'[k].status # "completed"
    BY <2>1 DEF TypeOK
  <2>3. QED
    BY <1>0, <2>2, Unleased, Unchanged
<1>3. CASE UNCHANGED job
  BY <1>0, <1>3, Unchanged
<1>4. QED
  BY <1>1, <1>2, <1>3 DEF RequestStep, OpenStaging, ReceiveBytes,
     PublishFindsRecord, PublishFindsReservationLost, AbortAdmissionStaging,
     RequestEnds

LEMMA ClaimKeepsClaims ==
    ASSUME TypeOK, ClaimInv, NEW t \in Token, ClaimNextJob(t), NEW k \in Job
    PROVE  HoldsFor(k)'
<1>1. PICK j \in Claimable \ Exhausted, passed \in SUBSET Exhausted :
        /\ job' = [i \in Job |-> IF i = j THEN Claimed(job[i], t)
                                ELSE IF i \in passed THEN Failed(job[i])
                                ELSE job[i]]
        /\ issued' = [issued EXCEPT ![t] = j]
        /\ lastClaim' = [lastClaim EXCEPT ![j] = t]
  BY DEF ClaimNextJob
<1>2. /\ issued[t] = None /\ publishedBy' = publishedBy
      /\ None \notin Job /\ HoldsFor(k) /\ job[k] \in JobRecord
  BY ClaimInvPerJob, ConfigAssumption DEF ClaimNextJob, TypeOK
<1>3. CASE k = j
  <2>1. job'[k].lease = t /\ job'[k].status = "running"
    BY <1>1, <1>2, <1>3 DEF Claimed, JobRecord
  <2>2. lastClaim'[k] = t /\ issued'[t] = k
    BY <1>1, <1>3 DEF TypeOK
  <2>3. QED
    BY <2>1, <2>2 DEF HoldsFor
<1>4. CASE k # j /\ k \in passed
  <2>1. job'[k].lease = None /\ job'[k].status = "failed"
    BY <1>1, <1>2, <1>4 DEF Failed, JobRecord
  <2>2. QED
    BY <2>1, Unleased
<1>5. CASE k # j /\ k \notin passed
  <2>1. job'[k] = job[k] /\ lastClaim'[k] = lastClaim[k]
    BY <1>1, <1>5 DEF TypeOK
  <2>2. job[k].lease # None => job[k].lease # t
    BY <1>2 DEF HoldsFor
  <2>3. job[k].lease # None => issued'[job[k].lease] = issued[job[k].lease]
    BY <1>1, <1>2, <2>2 DEF TypeOK, JobRecord
  <2>4. QED
    BY <1>2, <2>1, <2>3 DEF HoldsFor
<1>6. QED
  BY <1>3, <1>4, <1>5

LEMMA HolderKeepsClaims ==
    ASSUME TypeOK, ClaimInv, NEW j \in Job, NEW t \in Token, HolderStep(j, t),
           NEW k \in Job
    PROVE  HoldsFor(k)'
<1>0. /\ HoldsFor(k) /\ job[k] \in JobRecord /\ job[j] \in JobRecord
      /\ UNCHANGED <<lastClaim, issued>>
  BY ClaimInvPerJob DEF TypeOK, HolderStep, FencedUpdate, FencedFail,
     AttemptWrites, PublishAttemptAndComplete, PublishAttemptTorn, historyVars
<1>2. CASE FencedUpdate(j, t)
  <2>1. job'[k].lease = job[k].lease /\ job'[k].status = job[k].status
    BY <1>0, <1>2 DEF FencedUpdate, TypeOK, JobRecord
  <2>2. QED
    BY <1>0, <1>2, <2>1, Unchanged DEF FencedUpdate
<1>3. CASE FencedFail(j, t)
  <2>1. \/ job'[k] = job[k]
        \/ job'[k].lease = None /\ job'[k].status # "completed"
    BY <1>0, <1>3 DEF FencedFail, Failed, TypeOK, JobRecord
  <2>2. QED
    BY <1>0, <1>3, <2>1, Unchanged, Unleased DEF FencedFail
<1>4. CASE PublishAttemptAndComplete(j, t) /\ k = j
  <2>1. job'[k].lease = None /\ publishedBy'[k] = t
    BY <1>0, <1>4 DEF PublishAttemptAndComplete, TypeOK, JobRecord
  <2>2. QED
    BY <1>0, <1>4, <2>1, ConfigAssumption
    DEF HoldsFor, PublishAttemptAndComplete, LeaseHeld
<1>5. CASE PublishAttemptTorn(j, t) /\ k = j
  BY <1>0, <1>5, ConfigAssumption
  DEF PublishAttemptTorn, LeaseHeld, HoldsFor, historyVars
<1>6. CASE k # j /\ (PublishAttemptAndComplete(j, t) \/ PublishAttemptTorn(j, t))
  <2>1. job'[k] = job[k] /\ publishedBy'[k] = publishedBy[k]
    BY <1>6 DEF PublishAttemptAndComplete, PublishAttemptTorn, TypeOK
  <2>2. QED
    BY <1>0, <2>1, Unchanged
<1>7. CASE AttemptWrites(j, t)
  BY <1>0, <1>7, Unchanged DEF AttemptWrites
<1>8. QED
  BY <1>2, <1>3, <1>4, <1>5, <1>6, <1>7 DEF HolderStep

LEMMA PersonKeepsClaims ==
    ASSUME TypeOK, ClaimInv, NEW j \in Job, PersonStep(j), NEW k \in Job
    PROVE  HoldsFor(k)'
<1>0. /\ HoldsFor(k) /\ job[k] \in JobRecord /\ job[j] \in JobRecord
      /\ UNCHANGED <<lastClaim, issued>>
  BY ClaimInvPerJob DEF TypeOK, PersonStep, CancelPrimaryJob,
     RequestJobDeletion, RequestJobDeletionTorn, PurgeOne, PurgeTorn,
     historyVars
<1>1. CASE CancelPrimaryJob(j)
  <2>1. \/ job'[k] = job[k]
        \/ job'[k].lease = None /\ job'[k].status # "completed"
    BY <1>0, <1>1 DEF CancelPrimaryJob, Cancelled, TypeOK, JobRecord
  <2>2. QED
    BY <1>0, <1>1, <2>1, Unchanged, Unleased DEF CancelPrimaryJob
<1>2. CASE RequestJobDeletion(j)
  <2>1. \/ job'[k] = job[k]
        \/ job'[k].lease = None /\ job'[k].status # "completed"
    BY <1>0, <1>2 DEF RequestJobDeletion, Deleting, TypeOK, JobRecord
  <2>2. QED
    BY <1>0, <1>2, <2>1, Unchanged, Unleased DEF RequestJobDeletion
<1>3. CASE RequestJobDeletionTorn(j)
  BY <1>0, <1>3, Unchanged DEF RequestJobDeletionTorn
<1>4. CASE PurgeOne(j) \/ PurgeTorn(j)
  <2>1. \/ k = j /\ job'[k] = NoJob
        \/ k # j /\ job'[k] = job[k] /\ publishedBy'[k] = publishedBy[k]
    BY <1>4 DEF PurgeOne, PurgeTorn, TypeOK
  <2>2. QED
    BY <1>0, <2>1, Unchanged, Unleased DEF NoJob
<1>5. QED
  BY <1>1, <1>2, <1>3, <1>4 DEF PersonStep

LEMMA OtherKeepsClaims ==
    ASSUME TypeOK, ClaimInv, NEW k \in Job,
           ClaimFindsNothing \/ Tick \/ UNCHANGED vars
    PROVE  HoldsFor(k)'
<1>0. /\ HoldsFor(k) /\ job[k] \in JobRecord
      /\ UNCHANGED <<publishedBy, lastClaim, issued>>
  BY ClaimInvPerJob DEF TypeOK, ClaimFindsNothing, Tick, vars, fileVars,
     historyVars
<1>1. CASE ClaimFindsNothing
  <2>1. \/ job'[k] = job[k]
        \/ job'[k].lease = None /\ job'[k].status # "completed"
    BY <1>0, <1>1 DEF ClaimFindsNothing, Failed, JobRecord
  <2>2. QED
    BY <1>0, <2>1, Unchanged, Unleased
<1>2. CASE Tick
  <2>1. job'[k].lease = job[k].lease /\ job'[k].status = job[k].status
    BY <1>0, <1>2 DEF Tick, JobRecord
  <2>2. QED
    BY <1>0, <2>1, Unchanged
<1>3. CASE UNCHANGED vars
  BY <1>0, <1>3, Unchanged DEF vars, fileVars
<1>4. QED
  BY <1>1, <1>2, <1>3

LEMMA ClaimInvInductive == TypeOK /\ ClaimInv /\ [Next]_vars => ClaimInv'
<1> SUFFICES ASSUME TypeOK, ClaimInv, [Next]_vars, NEW k \in Job
             PROVE  HoldsFor(k)'
  BY ClaimInvPerJob DEF ClaimInv, OnlyLatestClaimHolds,
     CompletedShowsLatestAttempt, HoldsFor
<1>1. CASE SweepReservations
  BY <1>1, SweepKeepsClaims DEF SweepReservations, historyVars
<1>2. CASE \E j \in Job : RequestStep(j)
  BY <1>2, RequestKeepsClaims
<1>3. CASE \E t \in Token : ClaimNextJob(t)
  BY <1>3, ClaimKeepsClaims
<1>4. CASE \E j \in Job, t \in Token : HolderStep(j, t)
  BY <1>4, HolderKeepsClaims
<1>5. CASE \E j \in Job : PersonStep(j)
  BY <1>5, PersonKeepsClaims
<1>6. QED
  BY <1>1, <1>2, <1>3, <1>4, <1>5, OtherKeepsClaims DEF Next

LEMMA ClaimInvAlways == Spec => []ClaimInv
<1>1. Init => ClaimInv
  BY DEF Init, ClaimInv, OnlyLatestClaimHolds, CompletedShowsLatestAttempt,
     NoJob
<1>2. QED
  BY <1>1, ClaimInvInductive, TypeCorrect, PTL DEF Spec

(* Fencing: whoever passes the token check of fencedUpdateJob is the       *)
(* holder of the job's latest claim, and the job is running.  A worker     *)
(* whose job was claimed again, cancelled, deleted or failed can no longer *)
(* write it, however long it stalled.                                      *)
THEOREM OnlyLatestClaimWrites == Spec => []OnlyLatestClaimHolds
BY ClaimInvAlways, PTL DEF ClaimInv

(* The artifacts of a completed job are those of its latest claim, for     *)
(* every interleaving of torn publications and reclaimed leases.           *)
THEOREM CompletedIsLatest == Spec => []CompletedShowsLatestAttempt
BY ClaimInvAlways, PTL DEF ClaimInv

-----------------------------------------------------------------------------
(* How often a job is started: the tokens issued for it are counted by its *)
(* attempts while it is active, and no record becomes active twice.        *)

Starts(k) == {t \in Token : issued[t] = k}

StartsCounted(k) ==
    /\ Cardinality(Starts(k)) <= MaxAttempts
    /\ Starts(k) # {} => request[k] = "ended"
    /\ IsActive(k) => /\ request[k] = "ended"
                      /\ Cardinality(Starts(k)) = job[k].attempts

StartInv == \A k \in Job : StartsCounted(k)

LEMMA StartsFinite ==
    ASSUME NEW k \in Job
    PROVE  IsFiniteSet(Starts(k)) /\ Cardinality(Starts(k)) \in Nat
<1>1. Starts(k) \subseteq Token
  BY DEF Starts
<1>2. QED
  BY <1>1, ConfigAssumption, FS_Subset, FS_CardinalityType

(* What every step but a claim leaves true of the count: no token is       *)
(* issued, an ended request stays ended, and a record that is active was   *)
(* so with as many attempts, or is the one its request just published.     *)
LEMMA StartsKept ==
    ASSUME StartInv, NEW k \in Job, issued' = issued,
           request[k] = "ended" => request'[k] = "ended",
           \/ ~IsActive(k)'
           \/ IsActive(k) /\ job'[k].attempts = job[k].attempts
           \/ /\ request[k] # "ended" /\ request'[k] = "ended"
              /\ job'[k].attempts = 0
    PROVE  StartsCounted(k)'
<1>1. StartsCounted(k) /\ Starts(k)' = Starts(k)
  BY DEF StartInv, Starts
<1>2. Starts(k) = {} => Cardinality(Starts(k)) = 0
  BY FS_EmptySet
<1>3. QED
  BY <1>1, <1>2 DEF StartsCounted

LEMMA RequestKeepsStarts ==
    ASSUME TypeOK, StartInv, NEW j \in Job, RequestStep(j), NEW k \in Job
    PROVE  StartsCounted(k)'
<1> USE DEF fileVars, historyVars
<1>1. CASE ReserveAdmission(j) \/ RecheckAdmission(j) \/ RecheckRefused(j)
  <2>1. /\ RecoverFailures /\ issued' = issued
        /\ request[j] # "ended"
        /\ \A i \in Job : i # j => request'[i] = request[i]
    BY <1>1 DEF ReserveAdmission, RecheckAdmission, RecheckRefused, TypeOK
  <2>2. IsActive(k)' => IsActive(k) /\ job'[k] = job[k]
    BY <2>1, SweepActivatesNone
    DEF RecoverFailures, Recovered, Expired, Orphaned, IsActive, Active
  <2>3. QED
    BY <2>1, <2>2, StartsKept
<1>2. CASE PublishReservedQueuedJob(j)
  <2>1. PICK at \in CreatedAt :
          job' = [job EXCEPT ![j] = [NoJob EXCEPT !.status = "queued",
                                                  !.createdAt = at]]
    BY <1>2 DEF PublishReservedQueuedJob
  <2>2. /\ issued' = issued /\ request' = [request EXCEPT ![j] = "ended"]
        /\ request[j] = "staging"
    BY <1>2 DEF PublishReservedQueuedJob
  <2>3. k = j => job'[k].attempts = 0 /\ request'[k] = "ended"
    BY <2>1, <2>2 DEF TypeOK, NoJob
  <2>4. k # j => job'[k] = job[k] /\ request'[k] = request[k]
    BY <2>1, <2>2 DEF TypeOK
  <2>5. QED
    BY <2>2, <2>3, <2>4, StartsKept DEF IsActive
<1>3. CASE PublishFailedAdmissionJob(j)
  <2>1. /\ issued' = issued /\ request' = [request EXCEPT ![j] = "ended"]
        /\ job' \in {job, [job EXCEPT ![j] = FailedAdmissionRecord]}
    BY <1>3 DEF PublishFailedAdmissionJob
  <2>2. job'[k] = job[k] \/ job'[k].status = "failed"
    BY <2>1 DEF TypeOK, FailedAdmissionRecord, NoJob
  <2>3. request[k] = "ended" => request'[k] = "ended"
    BY <2>1 DEF TypeOK
  <2>4. QED
    BY <2>1, <2>2, <2>3, StartsKept DEF IsActive, Active
<1>4. CASE OpenStaging(j) \/ ReceiveBytes(j) \/ PublishFindsRecord(j)
             \/ PublishFindsReservationLost(j) \/ AbortAdmissionStaging(j)
             \/ RequestEnds(j)
  <2>1. /\ issued' = issued /\ job' = job /\ request[j] # "ended"
        /\ \A i \in Job : i # j => request'[i] = request[i]
    BY <1>4 DEF OpenStaging, ReceiveBytes, PublishFindsRecord,
       PublishFindsReservationLost, AbortAdmissionStaging, RequestEnds, TypeOK
  <2>2. QED
    BY <2>1, StartsKept DEF IsActive
<1>5. QED
  BY <1>1, <1>2, <1>3, <1>4 DEF RequestStep

(* A claim issues a token that nobody had, and counts it.                  *)
LEMMA ClaimKeepsStarts ==
    ASSUME TypeOK, StartInv, NEW t \in Token, ClaimNextJob(t), NEW k \in Job
    PROVE  StartsCounted(k)'
<1>1. PICK j \in Claimable \ Exhausted, passed \in SUBSET Exhausted :
        /\ job' = [i \in Job |-> IF i = j THEN Claimed(job[i], t)
                                ELSE IF i \in passed THEN Failed(job[i])
                                ELSE job[i]]
        /\ issued' = [issued EXCEPT ![t] = j]
  BY DEF ClaimNextJob
<1>2. /\ issued[t] = None /\ None \notin Job /\ request' = request
      /\ StartsCounted(k) /\ job[k] \in JobRecord
      /\ MaxAttempts \in Nat /\ job[k].attempts \in Nat
  BY ConfigAssumption DEF ClaimNextJob, TypeOK, StartInv, JobRecord
<1>3. CASE k = j
  <2>1. IsActive(k) /\ ~(job[k].attempts >= MaxAttempts)
    BY <1>1, <1>3 DEF Claimable, Exhausted, ActiveJobs
  <2>2. Starts(k)' = Starts(k) \union {t} /\ t \notin Starts(k)
    BY <1>1, <1>2, <1>3 DEF Starts, TypeOK
  <2>3. Cardinality(Starts(k)') = Cardinality(Starts(k)) + 1
    BY <2>2, StartsFinite, FS_AddElement
  <2>4. job'[k].attempts = job[k].attempts + 1
    BY <1>1, <1>2, <1>3 DEF Claimed, JobRecord
  <2>5. QED
    BY <1>2, <2>1, <2>3, <2>4 DEF StartsCounted
<1>4. CASE k # j
  <2>1. Starts(k)' = Starts(k)
    BY <1>1, <1>2, <1>4 DEF Starts, TypeOK
  <2>2. job'[k] = job[k] \/ ~IsActive(k)'
    <3>1. CASE k \in passed
      <4>1. job'[k].status = "failed"
        BY <1>1, <1>2, <1>4, <3>1 DEF Failed, JobRecord
      <4>2. QED
        BY <4>1 DEF IsActive, Active
    <3>2. CASE k \notin passed
      BY <1>1, <1>4, <3>2
    <3>3. QED
      BY <3>1, <3>2
  <2>3. QED
    BY <1>2, <2>1, <2>2 DEF StartsCounted, IsActive
<1>5. QED
  BY <1>3, <1>4

(* The other steps issue no token and make no record active.               *)
LEMMA OtherKeepsStarts ==
    ASSUME TypeOK, StartInv, NEW k \in Job,
           \/ SweepReservations
           \/ ClaimFindsNothing
           \/ \E j \in Job, t \in Token : HolderStep(j, t)
           \/ \E j \in Job : PersonStep(j)
           \/ Tick
           \/ UNCHANGED vars
    PROVE  StartsCounted(k)'
<1> USE DEF fileVars, historyVars
<1>0. job[k] \in JobRecord
  BY DEF TypeOK
<1>1. issued' = issued /\ request' = request
  BY DEF SweepReservations, ClaimFindsNothing, HolderStep, FencedUpdate,
     FencedFail, AttemptWrites, PublishAttemptAndComplete, PublishAttemptTorn,
     PersonStep, CancelPrimaryJob, RequestJobDeletion, RequestJobDeletionTorn,
     PurgeOne, PurgeTorn, Tick, vars
<1>2. \/ job'[k].status = job[k].status /\ job'[k].attempts = job[k].attempts
      \/ job'[k].status \in {"failed", "completed", "cancelled", "deleting", "none"}
  <2>1. CASE SweepReservations
    BY <2>1 DEF SweepReservations, RecoverFailures, FailedAdmissionRecord, NoJob
  <2>2. CASE ClaimFindsNothing
    BY <1>0, <2>2 DEF ClaimFindsNothing, Failed, JobRecord
  <2>3. ASSUME NEW j \in Job, NEW t \in Token, HolderStep(j, t)
        PROVE  \/ /\ job'[k].status = job[k].status
                  /\ job'[k].attempts = job[k].attempts
               \/ job'[k].status \in {"failed", "completed"}
    <3> USE DEF TypeOK, JobRecord
    <3>1. CASE FencedUpdate(j, t)
      BY <1>0, <3>1 DEF FencedUpdate
    <3>2. CASE FencedFail(j, t)
      BY <1>0, <3>2 DEF FencedFail, Failed
    <3>3. CASE PublishAttemptAndComplete(j, t)
      BY <1>0, <3>3 DEF PublishAttemptAndComplete
    <3>4. CASE PublishAttemptTorn(j, t) \/ AttemptWrites(j, t)
      BY <3>4 DEF PublishAttemptTorn, AttemptWrites
    <3>5. QED
      BY <2>3, <3>1, <3>2, <3>3, <3>4 DEF HolderStep
  <2>4. ASSUME NEW j \in Job, PersonStep(j)
        PROVE  \/ /\ job'[k].status = job[k].status
                  /\ job'[k].attempts = job[k].attempts
               \/ job'[k].status \in {"cancelled", "deleting", "none"}
    <3> USE DEF TypeOK, JobRecord
    <3>1. CASE CancelPrimaryJob(j)
      BY <1>0, <3>1 DEF CancelPrimaryJob, Cancelled
    <3>2. CASE RequestJobDeletion(j)
      BY <1>0, <3>2 DEF RequestJobDeletion, Deleting
    <3>3. CASE RequestJobDeletionTorn(j)
      BY <3>3 DEF RequestJobDeletionTorn
    <3>4. CASE PurgeOne(j) \/ PurgeTorn(j)
      BY <3>4 DEF PurgeOne, PurgeTorn, NoJob
    <3>5. QED
      BY <2>4, <3>1, <3>2, <3>3, <3>4 DEF PersonStep
  <2>5. CASE Tick
    BY <1>0, <2>5 DEF Tick, JobRecord
  <2>6. CASE UNCHANGED vars
    BY <2>6 DEF vars
  <2>7. QED
    BY <2>1, <2>2, <2>3, <2>4, <2>5, <2>6
<1>3. QED
  BY <1>1, <1>2, StartsKept DEF IsActive, Active

LEMMA StartInvInductive == TypeOK /\ StartInv /\ [Next]_vars => StartInv'
<1> SUFFICES ASSUME TypeOK, StartInv, [Next]_vars, NEW k \in Job
             PROVE  StartsCounted(k)'
  BY DEF StartInv
<1>1. QED
  BY RequestKeepsStarts, ClaimKeepsStarts, OtherKeepsStarts DEF Next

(* All of it holds when nothing has been uploaded yet.                     *)
LEMMA InitHolds == Init => TypeOK /\ ClaimInv /\ StartInv
<1> SUFFICES ASSUME Init PROVE TypeOK /\ ClaimInv /\ StartInv
  OBVIOUS
<1>1. TypeOK
  BY NoJobType, ConfigAssumption DEF Init, TypeOK, RequestPhase
<1>2. ClaimInv
  BY DEF Init, ClaimInv, OnlyLatestClaimHolds, CompletedShowsLatestAttempt,
     NoJob
<1>3. ASSUME NEW k \in Job PROVE StartsCounted(k)
  <2>1. Starts(k) = {}
    BY ConfigAssumption DEF Init, Starts
  <2>2. ~IsActive(k)
    BY DEF Init, NoJob, IsActive, Active
  <2>3. QED
    BY <2>1, <2>2, FS_EmptySet, ConfigAssumption DEF StartsCounted
<1>4. QED
  BY <1>1, <1>2, <1>3 DEF StartInv

(* A job is started at most MaxAttempts times in its whole life, for every *)
(* Env: tokens once issued are never forgotten, and the count in job.json  *)
(* survives expiry, recovery, cancellation and torn publications, because  *)
(* only its own request ever makes a record active.                        *)
THEOREM StartsAreBounded == Spec => []StartedAtMostMaxAttempts
<1>1. Init => StartInv
  BY InitHolds
<1>2. StartInv => StartedAtMostMaxAttempts
  BY DEF StartInv, StartsCounted, Starts, StartedAtMostMaxAttempts
<1>3. QED
  BY <1>1, <1>2, StartInvInductive, TypeCorrect, PTL DEF Spec

-----------------------------------------------------------------------------
(* The files of a job, and what a revoked lease still holds back           *)

(* The files of a job agree with each other: where reservations are        *)
(* removed with the write that ends them, one exists only before the       *)
(* record; a tombstone outlives the reservation and, where deletions are   *)
(* not torn, belongs to a record without a lease.                          *)
FilesAgree(k) ==
    /\ k \in reserved => job[k].status = "none"
    /\ k \in tombstone =>
         /\ k \notin reserved
         /\ "tombstone" \notin Env =>
              /\ job[k].lease = None
              /\ job[k].status \in {"none", "failed", "deleting"}
    /\ request[k] = "new" => /\ k \notin reserved
                             /\ k \notin tombstone
                             /\ job[k].status = "none"
                             /\ dir[k] = "absent"

FilesInv == \A k \in Job : FilesAgree(k)

LEMMA SweepKeepsFiles ==
    ASSUME TypeOK, FilesInv, RecoverFailures, reserved' = LiveReservations,
           NEW k \in Job, UNCHANGED <<dir, tombstone>>,
           request'[k] = "new" => request[k] = "new"
    PROVE  FilesAgree(k)'
<1>0. FilesAgree(k)
  BY DEF FilesInv
<1>1. CASE Recovered(k)
  <2>1. job'[k] = FailedAdmissionRecord
    BY <1>1 DEF RecoverFailures
  <2>2. job'[k].lease = None /\ job'[k].status = "failed"
    BY <2>1 DEF FailedAdmissionRecord, NoJob
  <2>3. k \notin reserved' /\ request[k] # "new"
    BY <1>0, <1>1 DEF FilesAgree, Recovered, Expired, Orphaned,
       LiveReservations, StagedBytesExist
  <2>4. QED
    BY <1>0, <2>2, <2>3 DEF FilesAgree
<1>2. CASE ~Recovered(k)
  BY <1>0, <1>2 DEF RecoverFailures, FilesAgree, LiveReservations
<1>3. QED
  BY <1>1, <1>2

LEMMA RequestKeepsFiles ==
    ASSUME TypeOK, FilesInv, "unlink" \notin Env, NEW j \in Job, RequestStep(j),
           NEW k \in Job
    PROVE  FilesAgree(k)'
<1> USE DEF fileVars, historyVars
<1>0. FilesAgree(k) /\ FilesAgree(j) /\ job[k] \in JobRecord
  BY DEF FilesInv, TypeOK
<1>1. CASE ReserveAdmission(j)
  <2>1. /\ reserved' = LiveReservations \union {j}
        /\ job' = [i \in Job |-> IF Recovered(i) THEN FailedAdmissionRecord
                                                 ELSE job[i]]
        /\ request' = [request EXCEPT ![j] = "admitted"]
        /\ request[j] = "new"
        /\ UNCHANGED <<dir, tombstone>>
    BY <1>1 DEF ReserveAdmission, RecoverFailures
  <2>2. CASE k = j
    <3>1. ~Recovered(j)
      BY <1>0, <2>1 DEF FilesAgree, Recovered, StagedBytesExist
    <3>2. QED
      BY <1>0, <2>1, <2>2, <3>1 DEF FilesAgree, TypeOK
  <2>3. CASE k # j /\ Recovered(k)
    <3>1. job'[k].lease = None /\ job'[k].status = "failed"
      BY <2>1, <2>3 DEF FailedAdmissionRecord, NoJob
    <3>2. k \notin reserved' /\ request'[k] # "new"
      BY <1>0, <2>1, <2>3 DEF FilesAgree, Recovered, Expired, Orphaned,
         LiveReservations, StagedBytesExist, TypeOK
    <3>3. QED
      BY <1>0, <2>1, <3>1, <3>2 DEF FilesAgree
  <2>4. CASE k # j /\ ~Recovered(k)
    BY <1>0, <2>1, <2>4 DEF FilesAgree, LiveReservations, TypeOK
  <2>5. QED
    BY <2>2, <2>3, <2>4
<1>2. CASE RecheckAdmission(j) \/ RecheckRefused(j)
  <2>1. /\ RecoverFailures /\ reserved' = LiveReservations
        /\ UNCHANGED <<dir, tombstone>>
        /\ request' \in {request, [request EXCEPT ![j] = "refused"]}
    BY <1>2 DEF RecheckAdmission, RecheckRefused
  <2>2. request'[k] = "new" => request[k] = "new"
    BY <2>1 DEF TypeOK
  <2>3. QED
    BY <2>1, <2>2, SweepKeepsFiles
<1>3. CASE PublishReservedQueuedJob(j)
  <2>1. PICK at \in CreatedAt :
          job' = [job EXCEPT ![j] = [NoJob EXCEPT !.status = "queued",
                                                  !.createdAt = at]]
    BY <1>3 DEF PublishReservedQueuedJob
  <2>2. /\ reserved' = reserved \ {j} /\ j \in reserved
        /\ request' = [request EXCEPT ![j] = "ended"]
        /\ UNCHANGED tombstone
        /\ dir' = [dir EXCEPT ![j] = IF @ = "absent" THEN "empty" ELSE @]
    BY <1>3 DEF PublishReservedQueuedJob, DropReservation
  <2>3. CASE k = j
    BY <1>0, <2>1, <2>2, <2>3 DEF FilesAgree, TypeOK, NoJob
  <2>4. CASE k # j
    BY <1>0, <2>1, <2>2, <2>4 DEF FilesAgree, TypeOK
  <2>5. QED
    BY <2>3, <2>4
<1>4. CASE PublishFailedAdmissionJob(j)
  <2>1. /\ reserved' = reserved \ {j} /\ j \in reserved
        /\ job' \in {job, [job EXCEPT ![j] = FailedAdmissionRecord]}
        /\ request' = [request EXCEPT ![j] = "ended"]
        /\ UNCHANGED <<dir, tombstone>>
    BY <1>4 DEF PublishFailedAdmissionJob, DropReservation
  <2>2. CASE k = j
    BY <1>0, <2>1, <2>2 DEF FilesAgree, TypeOK
  <2>3. CASE k # j
    BY <1>0, <2>1, <2>3 DEF FilesAgree, TypeOK
  <2>4. QED
    BY <2>2, <2>3
<1>5. CASE OpenStaging(j)
  BY <1>0, <1>5 DEF OpenStaging, FilesAgree, TypeOK
<1>6. CASE ReceiveBytes(j)
  BY <1>0, <1>6 DEF ReceiveBytes, FilesAgree, TypeOK
<1>7. CASE PublishFindsRecord(j) \/ PublishFindsReservationLost(j)
             \/ AbortAdmissionStaging(j) \/ RequestEnds(j)
  <2>1. /\ UNCHANGED <<job, dir, tombstone>> /\ reserved' \subseteq reserved
        /\ \E r \in {"ended", "refused"} : request' = [request EXCEPT ![j] = r]
    BY <1>7 DEF PublishFindsRecord, PublishFindsReservationLost,
       AbortAdmissionStaging, RequestEnds
  <2>2. QED
    BY <1>0, <2>1 DEF FilesAgree, TypeOK
<1>8. QED
  BY <1>1, <1>2, <1>3, <1>4, <1>5, <1>6, <1>7 DEF RequestStep

LEMMA ClaimKeepsFiles ==
    ASSUME TypeOK, FilesInv, ClaimFindsNothing \/ \E t \in Token : ClaimNextJob(t),
           NEW k \in Job
    PROVE  FilesAgree(k)'
<1> USE DEF historyVars
<1>1. FilesAgree(k) /\ UNCHANGED <<dir, reserved, tombstone, request>>
  BY DEF FilesInv, ClaimFindsNothing, ClaimNextJob
<1>2. job'[k] = job[k] \/ IsActive(k)
  <2>1. CASE ClaimFindsNothing
    BY <2>1 DEF ClaimFindsNothing, Exhausted, Claimable, ActiveJobs
  <2>2. ASSUME NEW t \in Token, ClaimNextJob(t)
        PROVE  job'[k] = job[k] \/ IsActive(k)
    <3>1. PICK j \in Claimable \ Exhausted, passed \in SUBSET Exhausted :
            job' = [i \in Job |-> IF i = j THEN Claimed(job[i], t)
                                ELSE IF i \in passed THEN Failed(job[i])
                                ELSE job[i]]
      BY <2>2 DEF ClaimNextJob
    <3>2. QED
      BY <3>1 DEF Exhausted, Claimable, ActiveJobs
  <2>3. QED
    BY <2>1, <2>2
<1>3. IsActive(k) => /\ k \notin reserved /\ request[k] # "new"
                     /\ "tombstone" \notin Env => k \notin tombstone
  BY <1>1 DEF FilesAgree, IsActive, Active
<1>4. QED
  BY <1>1, <1>2, <1>3 DEF FilesAgree

LEMMA HolderKeepsFiles ==
    ASSUME TypeOK, FilesInv, ClaimInv, NEW j \in Job, NEW t \in Token,
           HolderStep(j, t), NEW k \in Job
    PROVE  FilesAgree(k)'
<1> USE DEF historyVars
<1>0. CASE AttemptWrites(j, t)
  BY <1>0 DEF AttemptWrites, FilesInv, FilesAgree, TypeOK
<1>1. SUFFICES ASSUME ~AttemptWrites(j, t) PROVE FilesAgree(k)'
  BY <1>0
<1>2. /\ FilesAgree(k) /\ UNCHANGED <<reserved, tombstone, request>>
      /\ k # j => job'[k] = job[k] /\ dir'[k] = dir[k]
      /\ LeaseHeld(j, t)
  BY <1>1 DEF FilesInv, TypeOK, HolderStep, FencedUpdate, FencedFail,
     PublishAttemptAndComplete, PublishAttemptTorn
<1>3. job[j].lease # None /\ job[j].status = "running"
  BY <1>2, ClaimInvPerJob, ConfigAssumption DEF LeaseHeld, HoldsFor
<1>4. FilesAgree(j) => /\ j \notin reserved /\ request[j] # "new"
                       /\ "tombstone" \notin Env => j \notin tombstone
  BY <1>3 DEF FilesAgree
<1>5. QED
  BY <1>2, <1>4 DEF FilesAgree

LEMMA PersonKeepsFiles ==
    ASSUME TypeOK, FilesInv, "unlink" \notin Env, NEW j \in Job, PersonStep(j),
           NEW k \in Job
    PROVE  FilesAgree(k)'
<1> USE DEF historyVars
<1>0. FilesAgree(k) /\ job[j] \in JobRecord /\ UNCHANGED request
  BY DEF FilesInv, TypeOK, PersonStep, CancelPrimaryJob, RequestJobDeletion,
     RequestJobDeletionTorn, PurgeOne, PurgeTorn
<1>1. CASE CancelPrimaryJob(j)
  <2>1. /\ job' = [job EXCEPT ![j] = Cancelled(job[j])]
        /\ reserved' = reserved \ {j} /\ IsActive(j)
        /\ UNCHANGED <<dir, tombstone>>
    BY <1>1 DEF CancelPrimaryJob, DropReservation
  <2>2. k = j => request[k] # "new" /\ ("tombstone" \notin Env => k \notin tombstone)
    BY <1>0, <2>1 DEF FilesAgree, IsActive, Active
  <2>3. QED
    BY <1>0, <2>1, <2>2 DEF FilesAgree, TypeOK
<1>2. CASE RequestJobDeletion(j)
  <2>1. /\ job' = [job EXCEPT ![j] = Deleting(job[j])]
        /\ tombstone' = tombstone \union {j}
        /\ job[j].status # "none"
        /\ UNCHANGED <<dir, reserved>>
    BY <1>2 DEF RequestJobDeletion, WriteTombstone, MayDelete
  <2>2. Deleting(job[j]).lease = None /\ Deleting(job[j]).status = "deleting"
    BY <1>0 DEF Deleting, JobRecord
  <2>3. k = j => k \notin reserved /\ request[k] # "new"
    BY <1>0, <2>1 DEF FilesAgree
  <2>4. QED
    BY <1>0, <2>1, <2>2, <2>3 DEF FilesAgree, TypeOK
<1>3. CASE PurgeOne(j) \/ PurgeTorn(j)
  <2>1. /\ job' = [job EXCEPT ![j] = NoJob] /\ reserved' = reserved \ {j}
        /\ tombstone' \subseteq tombstone /\ j \in tombstone
        /\ k # j => dir'[k] = dir[k]
    BY <1>3 DEF PurgeOne, PurgeTorn, PurgeAllowed, TypeOK
  <2>2. k = j => request[k] # "new"
    BY <1>0, <2>1 DEF FilesAgree
  <2>3. QED
    BY <1>0, <2>1, <2>2 DEF FilesAgree, TypeOK, NoJob
<1>4. CASE RequestJobDeletionTorn(j)
  <2>1. /\ tombstone' = tombstone \union {j} /\ UNCHANGED <<job, dir, reserved>>
        /\ "tombstone" \in Env /\ job[j].status # "none"
    BY <1>4 DEF RequestJobDeletionTorn, WriteTombstone, MayDelete
  <2>2. QED
    BY <1>0, <2>1 DEF FilesAgree
<1>5. QED
  BY <1>1, <1>2, <1>3, <1>4 DEF PersonStep

LEMMA FilesInvInductive ==
    ASSUME TypeOK, ClaimInv, FilesInv, "unlink" \notin Env, [Next]_vars
    PROVE  FilesInv'
<1> SUFFICES ASSUME NEW k \in Job PROVE FilesAgree(k)'
  BY DEF FilesInv
<1>1. CASE SweepReservations
  BY <1>1, SweepKeepsFiles DEF SweepReservations
<1>2. CASE \E j \in Job : RequestStep(j)
  BY <1>2, RequestKeepsFiles
<1>3. CASE ClaimFindsNothing \/ \E t \in Token : ClaimNextJob(t)
  BY <1>3, ClaimKeepsFiles
<1>4. CASE \E j \in Job, t \in Token : HolderStep(j, t)
  BY <1>4, HolderKeepsFiles
<1>5. CASE \E j \in Job : PersonStep(j)
  BY <1>5, PersonKeepsFiles
<1>6. CASE Tick
  <2>1. job'[k].status = job[k].status /\ job'[k].lease = job[k].lease
    BY <1>6 DEF Tick, TypeOK, JobRecord
  <2>2. QED
    BY <1>6, <2>1 DEF Tick, FilesInv, FilesAgree
<1>7. CASE UNCHANGED vars
  BY <1>7 DEF vars, fileVars, FilesInv, FilesAgree
<1>8. QED
  BY <1>1, <1>2, <1>3, <1>4, <1>5, <1>6, <1>7 DEF Next

LEMMA FilesInvAlways == "unlink" \notin Env /\ Spec => []FilesInv
<1> SUFFICES ASSUME "unlink" \notin Env
             PROVE  Spec => []FilesInv
  OBVIOUS
<1>1. Init => FilesInv
  BY DEF Init, FilesInv, FilesAgree, NoJob
<1>2. TypeOK /\ ClaimInv /\ FilesInv /\ [Next]_vars => FilesInv'
  BY FilesInvInductive
<1>3. QED
  BY <1>1, <1>2, TypeCorrect, ClaimInvAlways, PTL DEF Spec

(* The steps of requests, claims and holders leave a settled record alone: *)
(* the sweeps recover only what has no record, and a lease is held only on *)
(* a running one.  Nor do they cancel or delete anything.                  *)
LEMMA SweepSparesSettled ==
    ASSUME FilesInv, RecoverFailures, NEW k \in Job
    PROVE  /\ job[k].status \in Settled => job'[k] = job[k]
           /\ job'[k].status \in {job[k].status, "failed"}
<1>1. Recovered(k) => job[k].status = "none"
  BY DEF FilesInv, FilesAgree, Recovered, Expired, Orphaned
<1>2. job'[k] = IF Recovered(k) THEN FailedAdmissionRecord ELSE job[k]
  BY DEF RecoverFailures
<1>3. QED
  BY <1>1, <1>2 DEF Settled, FailedAdmissionRecord, NoJob

LEMMA RequestSparesSettled ==
    ASSUME TypeOK, FilesInv, NEW j \in Job, RequestStep(j), NEW k \in Job
    PROVE  /\ job[k].status \in Settled => job'[k] = job[k]
           /\ job'[k].status \in {job[k].status, "queued", "failed"}
<1>1. CASE ReserveAdmission(j) \/ RecheckAdmission(j) \/ RecheckRefused(j)
  BY <1>1, SweepSparesSettled
  DEF ReserveAdmission, RecheckAdmission, RecheckRefused
<1>2. CASE PublishReservedQueuedJob(j)
  <2>1. PICK at \in CreatedAt :
          job' = [job EXCEPT ![j] = [NoJob EXCEPT !.status = "queued",
                                                  !.createdAt = at]]
    BY <1>2 DEF PublishReservedQueuedJob
  <2>2. job[j].status = "none"
    BY <1>2 DEF PublishReservedQueuedJob
  <2>3. QED
    BY <2>1, <2>2 DEF TypeOK, NoJob, Settled
<1>3. CASE PublishFailedAdmissionJob(j)
  <2>1. job' = job \/ job' = [job EXCEPT ![j] = FailedAdmissionRecord]
    BY <1>3 DEF PublishFailedAdmissionJob
  <2>2. job[j].status = "none"
    BY <1>3 DEF PublishFailedAdmissionJob, FilesInv, FilesAgree
  <2>3. QED
    BY <2>1, <2>2 DEF TypeOK, FailedAdmissionRecord, NoJob, Settled
<1>4. CASE UNCHANGED job
  BY <1>4
<1>5. QED
  BY <1>1, <1>2, <1>3, <1>4 DEF RequestStep, OpenStaging, ReceiveBytes,
     PublishFindsRecord, PublishFindsReservationLost, AbortAdmissionStaging,
     RequestEnds, fileVars

LEMMA ClaimSparesSettled ==
    ASSUME TypeOK, ClaimFindsNothing \/ \E t \in Token : ClaimNextJob(t),
           NEW k \in Job
    PROVE  /\ job[k].status \in Settled => job'[k] = job[k]
           /\ job'[k].status \in {job[k].status, "running", "failed"}
<1>0. job[k] \in JobRecord /\ (IsActive(k) => job[k].status \notin Settled)
  BY DEF TypeOK, IsActive, Active, Settled
<1>1. CASE ClaimFindsNothing
  BY <1>0, <1>1
  DEF ClaimFindsNothing, Claimable, Exhausted, ActiveJobs, Failed, JobRecord
<1>2. ASSUME NEW t \in Token, ClaimNextJob(t)
      PROVE  /\ job[k].status \in Settled => job'[k] = job[k]
             /\ job'[k].status \in {job[k].status, "running", "failed"}
  <2>1. PICK j \in Claimable \ Exhausted, passed \in SUBSET Exhausted :
          job' = [i \in Job |-> IF i = j THEN Claimed(job[i], t)
                              ELSE IF i \in passed THEN Failed(job[i])
                              ELSE job[i]]
    BY <1>2 DEF ClaimNextJob
  <2>2. k = j \/ k \in passed => IsActive(k)
    BY <2>1 DEF Claimable, Exhausted, ActiveJobs
  <2>3. QED
    BY <1>0, <2>1, <2>2 DEF Claimed, Failed, JobRecord
<1>3. QED
  BY <1>1, <1>2

LEMMA HolderSparesSettled ==
    ASSUME TypeOK, ClaimInv, NEW j \in Job, NEW t \in Token, HolderStep(j, t),
           NEW k \in Job
    PROVE  /\ job[k].status \in Settled => job'[k] = job[k]
           /\ job'[k].status \in {job[k].status, "completed", "failed"}
<1>0. job[j] \in JobRecord /\ HoldsFor(j)
  BY ClaimInvPerJob DEF TypeOK
<1>1. CASE AttemptWrites(j, t) \/ PublishAttemptTorn(j, t)
  BY <1>1 DEF AttemptWrites, PublishAttemptTorn
<1>2. CASE \/ FencedUpdate(j, t) \/ FencedFail(j, t)
           \/ PublishAttemptAndComplete(j, t)
  <2>1. LeaseHeld(j, t)
    BY <1>2 DEF FencedUpdate, FencedFail, PublishAttemptAndComplete
  <2>2. job[j].status \notin Settled
    BY <1>0, <2>1, ConfigAssumption DEF LeaseHeld, HoldsFor, Settled
  <2>3. k # j => job'[k] = job[k]
    BY <1>2 DEF FencedUpdate, FencedFail, PublishAttemptAndComplete, TypeOK
  <2>4. job'[j].status \in {job[j].status, "completed", "failed"}
    <3> USE DEF TypeOK, JobRecord
    <3>1. CASE FencedUpdate(j, t)
      BY <1>0, <3>1 DEF FencedUpdate
    <3>2. CASE FencedFail(j, t)
      BY <1>0, <3>2 DEF FencedFail, Failed
    <3>3. CASE PublishAttemptAndComplete(j, t)
      BY <1>0, <3>3 DEF PublishAttemptAndComplete
    <3>4. QED
      BY <1>2, <3>1, <3>2, <3>3
  <2>5. QED
    BY <2>2, <2>3, <2>4
<1>3. QED
  BY <1>1, <1>2 DEF HolderStep

LEMMA QuietStep ==
    ASSUME TypeOK, ClaimInv, FilesInv, NEW k \in Job,
           \/ SweepReservations
           \/ ClaimFindsNothing \/ \E t \in Token : ClaimNextJob(t)
           \/ \E j \in Job : RequestStep(j)
           \/ \E j \in Job, t \in Token : HolderStep(j, t)
    PROVE  /\ job[k].status \in Settled => job'[k] = job[k]
           /\ job'[k].status \in {job[k].status, "queued", "running",
                                  "completed", "failed"}
BY SweepSparesSettled, RequestSparesSettled, ClaimSparesSettled,
   HolderSparesSettled DEF SweepReservations

(* What any step may make of a settled record.                             *)
LEMMA SettledStep ==
    ASSUME TypeOK, ClaimInv, FilesInv, [Next]_vars, NEW k \in Job,
           job[k].status \in Settled
    PROVE  job'[k].status \in {job[k].status, "deleting", "none"}
<1>0. job[k] \in JobRecord /\ ~IsActive(k)
  BY DEF TypeOK, Settled, IsActive, Active
<1>1. ASSUME NEW j \in Job, PersonStep(j)
      PROVE  job'[k].status \in {job[k].status, "deleting", "none"}
  <2>1. CASE CancelPrimaryJob(j)
    BY <1>0, <2>1 DEF CancelPrimaryJob, TypeOK
  <2>2. CASE RequestJobDeletion(j)
    BY <1>0, <2>2 DEF RequestJobDeletion, Deleting, TypeOK, JobRecord
  <2>3. CASE RequestJobDeletionTorn(j)
    BY <2>3 DEF RequestJobDeletionTorn
  <2>4. CASE PurgeOne(j) \/ PurgeTorn(j)
    BY <1>0, <2>4 DEF PurgeOne, PurgeTorn, NoJob, TypeOK
  <2>5. QED
    BY <1>1, <2>1, <2>2, <2>3, <2>4 DEF PersonStep
<1>2. CASE Tick
  BY <1>0, <1>2 DEF Tick, JobRecord
<1>3. CASE UNCHANGED vars
  BY <1>3 DEF vars, fileVars
<1>4. QED
  BY <1>1, <1>2, <1>3, QuietStep DEF Next

(* A settled job is final where a reservation is removed with the write of *)
(* job.json that ends it, whatever else is torn or repeated.  Where the    *)
(* removal may fail it is not: PublishedIsAuthoritative is violated.       *)
THEOREM SettledStaysSettled == "unlink" \notin Env /\ Spec => SettledIsFinal
<1> SUFFICES ASSUME "unlink" \notin Env
             PROVE  Spec => SettledIsFinal
  OBVIOUS
<1>1. ASSUME TypeOK, ClaimInv, FilesInv, [Next]_vars
      PROVE  [\A j \in Job :
                job[j].status \in Settled =>
                  job'[j].status \in {job[j].status, "deleting", "none"}]_vars
  BY <1>1, SettledStep
<1>2. QED
  BY <1>1, FilesInvAlways, TypeCorrect, ClaimInvAlways, PTL
  DEF Spec, SettledIsFinal

(* The instant a revocation left in the files: the cancellation's, until   *)
(* the deletion moves it to the tombstone.                                 *)
Awaited(k) ==
    IF job[k].status = "cancelled" THEN job[k].cancelLeft
    ELSE IF job[k].status = "deleting" THEN safeLeft[k] ELSE 0

RevokeInv == \A k \in Job : revokedLeft[k] <= Awaited(k)

LEMMA AwaitedType ==
    ASSUME TypeOK, NEW k \in Job
    PROVE  /\ Awaited(k) \in Nat /\ revokedLeft[k] \in Nat
           /\ job[k].leaseLeft \in Nat /\ job[k].cancelLeft \in Nat
           /\ safeLeft[k] \in Nat
BY ConfigAssumption DEF TypeOK, JobRecord, Awaited

(* Nothing is revoked by a step that leaves what is awaited as it was, nor *)
(* does one matter once nothing is awaited any more.                       *)
LEMMA RevokedKept ==
    ASSUME TypeOK, RevokeInv, NEW k \in Job,
           revokedLeft'[k] = revokedLeft[k],
           \/ /\ job'[k].status = job[k].status
              /\ job'[k].cancelLeft = job[k].cancelLeft
              /\ safeLeft'[k] = safeLeft[k]
           \/ /\ job[k].status \notin {"cancelled", "deleting"}
              /\ job'[k].status \notin {"cancelled", "deleting"}
    PROVE  revokedLeft'[k] <= Awaited(k)'
<1>1. revokedLeft[k] <= Awaited(k)
  BY DEF RevokeInv
<1>2. QED
  BY <1>1 DEF Awaited

(* A person's step either revokes a lease and leaves its expiry to wait    *)
(* for, hands an earlier one on, or removes the record after it.           *)
LEMMA PersonKeepsRevoked ==
    ASSUME TypeOK, ClaimInv, FilesInv, RevokeInv,
           Env \intersect {"unlink", "tombstone", "redelete"} = {},
           NEW j \in Job, PersonStep(j), NEW k \in Job
    PROVE  revokedLeft'[k] <= Awaited(k)'
<1> USE DEF historyVars
<1>0. /\ job[j] \in JobRecord /\ FilesAgree(j) /\ HoldsFor(j)
      /\ revokedLeft[j] <= Awaited(j)
  BY ClaimInvPerJob DEF TypeOK, FilesInv, RevokeInv
<1>1. CASE CancelPrimaryJob(j)
  <2>1. /\ job' = [job EXCEPT ![j] = Cancelled(job[j])]
        /\ revokedLeft' = [revokedLeft EXCEPT
             ![j] = IF job[j].lease # None THEN job[j].leaseLeft ELSE @]
        /\ safeLeft' = safeLeft /\ job[j].status \in Active
    BY <1>1 DEF CancelPrimaryJob, Revoke, IsActive
  <2>2. CASE k = j
    <3>1. /\ job'[k].status = "cancelled"
          /\ job'[k].cancelLeft = IF job[j].lease # None THEN job[j].leaseLeft
                                                         ELSE 0
      BY <1>0, <2>1, <2>2 DEF Cancelled, TypeOK, JobRecord
    <3>2. revokedLeft'[k] = IF job[j].lease # None THEN job[j].leaseLeft
                                                   ELSE revokedLeft[j]
      BY <2>1, <2>2 DEF TypeOK
    <3>3. Awaited(j) = 0
      BY <2>1 DEF Awaited, Active
    <3>4. QED
      BY <1>0, <3>1, <3>2, <3>3, AwaitedType DEF Awaited
  <2>3. CASE k # j
    BY <2>1, <2>3, RevokedKept DEF TypeOK
  <2>4. QED
    BY <2>2, <2>3
<1>2. CASE RequestJobDeletion(j)
  <2>1. /\ job' = [job EXCEPT ![j] = Deleting(job[j])]
        /\ revokedLeft' = [revokedLeft EXCEPT
             ![j] = IF job[j].lease # None THEN job[j].leaseLeft ELSE @]
        /\ safeLeft' = [safeLeft EXCEPT
             ![j] = IF job[j].lease # None THEN job[j].leaseLeft
                                           ELSE job[j].cancelLeft]
        /\ job[j].status # "deleting"
    BY <1>2 DEF RequestJobDeletion, WriteTombstone, Revoke, MayDelete
  <2>2. CASE k = j
    <3>1. /\ job'[k].status = "deleting"
          /\ safeLeft'[k] = IF job[j].lease # None THEN job[j].leaseLeft
                                                   ELSE job[j].cancelLeft
      BY <1>0, <2>1, <2>2 DEF Deleting, TypeOK, JobRecord
    <3>2. revokedLeft'[k] = IF job[j].lease # None THEN job[j].leaseLeft
                                                   ELSE revokedLeft[j]
      BY <2>1, <2>2 DEF TypeOK
    <3>3. Awaited(j) <= job[j].cancelLeft
      BY <2>1, AwaitedType DEF Awaited
    <3>4. QED
      BY <1>0, <3>1, <3>2, <3>3, AwaitedType DEF Awaited
  <2>3. CASE k # j
    BY <2>1, <2>3, RevokedKept DEF TypeOK
  <2>4. QED
    BY <2>2, <2>3
<1>3. CASE PurgeOne(j) \/ PurgeTorn(j)
  <2>1. /\ job' = [job EXCEPT ![j] = NoJob] /\ safeLeft[j] = 0
        /\ UNCHANGED <<safeLeft, revokedLeft>>
        /\ j \in tombstone
    BY <1>3 DEF PurgeOne, PurgeTorn, PurgeAllowed
  <2>2. CASE k = j
    <3>1. Awaited(j) = 0
      BY <1>0, <2>1 DEF FilesAgree, Awaited
    <3>2. job'[k].status = "none"
      BY <2>1, <2>2 DEF NoJob, TypeOK
    <3>3. QED
      BY <1>0, <2>1, <2>2, <3>1, <3>2 DEF Awaited
  <2>3. CASE k # j
    BY <2>1, <2>3, RevokedKept DEF TypeOK
  <2>4. QED
    BY <2>2, <2>3
<1>4. ~RequestJobDeletionTorn(j)
  BY DEF RequestJobDeletionTorn
<1>5. QED
  BY <1>1, <1>2, <1>3, <1>4 DEF PersonStep

LEMMA TickKeepsRevoked ==
    ASSUME TypeOK, RevokeInv, Tick, NEW k \in Job
    PROVE  revokedLeft'[k] <= Awaited(k)'
<1>1. /\ revokedLeft[k] <= Awaited(k) /\ job[k] \in JobRecord
      /\ revokedLeft \in [Job -> Nat] /\ safeLeft \in [Job -> Nat]
  BY ConfigAssumption DEF RevokeInv, TypeOK
<1>2. /\ revokedLeft'[k] = Down(revokedLeft[k])
      /\ safeLeft'[k] = Down(safeLeft[k])
  BY <1>1 DEF Tick, CountDown
<1>3. /\ job'[k].status = job[k].status
      /\ job'[k].cancelLeft = Down(job[k].cancelLeft)
  BY <1>1 DEF Tick, JobRecord
<1>4. \A m, n \in Nat : m <= n => Down(m) <= Down(n)
  BY DEF Down
<1>5. Awaited(k)' = Down(Awaited(k))
  BY <1>2, <1>3 DEF Awaited, Down
<1>6. QED
  BY <1>1, <1>2, <1>4, <1>5, AwaitedType

LEMMA RevokeInvInductive ==
    ASSUME TypeOK, ClaimInv, FilesInv, RevokeInv, [Next]_vars,
           Env \intersect {"unlink", "tombstone", "redelete"} = {}
    PROVE  RevokeInv'
<1> USE DEF fileVars, historyVars
<1> SUFFICES ASSUME NEW k \in Job PROVE revokedLeft'[k] <= Awaited(k)'
  BY DEF RevokeInv
<1>2. CASE \E j \in Job : PersonStep(j)
  BY <1>2, PersonKeepsRevoked
<1>3. CASE Tick
  BY <1>3, TickKeepsRevoked
<1>4. CASE \/ SweepReservations \/ ClaimFindsNothing
           \/ \E t \in Token : ClaimNextJob(t)
           \/ \E j \in Job : RequestStep(j)
           \/ \E j \in Job, t \in Token : HolderStep(j, t)
  <2>1. UNCHANGED <<safeLeft, revokedLeft>>
    BY <1>4 DEF SweepReservations, ClaimFindsNothing, ClaimNextJob,
       RequestStep, ReserveAdmission, OpenStaging, ReceiveBytes,
       RecheckAdmission, RecheckRefused, PublishReservedQueuedJob,
       PublishFindsRecord, PublishFindsReservationLost,
       PublishFailedAdmissionJob, AbortAdmissionStaging, RequestEnds,
       HolderStep, FencedUpdate, FencedFail, AttemptWrites,
       PublishAttemptAndComplete, PublishAttemptTorn
  <2>2. \/ job'[k] = job[k]
        \/ /\ job[k].status \notin {"cancelled", "deleting"}
           /\ job'[k].status \notin {"cancelled", "deleting"}
    <3>1. /\ job[k].status \in Settled => job'[k] = job[k]
          /\ job'[k].status \in {job[k].status, "queued", "running",
                                 "completed", "failed"}
      BY <1>4, QuietStep
    <3>2. QED
      BY <3>1 DEF Settled
  <2>3. QED
    BY <2>1, <2>2, RevokedKept
<1>5. CASE UNCHANGED vars
  BY <1>5, RevokedKept DEF vars
<1>6. QED
  BY <1>2, <1>3, <1>4, <1>5 DEF Next

(* Only a purge removes a record or a directory, and what it removes has   *)
(* no lease and nothing left to wait for.                                  *)
LEMMA PurgeWaits ==
    ASSUME TypeOK, ClaimInv, FilesInv, RevokeInv, [Next]_vars,
           "tombstone" \notin Env, NEW k \in Job
    PROVE  /\ job[k].status # "none" /\ job'[k].status = "none"
                => job[k].lease = None
           /\ dir[k] # "absent" /\ dir'[k] = "absent" => revokedLeft[k] = 0
<1> USE DEF fileVars, historyVars
<1>0. job[k] \in JobRecord /\ FilesAgree(k) /\ revokedLeft[k] <= Awaited(k)
  BY DEF TypeOK, FilesInv, RevokeInv
<1>1. ASSUME NEW j \in Job, PurgeOne(j) \/ PurgeTorn(j)
      PROVE  /\ job[k].status # "none" /\ job'[k].status = "none"
                  => job[k].lease = None
             /\ dir[k] # "absent" /\ dir'[k] = "absent" => revokedLeft[k] = 0
  <2>1. CASE k = j
    <3>1. /\ safeLeft[k] = 0 /\ job[k].lease = None
          /\ job[k].status \in {"none", "failed", "deleting"}
      BY <1>0, <1>1, <2>1 DEF PurgeOne, PurgeTorn, PurgeAllowed, FilesAgree
    <3>2. revokedLeft[k] = 0
      BY <1>0, <3>1, AwaitedType DEF Awaited
    <3>3. QED
      BY <3>1, <3>2
  <2>2. CASE k # j
    BY <1>1, <2>2 DEF PurgeOne, PurgeTorn, TypeOK
  <2>3. QED
    BY <2>1, <2>2
<1>2. SUFFICES ASSUME ~\E j \in Job : PurgeOne(j) \/ PurgeTorn(j)
               PROVE  /\ job'[k].status = "none" => job[k].status = "none"
                      /\ dir'[k] = "absent" => dir[k] = "absent"
  BY <1>1
<1>3. CASE \/ SweepReservations \/ ClaimFindsNothing
           \/ \E t \in Token : ClaimNextJob(t)
           \/ \E j \in Job : RequestStep(j)
           \/ \E j \in Job, t \in Token : HolderStep(j, t)
  <2>1. job'[k].status = "none" => job[k].status = "none"
    BY <1>3, QuietStep
  <2>2. dir'[k] = "absent" => dir[k] = "absent"
    <3>1. CASE \/ SweepReservations \/ ClaimFindsNothing
               \/ \E t \in Token : ClaimNextJob(t)
      BY <3>1 DEF SweepReservations, ClaimFindsNothing, ClaimNextJob
    <3>2. ASSUME NEW j \in Job, RequestStep(j)
          PROVE  dir'[k] = "absent" => dir[k] = "absent"
      BY <3>2 DEF RequestStep, ReserveAdmission, OpenStaging, ReceiveBytes,
         RecheckAdmission, RecheckRefused, PublishReservedQueuedJob,
         PublishFindsRecord, PublishFindsReservationLost,
         PublishFailedAdmissionJob, AbortAdmissionStaging, RequestEnds, TypeOK
    <3>3. ASSUME NEW j \in Job, NEW t \in Token, HolderStep(j, t)
          PROVE  dir'[k] = "absent" => dir[k] = "absent"
      BY <3>3 DEF HolderStep, FencedUpdate, FencedFail, AttemptWrites,
         PublishAttemptAndComplete, PublishAttemptTorn, TypeOK
    <3>4. QED
      BY <1>3, <3>1, <3>2, <3>3
  <2>3. QED
    BY <2>1, <2>2
<1>4. ASSUME NEW j \in Job, PersonStep(j)
      PROVE  /\ job'[k].status = "none" => job[k].status = "none"
             /\ dir'[k] = "absent" => dir[k] = "absent"
  <2>1. dir' = dir
    BY <1>2, <1>4 DEF PersonStep, CancelPrimaryJob, RequestJobDeletion,
       RequestJobDeletionTorn
  <2>2. CASE CancelPrimaryJob(j)
    BY <1>0, <2>1, <2>2 DEF CancelPrimaryJob, Cancelled, TypeOK, JobRecord
  <2>3. CASE RequestJobDeletion(j)
    BY <1>0, <2>1, <2>3 DEF RequestJobDeletion, Deleting, TypeOK, JobRecord
  <2>4. CASE RequestJobDeletionTorn(j)
    BY <2>1, <2>4 DEF RequestJobDeletionTorn
  <2>5. QED
    BY <1>2, <1>4, <2>2, <2>3, <2>4 DEF PersonStep
<1>5. CASE Tick
  BY <1>0, <1>5 DEF Tick, JobRecord
<1>6. CASE UNCHANGED vars
  BY <1>6 DEF vars
<1>7. QED
  BY <1>3, <1>4, <1>5, <1>6 DEF Next

(* A purge never takes the record of a job whose lease is held, and waits  *)
(* until the lease that a person took away would have expired, where no    *)
(* deletion is torn or repeated and reservations are removed in time.  The *)
(* time passes from the lease to the cancellation, from there to the       *)
(* tombstone, and no later deletion of a failed job shortens it.           *)
THEOREM PurgeAwaitsLease ==
    Env \intersect {"unlink", "tombstone", "redelete"} = {} /\ Spec
      => PurgeWaitsForLease
<1> SUFFICES ASSUME Env \intersect {"unlink", "tombstone", "redelete"} = {}
             PROVE  Spec => PurgeWaitsForLease
  OBVIOUS
<1>1. Init => RevokeInv
  BY DEF Init, RevokeInv, Awaited, NoJob
<1>2. TypeOK /\ ClaimInv /\ FilesInv /\ RevokeInv /\ [Next]_vars => RevokeInv'
  BY RevokeInvInductive
<1>3. ASSUME TypeOK, ClaimInv, FilesInv, RevokeInv, [Next]_vars
      PROVE  [\A j \in Job :
                /\ job[j].status # "none" /\ job'[j].status = "none"
                     => job[j].lease = None
                /\ dir[j] # "absent" /\ dir'[j] = "absent"
                     => revokedLeft[j] = 0]_vars
  BY <1>3, PurgeWaits
<1>4. Spec => []FilesInv
  <2>1. "unlink" \notin Env
    OBVIOUS
  <2>2. QED
    BY <2>1, FilesInvAlways, PTL
<1>5. QED
  BY <1>1, <1>2, <1>3, <1>4, TypeCorrect, ClaimInvAlways, PTL
  DEF Spec, PurgeWaitsForLease

(* The first half asks for less.  A job with a tombstone is no longer      *)
(* active, also where a sweep made a failed record of a reservation left   *)
(* beside it, and what is gone has no reservation to be published from.    *)
Doomed(k) ==
    /\ k \in tombstone => /\ ~IsActive(k)
                          /\ job[k].status = "none" => k \notin reserved
    /\ request[k] = "new" => /\ k \notin reserved /\ k \notin tombstone
                             /\ job[k].status = "none" /\ dir[k] = "absent"

DoomedInv == \A k \in Job : Doomed(k)

(* A step that adds neither a reservation nor a tombstone, and keeps the   *)
(* record or makes an inactive one of it.                                  *)
LEMMA DoomedKept ==
    ASSUME NEW k \in Job, Doomed(k),
           k \in reserved' => k \in reserved, k \in tombstone' => k \in tombstone,
           request'[k] = "new" => /\ request[k] = "new" /\ job'[k] = job[k]
                                  /\ dir'[k] = dir[k],
           \/ job'[k].status = job[k].status
           \/ job'[k].status \notin {"none", "queued", "running"}
    PROVE  Doomed(k)'
BY DEF Doomed, IsActive, Active

LEMMA SweepKeepsDoomed ==
    ASSUME TypeOK, DoomedInv, RecoverFailures, reserved' \subseteq reserved, NEW k \in Job,
           UNCHANGED <<dir, tombstone>>, request'[k] = "new" => request[k] = "new"
    PROVE  Doomed(k)'
<1>1. Doomed(k) BY DEF DoomedInv
<1>2. job'[k] = job[k] \/ job'[k].status = "failed"
  BY DEF RecoverFailures, FailedAdmissionRecord, NoJob
<1>3. request[k] = "new" => job'[k] = job[k]
  BY <1>1 DEF Doomed, RecoverFailures, Recovered, Expired, StagedBytesExist
<1>4. QED
  BY <1>1, <1>2, <1>3, DoomedKept

LEMMA RequestKeepsDoomed ==
    ASSUME TypeOK, DoomedInv, NEW j \in Job, RequestStep(j), NEW k \in Job
    PROVE  Doomed(k)'
<1> USE DEF fileVars, historyVars
<1>0. /\ Doomed(k) /\ LiveReservations \subseteq reserved /\ request[k] \in RequestPhase
      /\ UNCHANGED tombstone /\ (request'[k] = "new" => request[k] = "new" /\ k # j)
      /\ k # j => dir'[k] = dir[k]
  BY DEF DoomedInv, LiveReservations, TypeOK, RequestStep, ReserveAdmission, OpenStaging,
     ReceiveBytes, RecheckAdmission, RecheckRefused, PublishReservedQueuedJob,
     PublishFindsRecord, PublishFindsReservationLost, PublishFailedAdmissionJob,
     AbortAdmissionStaging, RequestEnds
<1>1. CASE ReserveAdmission(j)
  <2>1. /\ RecoverFailures /\ reserved' = LiveReservations \union {j}
        /\ request[j] = "new"
    BY <1>1 DEF ReserveAdmission
  <2>2. k = j => k \notin tombstone
    BY <1>0, <2>1 DEF Doomed
  <2>3. job'[k] = job[k] \/ job'[k].status = "failed"
    BY <2>1 DEF RecoverFailures, FailedAdmissionRecord, NoJob
  <2>4. request[k] = "new" => job'[k] = job[k] /\ dir' = dir
    BY <1>0, <1>1 DEF Doomed, ReserveAdmission, RecoverFailures, Recovered, Expired,
       StagedBytesExist
  <2>5. QED
    BY <1>0, <2>1, <2>2, <2>3, <2>4 DEF Doomed, IsActive, Active
<1>2. CASE RecheckAdmission(j) \/ RecheckRefused(j)
  BY <1>0, <1>2, SweepKeepsDoomed DEF RecheckAdmission, RecheckRefused
<1>3. CASE PublishReservedQueuedJob(j)
  <2>1. /\ job[j].status = "none" /\ j \in reserved
        /\ reserved' \subseteq reserved
        /\ \E r : job' = [job EXCEPT ![j] = r]
    BY <1>3 DEF PublishReservedQueuedJob, DropReservation
  <2>2. k # j => job'[k] = job[k]
    BY <2>1 DEF TypeOK
  <2>3. k = j => k \notin tombstone
    BY <1>0, <2>1 DEF Doomed
  <2>4. QED
    BY <1>0, <2>1, <2>2, <2>3 DEF Doomed, IsActive
<1>4. CASE PublishFailedAdmissionJob(j)
  <2>1. /\ reserved' \subseteq reserved
        /\ job' = job \/ job' = [job EXCEPT ![j] = FailedAdmissionRecord]
    BY <1>4 DEF PublishFailedAdmissionJob, DropReservation
  <2>2. job'[k] = job[k] \/ (k = j /\ job'[k].status = "failed")
    BY <2>1 DEF TypeOK, FailedAdmissionRecord, NoJob
  <2>3. QED
    BY <1>0, <2>1, <2>2, DoomedKept
<1>5. CASE UNCHANGED job /\ reserved' \subseteq reserved
  BY <1>0, <1>5, DoomedKept
<1>6. QED
  BY <1>1, <1>2, <1>3, <1>4, <1>5
  DEF RequestStep, OpenStaging, ReceiveBytes, PublishFindsRecord,
      PublishFindsReservationLost, AbortAdmissionStaging, RequestEnds

(* Only an active record is claimed, or written by a holder.               *)
LEMMA HolderIsActive ==
    ASSUME ClaimInv, NEW k \in Job, NEW t \in Token, LeaseHeld(k, t)
    PROVE  IsActive(k)
<1>1. HoldsFor(k) /\ job[k].lease # None
  BY ClaimInvPerJob, ConfigAssumption DEF LeaseHeld
<1>2. QED
  BY <1>1 DEF HoldsFor, IsActive, Active

LEMMA WorkKeepsDoomed ==
    ASSUME TypeOK, ClaimInv, DoomedInv, NEW k \in Job,
           \/ ClaimFindsNothing \/ \E t \in Token : ClaimNextJob(t)
           \/ \E j \in Job, t \in Token : HolderStep(j, t)
    PROVE  Doomed(k)'
<1> USE DEF fileVars, historyVars
<1>0. /\ Doomed(k) /\ UNCHANGED <<reserved, tombstone, request>>
  BY DEF DoomedInv, ClaimFindsNothing, ClaimNextJob, HolderStep, FencedUpdate, FencedFail,
     AttemptWrites, PublishAttemptAndComplete, PublishAttemptTorn
<1>1. job'[k] = job[k] \/ IsActive(k)
  <2>1. ASSUME NEW t \in Token, ClaimNextJob(t) PROVE job'[k] = job[k] \/ IsActive(k)
    BY <2>1 DEF ClaimNextJob, Exhausted, Claimable, ActiveJobs
  <2>2. CASE ClaimFindsNothing
    BY <2>2 DEF ClaimFindsNothing, Exhausted, Claimable, ActiveJobs
  <2>3. ASSUME NEW j \in Job, NEW t \in Token, HolderStep(j, t), job'[k] # job[k]
        PROVE  IsActive(k)
    <3>1. k = j /\ LeaseHeld(k, t)
      BY <2>3 DEF TypeOK, HolderStep, FencedUpdate, FencedFail, AttemptWrites,
         PublishAttemptAndComplete, PublishAttemptTorn
    <3>2. QED
      BY <3>1, HolderIsActive
  <2>4. QED
    BY <2>1, <2>2, <2>3
<1>2. dir'[k] = dir[k] \/ dir[k] # "absent" \/ IsActive(k)
  <2>1. CASE \E t \in Token : ClaimNextJob(t)
    BY <2>1 DEF ClaimNextJob
  <2>2. ASSUME NEW j \in Job, NEW t \in Token, HolderStep(j, t), dir'[k] # dir[k],
               dir[k] = "absent"
        PROVE  IsActive(k)
    <3>1. k = j /\ LeaseHeld(k, t)
      BY <2>2 DEF TypeOK, HolderStep, FencedUpdate, FencedFail, AttemptWrites,
         PublishAttemptAndComplete, PublishAttemptTorn
    <3>2. QED
      BY <3>1, HolderIsActive
  <2>3. CASE ClaimFindsNothing
    BY <2>3 DEF ClaimFindsNothing
  <2>4. QED
    BY <2>1, <2>2, <2>3
<1>3. IsActive(k) => k \notin tombstone /\ request[k] # "new"
  BY <1>0 DEF Doomed, IsActive, Active
<1>4. CASE IsActive(k)
  BY <1>0, <1>3, <1>4 DEF Doomed
<1>5. CASE ~IsActive(k)
  <2>1. job'[k] = job[k] /\ (dir'[k] = dir[k] \/ dir[k] # "absent")
    BY <1>1, <1>2, <1>5
  <2>2. request[k] = "new" => dir'[k] = dir[k]
    BY <1>0, <2>1 DEF Doomed
  <2>3. QED
    BY <1>0, <2>1, <2>2, DoomedKept
<1>6. QED
  BY <1>4, <1>5

LEMMA PersonKeepsDoomed ==
    ASSUME TypeOK, DoomedInv, "tombstone" \notin Env, NEW j \in Job, PersonStep(j),
           NEW k \in Job
    PROVE  Doomed(k)'
<1> USE DEF historyVars
<1>0. Doomed(k) /\ Doomed(j) /\ job[j] \in JobRecord /\ UNCHANGED request
  BY DEF DoomedInv, TypeOK, PersonStep, CancelPrimaryJob, RequestJobDeletion,
     RequestJobDeletionTorn, PurgeOne, PurgeTorn
<1>1. CASE CancelPrimaryJob(j)
  <2>1. /\ IsActive(j) /\ reserved' \subseteq reserved /\ UNCHANGED tombstone
        /\ job' = [job EXCEPT ![j] = Cancelled(job[j])] /\ UNCHANGED dir
    BY <1>1 DEF CancelPrimaryJob, DropReservation
  <2>2. request[j] # "new"
    BY <1>0, <2>1 DEF Doomed, IsActive, Active
  <2>3. job'[k] = job[k] \/ (k = j /\ job'[k].status = "cancelled")
    BY <1>0, <2>1 DEF TypeOK, Cancelled, JobRecord
  <2>4. QED
    BY <1>0, <2>1, <2>2, <2>3, DoomedKept
<1>2. CASE RequestJobDeletion(j)
  <2>1. /\ job[j].status # "none" /\ tombstone' = tombstone \union {j}
        /\ job' = [job EXCEPT ![j] = Deleting(job[j])] /\ UNCHANGED <<dir, reserved>>
    BY <1>2 DEF RequestJobDeletion, WriteTombstone, MayDelete
  <2>2. k = j => job'[k].status = "deleting" /\ request[k] # "new"
    BY <1>0, <2>1 DEF TypeOK, Deleting, JobRecord, Doomed
  <2>3. k # j => job'[k] = job[k]
    BY <2>1 DEF TypeOK
  <2>4. QED
    BY <1>0, <2>1, <2>2, <2>3 DEF Doomed, IsActive, Active
<1>3. CASE PurgeOne(j) \/ PurgeTorn(j)
  <2>1. /\ job' = [job EXCEPT ![j] = NoJob] /\ reserved' = reserved \ {j}
        /\ tombstone' \subseteq tombstone /\ j \in tombstone
        /\ k # j => dir'[k] = dir[k]
    BY <1>3 DEF PurgeOne, PurgeTorn, PurgeAllowed, TypeOK
  <2>2. k # j => job'[k] = job[k]
    BY <2>1 DEF TypeOK
  <2>3. k = j => job'[k].status = "none" /\ k \notin reserved' /\ request[k] # "new"
    BY <1>0, <2>1 DEF TypeOK, NoJob, Doomed
  <2>4. QED
    BY <1>0, <2>1, <2>2, <2>3 DEF Doomed, IsActive, Active
<1>4. QED
  BY <1>1, <1>2, <1>3 DEF PersonStep, RequestJobDeletionTorn

LEMMA DoomedInductive ==
    ASSUME TypeOK, ClaimInv, DoomedInv, "tombstone" \notin Env, [Next]_vars
    PROVE  DoomedInv'
<1> USE DEF fileVars, historyVars
<1> SUFFICES ASSUME NEW k \in Job PROVE Doomed(k)'
  BY DEF DoomedInv
<1>0. Doomed(k) BY DEF DoomedInv
<1>1. CASE SweepReservations
  BY <1>1, SweepKeepsDoomed DEF SweepReservations, LiveReservations
<1>2. CASE Tick
  <2>1. job'[k].status = job[k].status /\ UNCHANGED <<dir, reserved, tombstone, request>>
    BY <1>2 DEF Tick, TypeOK, JobRecord
  <2>2. QED
    BY <1>0, <2>1 DEF Doomed, IsActive
<1>3. CASE UNCHANGED vars
  BY <1>0, <1>3, DoomedKept DEF vars
<1>4. QED
  BY <1>1, <1>2, <1>3, RequestKeepsDoomed, WorkKeepsDoomed, PersonKeepsDoomed DEF Next

(* Only a purge removes a record.                                          *)
LEMMA RecordVanishes ==
    ASSUME TypeOK, [Next]_vars, NEW k \in Job,
           job[k].status # "none", job'[k].status = "none"
    PROVE  k \in tombstone
<1> USE DEF fileVars, historyVars
<1>0. job[k] \in JobRecord BY DEF TypeOK
<1>1. ~SweepReservations /\ ~ClaimFindsNothing /\ ~Tick /\ ~UNCHANGED vars
  <2>1. ~SweepReservations
    BY DEF SweepReservations, RecoverFailures, FailedAdmissionRecord, NoJob
  <2>2. ~ClaimFindsNothing
    <3>1. ClaimFindsNothing => job'[k] \in {job[k], Failed(job[k])}
      BY DEF ClaimFindsNothing
    <3>2. QED
      BY <1>0, <3>1 DEF Failed, JobRecord
  <2>3. ~Tick
    BY <1>0 DEF Tick, JobRecord
  <2>4. ~UNCHANGED vars
    BY DEF vars
  <2>5. QED
    BY <2>1, <2>2, <2>3, <2>4
<1>2. ASSUME NEW t \in Token, ClaimNextJob(t) PROVE FALSE
  <2>1. job'[k] \in {job[k], Claimed(job[k], t), Failed(job[k])}
    BY <1>2 DEF ClaimNextJob
  <2>2. QED
    BY <1>0, <2>1 DEF Claimed, Failed, JobRecord
<1>3. ASSUME NEW j \in Job, RequestStep(j) PROVE FALSE
  <2>1. CASE ReserveAdmission(j) \/ RecheckAdmission(j) \/ RecheckRefused(j)
    BY <1>0, <2>1 DEF ReserveAdmission, RecheckAdmission, RecheckRefused, RecoverFailures,
       FailedAdmissionRecord, NoJob
  <2>2. CASE PublishReservedQueuedJob(j)
    <3>1. job[j].status = "none" /\ \E r : job' = [job EXCEPT ![j] = r]
      BY <2>2 DEF PublishReservedQueuedJob
    <3>2. QED BY <3>1 DEF TypeOK
  <2>3. CASE PublishFailedAdmissionJob(j)
    BY <2>3 DEF PublishFailedAdmissionJob, FailedAdmissionRecord, NoJob, TypeOK
  <2>4. QED
    BY <1>3, <2>1, <2>2, <2>3 DEF RequestStep, OpenStaging, ReceiveBytes,
       PublishFindsRecord, PublishFindsReservationLost, AbortAdmissionStaging, RequestEnds
<1>4. ASSUME NEW j \in Job, NEW t \in Token, HolderStep(j, t) PROVE FALSE
  <2>1. CASE FencedUpdate(j, t)
    BY <1>0, <2>1 DEF FencedUpdate, TypeOK, JobRecord
  <2>2. CASE FencedFail(j, t)
    BY <1>0, <2>2 DEF FencedFail, Failed, TypeOK, JobRecord
  <2>3. CASE PublishAttemptAndComplete(j, t)
    BY <1>0, <2>3 DEF PublishAttemptAndComplete, TypeOK, JobRecord
  <2>4. QED
    BY <1>4, <2>1, <2>2, <2>3 DEF HolderStep, AttemptWrites, PublishAttemptTorn
<1>5. ASSUME NEW j \in Job, PersonStep(j) PROVE k \in tombstone
  <2>1. CASE CancelPrimaryJob(j)
    BY <1>0, <2>1 DEF CancelPrimaryJob, Cancelled, TypeOK, JobRecord
  <2>2. CASE RequestJobDeletion(j)
    BY <1>0, <2>2 DEF RequestJobDeletion, Deleting, TypeOK, JobRecord
  <2>3. CASE PurgeOne(j) \/ PurgeTorn(j)
    BY <2>3 DEF PurgeOne, PurgeTorn, PurgeAllowed, TypeOK
  <2>4. QED
    BY <1>5, <2>1, <2>2, <2>3 DEF PersonStep, RequestJobDeletionTorn
<1>6. QED
  BY <1>1, <1>2, <1>3, <1>4, <1>5 DEF Next

(* A purge never takes the record of a job whose lease is held, whatever   *)
(* else goes wrong, as long as no deletion stops between its tombstone and *)
(* its record (purgeOne, requestJobDeletion, reservationState).            *)
THEOREM PurgeSparesHolders ==
    "tombstone" \notin Env /\ Spec
      => [][\A j \in Job :
              job[j].status # "none" /\ job'[j].status = "none" => job[j].lease = None]_vars
<1> SUFFICES ASSUME "tombstone" \notin Env
             PROVE  Spec => [][\A j \in Job :
                       job[j].status # "none" /\ job'[j].status = "none"
                          => job[j].lease = None]_vars
  OBVIOUS
<1>1. Init => DoomedInv
  BY DEF Init, DoomedInv, Doomed, NoJob, IsActive, Active
<1>2. TypeOK /\ ClaimInv /\ DoomedInv /\ [Next]_vars => DoomedInv'
  BY DoomedInductive
<1>3. ASSUME TypeOK, ClaimInv, DoomedInv, [Next]_vars
      PROVE  [\A j \in Job : job[j].status # "none" /\ job'[j].status = "none"
                                => job[j].lease = None]_vars
  <2>1. SUFFICES ASSUME NEW k \in Job, job[k].status # "none", job'[k].status = "none",
                        job[k].lease # None
                 PROVE  FALSE
    OBVIOUS
  <2>2. IsActive(k) /\ k \notin tombstone
    BY <1>3, <2>1, ClaimInvPerJob DEF HoldsFor, IsActive, Active, DoomedInv, Doomed
  <2>3. QED
    BY <1>3, <2>1, <2>2, RecordVanishes
<1>4. QED
  BY <1>1, <1>2, <1>3, TypeCorrect, ClaimInvAlways, PTL DEF Spec

-----------------------------------------------------------------------------
(* What an operation that neither publishes nor purges leaves of the job   *)
(* of a claim.                                                             *)

Ordinary ==
    \/ SweepReservations
    \/ \E j \in Job : RequestStep(j)
    \/ \E t \in Token : ClaimNextJob(t)
    \/ ClaimFindsNothing
    \/ \E j \in Job, t \in Token :
         FencedUpdate(j, t) \/ FencedFail(j, t) \/ AttemptWrites(j, t)
    \/ \E j \in Job : CancelPrimaryJob(j) \/ RequestJobDeletion(j)
    \/ Tick

(* A lease that was not there is that of a new claim, ...                  *)
LEMMA OrdinaryLeases ==
    ASSUME TypeOK, Ordinary, NEW k \in Job, NEW u \in Token, job'[k].lease = u
    PROVE  job[k].lease = u \/ issued[u] = None
<1> USE DEF fileVars, historyVars
<1>0. job[k] \in JobRecord /\ None \notin Token
  BY ConfigAssumption DEF TypeOK
<1> SUFFICES job'[k].lease \in {job[k].lease, None} \/ issued[u] = None
  BY <1>0
<1>1. ASSUME RecoverFailures PROVE job'[k].lease \in {job[k].lease, None}
  BY <1>1 DEF RecoverFailures, FailedAdmissionRecord, NoJob
<1>2. ASSUME NEW j \in Job, RequestStep(j)
      PROVE  job'[k].lease \in {job[k].lease, None}
  <2>1. CASE ReserveAdmission(j) \/ RecheckAdmission(j) \/ RecheckRefused(j)
    BY <1>1, <2>1 DEF ReserveAdmission, RecheckAdmission, RecheckRefused
  <2>2. CASE PublishReservedQueuedJob(j)
    <3>1. PICK at \in CreatedAt :
            job' = [job EXCEPT ![j] = [NoJob EXCEPT !.status = "queued",
                                                    !.createdAt = at]]
      BY <2>2 DEF PublishReservedQueuedJob
    <3>2. QED
      BY <3>1 DEF TypeOK, NoJob
  <2>3. CASE PublishFailedAdmissionJob(j)
    <3>1. job' = job \/ job' = [job EXCEPT ![j] = FailedAdmissionRecord]
      BY <2>3 DEF PublishFailedAdmissionJob
    <3>2. QED
      BY <3>1 DEF TypeOK, FailedAdmissionRecord, NoJob
  <2>4. CASE UNCHANGED job
    BY <2>4
  <2>5. QED
    BY <1>2, <2>1, <2>2, <2>3, <2>4 DEF RequestStep, OpenStaging,
       ReceiveBytes, PublishFindsRecord, PublishFindsReservationLost,
       AbortAdmissionStaging, RequestEnds
<1>3. ASSUME NEW t \in Token, ClaimNextJob(t)
      PROVE  job'[k].lease \in {job[k].lease, None} \/ issued[u] = None
  <2>1. PICK j \in Claimable \ Exhausted, passed \in SUBSET Exhausted :
          job' = [i \in Job |-> IF i = j THEN Claimed(job[i], t)
                              ELSE IF i \in passed THEN Failed(job[i])
                              ELSE job[i]]
    BY <1>3 DEF ClaimNextJob
  <2>2. CASE k = j
    <3>1. job'[k].lease = t
      BY <1>0, <2>1, <2>2 DEF Claimed, JobRecord
    <3>2. QED
      BY <1>3, <3>1 DEF ClaimNextJob
  <2>3. CASE k # j
    BY <1>0, <2>1, <2>3 DEF Failed, JobRecord
  <2>4. QED
    BY <2>2, <2>3
<1>4. CASE ClaimFindsNothing
  BY <1>0, <1>4 DEF ClaimFindsNothing, Failed, JobRecord
<1>5. ASSUME NEW j \in Job, NEW t \in Token,
             FencedUpdate(j, t) \/ FencedFail(j, t) \/ AttemptWrites(j, t)
      PROVE  job'[k].lease \in {job[k].lease, None}
  <2>1. CASE FencedUpdate(j, t)
    BY <1>0, <2>1 DEF FencedUpdate, TypeOK, JobRecord
  <2>2. CASE FencedFail(j, t)
    BY <1>0, <2>2 DEF FencedFail, Failed, TypeOK, JobRecord
  <2>3. QED
    BY <1>5, <2>1, <2>2 DEF AttemptWrites
<1>6. ASSUME NEW j \in Job, CancelPrimaryJob(j) \/ RequestJobDeletion(j)
      PROVE  job'[k].lease \in {job[k].lease, None}
  <2>1. CASE CancelPrimaryJob(j)
    BY <1>0, <2>1 DEF CancelPrimaryJob, Cancelled, TypeOK, JobRecord
  <2>2. CASE RequestJobDeletion(j)
    BY <1>0, <2>2 DEF RequestJobDeletion, Deleting, TypeOK, JobRecord
  <2>3. QED
    BY <1>6, <2>1, <2>2
<1>7. CASE Tick
  BY <1>0, <1>7 DEF Tick, JobRecord
<1>8. QED
  BY <1>1, <1>2, <1>3, <1>4, <1>5, <1>6, <1>7
  DEF Ordinary, SweepReservations

(* ... a completed record was completed before, by the same claim, ...     *)
LEMMA OrdinaryCompletes ==
    ASSUME TypeOK, Ordinary, NEW k \in Job, job'[k].status = "completed"
    PROVE  job[k].status = "completed" /\ lastClaim'[k] = lastClaim[k]
<1> USE DEF fileVars, historyVars
<1>0. job[k] \in JobRecord
  BY DEF TypeOK
<1>1. ASSUME RecoverFailures PROVE job[k].status = "completed"
  BY <1>1 DEF RecoverFailures, FailedAdmissionRecord, NoJob
<1>2. ASSUME NEW j \in Job, RequestStep(j)
      PROVE  job[k].status = "completed" /\ lastClaim' = lastClaim
  <2>1. CASE ReserveAdmission(j) \/ RecheckAdmission(j) \/ RecheckRefused(j)
    BY <1>1, <2>1 DEF ReserveAdmission, RecheckAdmission, RecheckRefused
  <2>2. CASE PublishReservedQueuedJob(j)
    <3>1. PICK at \in CreatedAt :
            job' = [job EXCEPT ![j] = [NoJob EXCEPT !.status = "queued",
                                                    !.createdAt = at]]
      BY <2>2 DEF PublishReservedQueuedJob
    <3>2. QED
      BY <2>2, <3>1 DEF PublishReservedQueuedJob, TypeOK, NoJob
  <2>3. CASE PublishFailedAdmissionJob(j)
    <3>1. job' = job \/ job' = [job EXCEPT ![j] = FailedAdmissionRecord]
      BY <2>3 DEF PublishFailedAdmissionJob
    <3>2. QED
      BY <2>3, <3>1
      DEF PublishFailedAdmissionJob, TypeOK, FailedAdmissionRecord, NoJob
  <2>4. CASE UNCHANGED <<job, lastClaim>>
    BY <2>4
  <2>5. QED
    BY <1>2, <2>1, <2>2, <2>3, <2>4 DEF RequestStep, OpenStaging,
       ReceiveBytes, PublishFindsRecord, PublishFindsReservationLost,
       AbortAdmissionStaging, RequestEnds
<1>3. ASSUME NEW t \in Token, ClaimNextJob(t)
      PROVE  job[k].status = "completed" /\ lastClaim'[k] = lastClaim[k]
  <2>1. PICK j \in Claimable \ Exhausted, passed \in SUBSET Exhausted :
          /\ job' = [i \in Job |-> IF i = j THEN Claimed(job[i], t)
                                  ELSE IF i \in passed THEN Failed(job[i])
                                  ELSE job[i]]
          /\ lastClaim' = [lastClaim EXCEPT ![j] = t]
    BY <1>3 DEF ClaimNextJob
  <2>2. k # j /\ job[k].status = "completed"
    BY <1>0, <2>1 DEF Claimed, Failed, JobRecord
  <2>3. QED
    BY <2>1, <2>2 DEF TypeOK
<1>4. CASE ClaimFindsNothing
  BY <1>0, <1>4 DEF ClaimFindsNothing, Failed, JobRecord
<1>5. ASSUME NEW j \in Job, NEW t \in Token,
             FencedUpdate(j, t) \/ FencedFail(j, t) \/ AttemptWrites(j, t)
      PROVE  job[k].status = "completed" /\ lastClaim' = lastClaim
  <2>1. CASE FencedUpdate(j, t)
    BY <1>0, <2>1 DEF FencedUpdate, TypeOK, JobRecord
  <2>2. CASE FencedFail(j, t)
    BY <1>0, <2>2 DEF FencedFail, Failed, TypeOK, JobRecord
  <2>3. QED
    BY <1>5, <2>1, <2>2 DEF AttemptWrites
<1>6. ASSUME NEW j \in Job, CancelPrimaryJob(j) \/ RequestJobDeletion(j)
      PROVE  job[k].status = "completed" /\ lastClaim' = lastClaim
  <2>1. CASE CancelPrimaryJob(j)
    BY <1>0, <2>1 DEF CancelPrimaryJob, Cancelled, TypeOK, JobRecord
  <2>2. CASE RequestJobDeletion(j)
    BY <1>0, <2>2 DEF RequestJobDeletion, Deleting, TypeOK, JobRecord
  <2>3. QED
    BY <1>6, <2>1, <2>2
<1>7. CASE Tick
  BY <1>0, <1>7 DEF Tick, JobRecord
<1>8. QED
  BY <1>1, <1>2, <1>3, <1>4, <1>5, <1>6, <1>7
  DEF Ordinary, SweepReservations

(* ... no token is issued a second time, and the bytes of a job that was   *)
(* ever claimed stay: its request opened the directory before.             *)
LEMMA OrdinaryKeepsBytes ==
    ASSUME TypeOK, StartInv, Ordinary, NEW u \in Token, issued[u] \in Job
    PROVE  /\ issued'[u] = issued[u]
           /\ dir[issued[u]] = "bytes" => dir'[issued[u]] = "bytes"
<1> USE DEF fileVars, historyVars
<1>1. request[issued[u]] = "ended" /\ issued[u] # None
  BY ConfigAssumption DEF StartInv, StartsCounted, Starts
<1>2. ASSUME NEW j \in Job, RequestStep(j)
      PROVE  /\ issued' = issued
             /\ dir[issued[u]] = "bytes" => dir'[issued[u]] = "bytes"
  <2>1. CASE OpenStaging(j)
    <3>1. issued[u] # j
      BY <1>1, <2>1 DEF OpenStaging
    <3>2. QED
      BY <2>1, <3>1 DEF OpenStaging, TypeOK
  <2>2. CASE ReceiveBytes(j) \/ PublishReservedQueuedJob(j)
    BY <2>2 DEF ReceiveBytes, PublishReservedQueuedJob, TypeOK
  <2>3. CASE UNCHANGED <<issued, dir>>
    BY <2>3
  <2>4. QED
    BY <1>2, <2>1, <2>2, <2>3 DEF RequestStep, ReserveAdmission,
       RecheckAdmission, RecheckRefused, PublishFindsRecord,
       PublishFindsReservationLost, PublishFailedAdmissionJob,
       AbortAdmissionStaging, RequestEnds
<1>3. ASSUME NEW t \in Token, ClaimNextJob(t)
      PROVE  issued'[u] = issued[u] /\ dir' = dir
  <2>1. issued[t] = None /\ \E j : issued' = [issued EXCEPT ![t] = j]
    BY <1>3 DEF ClaimNextJob
  <2>2. u # t
    BY <1>1, <2>1
  <2>3. QED
    BY <1>3, <2>1, <2>2 DEF ClaimNextJob, TypeOK
<1>4. ASSUME NEW j \in Job, NEW t \in Token, AttemptWrites(j, t)
      PROVE  /\ issued' = issued
             /\ dir[issued[u]] = "bytes" => dir'[issued[u]] = "bytes"
  BY <1>4 DEF AttemptWrites, TypeOK
<1>5. QED
  BY <1>2, <1>3, <1>4 DEF Ordinary, SweepReservations, ClaimFindsNothing,
     FencedUpdate, FencedFail, CancelPrimaryJob, RequestJobDeletion, Tick
=============================================================================
