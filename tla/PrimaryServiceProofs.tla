------------------------ MODULE PrimaryServiceProofs ------------------------
(* Theorems about the worker and its runners, for any number of jobs,      *)
(* claims and slots: the service implements the queue, and where the lease *)
(* outlasts two heartbeats and two kill graces no purge meets a live child.*)
EXTENDS PrimaryService, PrimaryQueueProofs

-----------------------------------------------------------------------------
(* The service implements the queue                                        *)

LEMMA ServiceStepIsQueueStep == TypeOK /\ [ServiceNext]_serviceVars => [Next]_vars
<1> SUFFICES ASSUME TypeOK, [ServiceNext]_serviceVars
             PROVE  [Next]_vars
  OBVIOUS
<1>0. ASSUME NEW t \in Token, Held(t) PROVE issued[t] \in Job
  BY <1>0 DEF TypeOK, Held
<1>1. CASE WebStep
  BY <1>1 DEF WebStep, Next
<1>2. ASSUME NEW t \in Token, WorkerStep(t) PROVE [Next]_vars
  <2>1. CASE SlotClaims(t)
    BY <2>1 DEF SlotClaims, Next
  <2>2. CASE SlotSettles(t) /\ Held(t)
    <3>1. issued[t] \in Job /\ HolderStep(issued[t], t)
      BY <1>0, <2>2 DEF SlotSettles, HolderStep
    <3>2. QED
      BY <3>1 DEF Next
  <2>3. CASE StartFails(t) \/ (SlotSettles(t) /\ ~Held(t))
    BY <2>3 DEF StartFails, SlotSettles
  <2>4. QED
    BY <1>2, <2>1, <2>2, <2>3 DEF WorkerStep
<1>3. ASSUME NEW t \in Token, RunnerStep(t) PROVE [Next]_vars
  <2>1. CASE ChildWrites(t)
    BY <2>1 DEF ChildWrites, HolderStep, Next
  <2>2. CASE ~ChildWrites(t)
    <3>1. UNCHANGED vars \/ (Held(t) /\ HolderStep(issued[t], t))
      BY <1>3, <2>2 DEF RunnerStep, StartChild, Heartbeat, HeartbeatFails,
         LeaseCheck, StopChild, ChildEnds, StoppedChildEnds, RunnerPublishes,
         RunnerFails, RunnerDies, RunnerDiesPublishing, OrphanEnds, HolderStep
    <3>2. QED
      BY <1>0, <3>1 DEF Next
  <2>3. QED
    BY <2>1, <2>2
<1>4. CASE SlotFindsNothing \/ ContainerDies \/ ServiceTick
  BY <1>4 DEF SlotFindsNothing, ContainerDies, ServiceTick, Next
<1>5. CASE UNCHANGED serviceVars
  BY <1>5 DEF serviceVars
<1>6. QED
  BY <1>1, <1>2, <1>3, <1>4, <1>5 DEF ServiceNext

(* The worker, its runners, their deaths and the web app never do anything *)
(* to the queue that its own specification excludes, so every theorem      *)
(* about the queue holds of the running service.                           *)
THEOREM ServiceImplementsQueue == ServiceSpec => ImplementsQueue
<1>1. ServiceInit => Init /\ TypeOK
  BY NoJobType, ConfigAssumption
  DEF ServiceInit, Init, TypeOK, RequestPhase
<1>2. QED
  BY <1>1, ServiceStepIsQueueStep, TypeInductive, PTL
  DEF ServiceSpec, Spec, ImplementsQueue

-----------------------------------------------------------------------------
(* Typing of the processes                                                 *)

LEMMA ServiceTypeInductive ==
    ASSUME ServiceTypeOK, [ServiceNext]_serviceVars
    PROVE  ServiceTypeOK'
<1>1. /\ HeartbeatMs \in 0..HeartbeatMs /\ CheckMs \in 0..CheckMs
      /\ KillMs \in 0..KillMs /\ 0 \in 0..2
  BY ServiceAssumption
<1>2. CASE WebStep \/ SlotFindsNothing \/ UNCHANGED serviceVars
  BY <1>2 DEF ServiceTypeOK, WebStep, SlotFindsNothing, serviceVars, procVars
<1>3. ASSUME NEW t \in Token, WorkerStep(t) PROVE ServiceTypeOK'
  BY <1>1, <1>3 DEF ServiceTypeOK, WorkerStep, SlotClaims, StartFails,
     SlotSettles, Enter, Rewind, Phase
<1>4. ASSUME NEW t \in Token, RunnerStep(t) PROVE ServiceTypeOK'
  <2> USE DEF ServiceTypeOK, Enter, Rewind, Terminate, CaptionsLeft, Phase
  <2>1. CASE StartChild(t)
    BY <1>1, <2>1 DEF StartChild
  <2>2. CASE Heartbeat(t) \/ HeartbeatFails(t) \/ LeaseCheck(t) \/ StopChild(t)
    BY <1>1, <2>2 DEF Heartbeat, HeartbeatFails, LeaseCheck, StopChild, LoseLease
  <2>3. ASSUME CaptionsRunOver(t), captions[t] > 0
        PROVE  /\ phase' \in [Token -> Phase] /\ captions' \in [Token -> 0..2]
               /\ beat' \in [Token -> 0..HeartbeatMs]
               /\ check' \in [Token -> 0..CheckMs]
    BY <1>1, <2>3 DEF CaptionsRunOver
  <2>4. CASE ChildEnds(t) \/ StoppedChildEnds(t)
    <3>1. CASE captions[t] > 0
      BY <2>4, <2>3, <3>1 DEF ChildEnds, StoppedChildEnds
    <3>2. CASE ~(captions[t] > 0)
      BY <2>4, <3>2 DEF ChildEnds, StoppedChildEnds
    <3>3. QED
      BY <3>1, <3>2
  <2>5. CASE RunnerPublishes(t) \/ RunnerFails(t) \/ RunnerDies(t)
               \/ RunnerDiesPublishing(t) \/ OrphanEnds(t)
    BY <1>1, <2>5 DEF RunnerPublishes, RunnerFails, RunnerDies,
       RunnerDiesPublishing, OrphanEnds
  <2>6. CASE ChildWrites(t)
    BY <2>6 DEF ChildWrites, procVars
  <2>7. QED
    BY <1>4, <2>1, <2>2, <2>4, <2>5, <2>6 DEF RunnerStep
<1>5. CASE ContainerDies
  BY <1>1, <1>5 DEF ServiceTypeOK, ContainerDies, Phase
<1>6. CASE ServiceTick
  <2>1. ASSUME NEW m \in Nat, NEW left \in [Token -> 0..m]
        PROVE  CountDown(left) \in [Token -> 0..m]
    BY DownType DEF CountDown
  <2>2. HeartbeatMs \in Nat /\ CheckMs \in Nat /\ KillMs \in Nat
    BY ServiceAssumption
  <2>3. QED
    BY <1>6, <2>1, <2>2 DEF ServiceTypeOK, ServiceTick
<1>7. QED
  BY <1>2, <1>3, <1>4, <1>5, <1>6 DEF ServiceNext

(* The processes' state is well typed; in particular no timer is ever set  *)
(* further ahead than its period.                                          *)
THEOREM ServiceTypeCorrect == ServiceSpec => []ServiceTypeOK
<1>1. ServiceInit => ServiceTypeOK
  BY ServiceAssumption DEF ServiceInit, ServiceTypeOK, Phase
<1>2. ServiceTypeOK /\ [ServiceNext]_serviceVars => ServiceTypeOK'
  BY ServiceTypeInductive
<1>3. QED
  BY <1>1, <1>2, PTL DEF ServiceSpec

-----------------------------------------------------------------------------
(* Where the lease outlasts two heartbeats and two kill graces, and        *)
(* deletions and removals of reservations are not torn, no two children    *)
(* work on one job and no purge meets a live child.                        *)

(* What the argument needs of the configuration: a lease that has just     *)
(* been renewed outlasts two children whose heartbeats fail, each of them  *)
(* alive for a heartbeat and a kill grace, because the second captions run *)
(* starts without an update and whatever became of the first.              *)
LeaseOutlasts ==
    /\ LeaseMs > 2 * (HeartbeatMs + KillMs)
    /\ Env \intersect {"unlink", "tombstone", "redelete"} = {}
    /\ "runner" \notin Mishap

(* The instant before which nobody may claim or purge the job, and the     *)
(* time by which the child of a claim is certainly gone if nothing renews, *)
(* the captions run that may still follow it included.                     *)
LeftFor(k) ==
    IF job[k].lease # None THEN job[k].leaseLeft
    ELSE IF job[k].status = "cancelled" THEN job[k].cancelLeft
    ELSE safeLeft[k]

ThisChild(t) == IF phase[t] = "working" THEN beat[t] + KillMs ELSE grace[t]
NextChild(t) == IF captions[t] = 2 THEN HeartbeatMs + KillMs ELSE 0
Due(t) == ThisChild(t) + NextChild(t)

(* The job of claim t is shielded for more than n ticks.                   *)
Shielded(t, n) ==
    /\ issued[t] \in Job
    /\ lastClaim[issued[t]] = t
    /\ job[issued[t]].lease = None
         => job[issued[t]].status \in {"cancelled", "deleting"}
    /\ LeftFor(issued[t]) > n

ChildInv == \A t \in Token : ChildAlive(t) => Shielded(t, Due(t))

ServiceInv == orphans = {} /\ FilesInv /\ ChildInv

-----------------------------------------------------------------------------
(* No step of another actor takes the shield from a claim                  *)

LEMMA ShieldKept ==
    ASSUME NEW t \in Token, NEW n \in Nat, Shielded(t, n),
           issued'[t] = issued[t],
           lastClaim'[issued[t]] = lastClaim[issued[t]],
           job'[issued[t]] = job[issued[t]],
           safeLeft'[issued[t]] = safeLeft[issued[t]]
    PROVE  Shielded(t, n)'
BY DEF Shielded, LeftFor

(* What a shield says of the files of its job.                             *)
LEMMA ShieldFacts ==
    ASSUME TypeOK, ClaimInv, FilesInv, LeaseOutlasts, NEW t \in Token,
           NEW n \in Nat,
           Shielded(t, n), NEW j \in Job, j = issued[t]
    PROVE  /\ job[j].status \in {"running", "cancelled", "deleting"}
           /\ j \notin reserved
           /\ j \notin Claimable
           /\ ~PurgeAllowed(j)
           /\ IsActive(j) => job[j].lease # None
           /\ job[j].leaseLeft \in Nat /\ job[j].cancelLeft \in Nat
           /\ safeLeft[j] \in Nat
<1>1. HoldsFor(j) /\ FilesAgree(j)
  BY ClaimInvPerJob DEF FilesInv
<1>2. /\ job[j].leaseLeft \in Nat /\ job[j].cancelLeft \in Nat
      /\ safeLeft[j] \in Nat
  BY ConfigAssumption DEF TypeOK, JobRecord
<1>3. job[j].status \in {"running", "cancelled", "deleting"}
  BY <1>1 DEF HoldsFor, Shielded
<1>4. IsActive(j) => job[j].lease # None
  BY DEF Shielded, IsActive, Active
<1>5. j \notin Claimable
  BY <1>2, <1>4 DEF Claimable, LeaseIsLive, ActiveJobs, Shielded, LeftFor
<1>6. j \notin reserved
  BY <1>1, <1>3 DEF FilesAgree
<1>7. ~PurgeAllowed(j)
  <2> SUFFICES ASSUME PurgeAllowed(j) PROVE FALSE
    OBVIOUS
  <2>1. job[j].lease = None /\ job[j].status = "deleting" /\ safeLeft[j] = 0
    BY <1>1, <1>3 DEF PurgeAllowed, FilesAgree, LeaseOutlasts
  <2>2. QED
    BY <2>1 DEF Shielded, LeftFor
<1>8. QED
  BY <1>2, <1>3, <1>4, <1>5, <1>6, <1>7

LEMMA SweepKeepsShield ==
    ASSUME TypeOK, ClaimInv, FilesInv, LeaseOutlasts, NEW t \in Token,
           NEW n \in Nat,
           Shielded(t, n), RecoverFailures,
           UNCHANGED <<issued, lastClaim, safeLeft>>
    PROVE  Shielded(t, n)'
<1> DEFINE j == issued[t]
<1>1. j \in Job
  BY DEF Shielded
<1>2. ~Recovered(j)
  BY <1>1, ShieldFacts DEF Recovered, Expired, Orphaned
<1>3. job'[j] = job[j]
  BY <1>1, <1>2 DEF RecoverFailures
<1>4. QED
  BY <1>3, ShieldKept

LEMMA RequestKeepsShield ==
    ASSUME TypeOK, ClaimInv, FilesInv, LeaseOutlasts, NEW t \in Token,
           NEW n \in Nat,
           Shielded(t, n), NEW k \in Job, RequestStep(k)
    PROVE  Shielded(t, n)'
<1> USE DEF fileVars, historyVars
<1> DEFINE j == issued[t]
<1>1. j \in Job
  BY DEF Shielded
<1>2. UNCHANGED <<issued, lastClaim, safeLeft>>
  BY DEF RequestStep, ReserveAdmission, OpenStaging, ReceiveBytes,
     RecheckAdmission, RecheckRefused, PublishReservedQueuedJob,
     PublishFindsRecord, PublishFindsReservationLost,
     PublishFailedAdmissionJob, AbortAdmissionStaging, RequestEnds
<1>3. CASE ReserveAdmission(k) \/ RecheckAdmission(k) \/ RecheckRefused(k)
  BY <1>2, <1>3, SweepKeepsShield
  DEF ReserveAdmission, RecheckAdmission, RecheckRefused
<1>4. CASE PublishReservedQueuedJob(k) \/ PublishFailedAdmissionJob(k)
  <2>1. k \in reserved
    BY <1>4 DEF PublishReservedQueuedJob, PublishFailedAdmissionJob
  <2>2. k # j
    BY <1>1, <2>1, ShieldFacts
  <2>3. job'[j] = job[j]
    BY <1>1, <1>4, <2>2
    DEF PublishReservedQueuedJob, PublishFailedAdmissionJob, TypeOK
  <2>4. QED
    BY <1>2, <2>3, ShieldKept
<1>5. CASE UNCHANGED job
  BY <1>2, <1>5, ShieldKept
<1>6. QED
  BY <1>3, <1>4, <1>5 DEF RequestStep, OpenStaging, ReceiveBytes,
     PublishFindsRecord, PublishFindsReservationLost, AbortAdmissionStaging,
     RequestEnds

LEMMA ClaimKeepsShield ==
    ASSUME TypeOK, ClaimInv, FilesInv, LeaseOutlasts, NEW t \in Token,
           NEW n \in Nat,
           Shielded(t, n), ClaimFindsNothing \/ \E u \in Token : ClaimNextJob(u)
    PROVE  Shielded(t, n)'
<1> USE DEF historyVars
<1> DEFINE j == issued[t]
<1>1. j \in Job /\ j \notin Claimable
  BY ShieldFacts DEF Shielded
<1>2. CASE ClaimFindsNothing
  BY <1>1, <1>2, ShieldKept DEF ClaimFindsNothing, Exhausted
<1>3. ASSUME NEW u \in Token, ClaimNextJob(u)
      PROVE  Shielded(t, n)'
  <2>1. PICK i \in Claimable \ Exhausted, passed \in SUBSET Exhausted :
          /\ job' = [k \in Job |-> IF k = i THEN Claimed(job[k], u)
                                  ELSE IF k \in passed THEN Failed(job[k])
                                  ELSE job[k]]
          /\ issued' = [issued EXCEPT ![u] = i]
          /\ lastClaim' = [lastClaim EXCEPT ![i] = u]
    BY <1>3 DEF ClaimNextJob
  <2>2. issued[u] = None /\ safeLeft' = safeLeft
    BY <1>3 DEF ClaimNextJob
  <2>3. u # t
    BY <1>1, <2>2, ConfigAssumption
  <2>4. j # i /\ j \notin passed
    BY <1>1, <2>1 DEF Exhausted
  <2>5. /\ issued'[t] = j /\ job'[j] = job[j] /\ lastClaim'[j] = lastClaim[j]
    BY <1>1, <2>1, <2>3, <2>4 DEF TypeOK
  <2>6. QED
    BY <2>2, <2>5, ShieldKept
<1>4. QED
  BY <1>2, <1>3

LEMMA WritesKeepShield ==
    ASSUME NEW t \in Token, NEW n \in Nat, Shielded(t, n), NEW k \in Job,
           NEW u \in Token, AttemptWrites(k, u)
    PROVE  Shielded(t, n)'
BY ShieldKept DEF AttemptWrites, historyVars

LEMMA HolderKeepsShield ==
    ASSUME TypeOK, ClaimInv, FilesInv, LeaseOutlasts, NEW t \in Token,
           NEW n \in Nat,
           Shielded(t, n), NEW k \in Job, NEW u \in Token, u # t,
           HolderStep(k, u)
    PROVE  Shielded(t, n)'
<1>0. CASE AttemptWrites(k, u)
  BY <1>0, WritesKeepShield
<1>1. SUFFICES ASSUME ~AttemptWrites(k, u) PROVE Shielded(t, n)'
  BY <1>0
<1>2. LeaseHeld(k, u) /\ UNCHANGED <<issued, lastClaim, safeLeft>>
  BY <1>1 DEF HolderStep, FencedUpdate, FencedFail, PublishAttemptAndComplete,
     PublishAttemptTorn, historyVars
<1>3. lastClaim[k] = u
  BY <1>2, ClaimInvPerJob, ConfigAssumption DEF LeaseHeld, HoldsFor
<1>4. k # issued[t] /\ issued[t] \in Job
  BY <1>3 DEF Shielded
<1>5. job'[issued[t]] = job[issued[t]]
  BY <1>1, <1>4 DEF HolderStep, FencedUpdate, FencedFail,
     PublishAttemptAndComplete, PublishAttemptTorn, TypeOK
<1>6. QED
  BY <1>2, <1>5, ShieldKept

LEMMA PersonKeepsShield ==
    ASSUME TypeOK, ClaimInv, FilesInv, LeaseOutlasts, NEW t \in Token,
           NEW n \in Nat, Shielded(t, n), NEW k \in Job, PersonStep(k)
    PROVE  Shielded(t, n)'
<1> USE DEF historyVars
<1> DEFINE j == issued[t]
<1>1. /\ j \in Job /\ job[j] \in JobRecord
      /\ UNCHANGED <<issued, lastClaim>>
  BY DEF Shielded, TypeOK, PersonStep, CancelPrimaryJob, RequestJobDeletion,
     RequestJobDeletionTorn, PurgeOne, PurgeTorn
<1>2. CASE k # j
  <2>1. job'[j] = job[j] /\ safeLeft'[j] = safeLeft[j]
    BY <1>1, <1>2 DEF PersonStep, CancelPrimaryJob, RequestJobDeletion,
       RequestJobDeletionTorn, WriteTombstone, PurgeOne, PurgeTorn, TypeOK
  <2>2. QED
    BY <1>1, <2>1, ShieldKept
<1>3. CASE CancelPrimaryJob(j)
  <2>1. /\ job[j].lease # None /\ job' = [job EXCEPT ![j] = Cancelled(job[j])]
    BY <1>1, <1>3, ShieldFacts DEF CancelPrimaryJob
  <2>2. /\ job'[j].lease = None /\ job'[j].status = "cancelled"
        /\ job'[j].cancelLeft = job[j].leaseLeft
    BY <1>1, <2>1 DEF Cancelled, TypeOK, JobRecord
  <2>3. QED
    BY <1>1, <2>1, <2>2 DEF Shielded, LeftFor
<1>4. CASE RequestJobDeletion(j)
  <2>1. /\ job' = [job EXCEPT ![j] = Deleting(job[j])]
        /\ job[j].status # "deleting"
        /\ safeLeft'[j] = IF job[j].lease # None THEN job[j].leaseLeft
                                                 ELSE job[j].cancelLeft
    BY <1>1, <1>4
    DEF RequestJobDeletion, MayDelete, WriteTombstone, LeaseOutlasts, TypeOK
  <2>2. job'[j].lease = None /\ job'[j].status = "deleting"
    BY <1>1, <2>1 DEF Deleting, TypeOK, JobRecord
  <2>3. QED
    BY <1>1, <2>1, <2>2 DEF Shielded, LeftFor
<1>5. ~PurgeOne(j) /\ ~PurgeTorn(j) /\ ~RequestJobDeletionTorn(j)
  BY <1>1, ShieldFacts
  DEF PurgeOne, PurgeTorn, RequestJobDeletionTorn, LeaseOutlasts
<1>6. QED
  BY <1>2, <1>3, <1>4, <1>5 DEF PersonStep

(* Every step of the queue but Tick and what the claim alone may do.       *)
OthersStep(t) ==
    \/ SweepReservations
    \/ \E k \in Job : RequestStep(k)
    \/ \E u \in Token : ClaimNextJob(u)
    \/ ClaimFindsNothing
    \/ \E k \in Job, u \in Token \ {t} : HolderStep(k, u)
    \/ \E k \in Job, u \in Token : AttemptWrites(k, u)
    \/ \E k \in Job : PersonStep(k)
    \/ UNCHANGED vars

LEMMA OthersKeepShield ==
    ASSUME TypeOK, ClaimInv, FilesInv, LeaseOutlasts, NEW t \in Token,
           NEW n \in Nat, Shielded(t, n), OthersStep(t)
    PROVE  Shielded(t, n)'
<1>1. CASE SweepReservations
  BY <1>1, SweepKeepsShield DEF SweepReservations, historyVars
<1>2. CASE \E k \in Job : RequestStep(k)
  BY <1>2, RequestKeepsShield
<1>3. CASE ClaimFindsNothing \/ \E u \in Token : ClaimNextJob(u)
  BY <1>3, ClaimKeepsShield
<1>4. CASE \E k \in Job, u \in Token \ {t} : HolderStep(k, u)
  BY <1>4, HolderKeepsShield
<1>5. CASE \E k \in Job : PersonStep(k)
  BY <1>5, PersonKeepsShield
<1>6. CASE UNCHANGED vars
  BY <1>6, ShieldKept DEF vars, fileVars, historyVars
<1>7. CASE \E k \in Job, u \in Token : AttemptWrites(k, u)
  BY <1>7, WritesKeepShield
<1>8. QED
  BY <1>1, <1>2, <1>3, <1>4, <1>5, <1>6, <1>7 DEF OthersStep

LEMMA TickKeepsShield ==
    ASSUME TypeOK, ClaimInv, FilesInv, LeaseOutlasts, NEW t \in Token,
           NEW n \in Nat, n > 0,
           Shielded(t, n), Tick
    PROVE  Shielded(t, n - 1)'
<1> DEFINE j == issued[t]
<1>1. /\ j \in Job /\ job[j] \in JobRecord
      /\ job[j].leaseLeft \in Nat /\ job[j].cancelLeft \in Nat
      /\ safeLeft[j] \in Nat
  BY ShieldFacts DEF Shielded, TypeOK
<1>2. /\ job'[j].status = job[j].status /\ job'[j].lease = job[j].lease
      /\ job'[j].leaseLeft = Down(job[j].leaseLeft)
      /\ job'[j].cancelLeft = Down(job[j].cancelLeft)
      /\ safeLeft'[j] = Down(safeLeft[j])
      /\ UNCHANGED <<issued, lastClaim>>
  BY <1>1 DEF Tick, CountDown, TypeOK, JobRecord
<1>3. \A m \in Nat : m > n => Down(m) > n - 1
  BY DEF Down
<1>4. LeftFor(j)' > n - 1
  BY <1>1, <1>2, <1>3 DEF LeftFor, Shielded
<1>5. QED
  BY <1>2, <1>4 DEF Shielded

(* The claim's own fenced update shields its job for a whole lease.        *)
LEMMA UpdateShields ==
    ASSUME TypeOK, ClaimInv, NEW t \in Token, FencedUpdate(issued[t], t),
           Held(t), NEW n \in Nat, n < LeaseMs
    PROVE  Shielded(t, n)'
<1> DEFINE j == issued[t]
<1>1. j \in Job /\ t # None
  BY ConfigAssumption DEF Held, TypeOK
<1>2. job[j].lease = t /\ lastClaim[j] = t
  BY <1>1, ClaimInvPerJob DEF Held, LeaseHeld, HoldsFor
<1>3. /\ job'[j].lease = t /\ job'[j].leaseLeft = LeaseMs
      /\ UNCHANGED <<issued, lastClaim>>
  BY <1>1, <1>2 DEF FencedUpdate, TypeOK, JobRecord, historyVars
<1>4. QED
  BY <1>1, <1>2, <1>3 DEF Shielded, LeftFor

-----------------------------------------------------------------------------
(* The shield of every live child survives every step of the service       *)

LEMMA DueType ==
    ASSUME ServiceTypeOK, NEW t \in Token
    PROVE  /\ Due(t) \in Nat /\ ThisChild(t) \in Nat /\ NextChild(t) \in Nat
           /\ Due(t) <= 2 * (HeartbeatMs + KillMs)
           /\ beat[t] \in Nat /\ beat[t] <= HeartbeatMs
           /\ grace[t] \in Nat /\ grace[t] <= KillMs
           /\ KillMs \in Nat /\ HeartbeatMs \in Nat
BY ServiceAssumption DEF ServiceTypeOK, Due, ThisChild, NextChild

(* A runner's step leaves the processes of every other claim alone.        *)
LEMMA OthersProcessesKept ==
    ASSUME ServiceTypeOK, NEW t \in Token, NEW u \in Token, u # t,
           RunnerStep(u)
    PROVE  /\ phase'[t] = phase[t] /\ captions'[t] = captions[t]
           /\ beat'[t] = beat[t] /\ grace'[t] = grace[t]
<1> USE DEF Enter, Rewind, CaptionsLeft, Terminate, LoseLease, ServiceTypeOK
<1>1. CASE StartChild(u) \/ Heartbeat(u) \/ HeartbeatFails(u)
             \/ LeaseCheck(u) \/ StopChild(u)
  BY <1>1 DEF StartChild, Heartbeat, HeartbeatFails, LeaseCheck, StopChild
<1>2. CASE ChildEnds(u) \/ StoppedChildEnds(u)
  BY <1>2 DEF ChildEnds, StoppedChildEnds, CaptionsRunOver
<1>3. CASE ChildWrites(u) \/ RunnerPublishes(u) \/ RunnerFails(u)
             \/ RunnerDies(u) \/ RunnerDiesPublishing(u) \/ OrphanEnds(u)
  BY <1>3 DEF ChildWrites, procVars, RunnerPublishes, RunnerFails, RunnerDies,
     RunnerDiesPublishing, OrphanEnds
<1>4. QED
  BY <1>1, <1>2, <1>3 DEF RunnerStep

(* A step that is not the claim's own leaves its child's deadline alone.   *)
LEMMA OthersKeepChild ==
    ASSUME TypeOK, ClaimInv, FilesInv, ChildInv, LeaseOutlasts, ServiceTypeOK,
           NEW t \in Token, ChildAlive(t), OthersStep(t),
           phase'[t] = phase[t], captions'[t] = captions[t],
           beat'[t] = beat[t], grace'[t] = grace[t]
    PROVE  Shielded(t, Due(t))'
<1>1. PICK n \in Nat : n = Due(t)
  BY DueType
<1>2. Shielded(t, n)
  BY <1>1 DEF ChildInv
<1>3. Shielded(t, n)'
  BY <1>2, OthersKeepShield
<1>4. Due(t)' = n
  BY <1>1 DEF Due, ThisChild, NextChild
<1>5. QED
  BY <1>3, <1>4

LEMMA OwnStepKeepsChild ==
    ASSUME TypeOK, ClaimInv, FilesInv, ChildInv, LeaseOutlasts, ServiceTypeOK,
           orphans = {}, NEW t \in Token, RunnerStep(t), ServiceTypeOK',
           ChildAlive(t)'
    PROVE  Shielded(t, Due(t))'
<1> USE DEF Enter, Rewind
<1>0. /\ orphans' = {}
      /\ HeartbeatMs \in Nat /\ KillMs \in Nat /\ LeaseMs \in Nat
      /\ 2 * (HeartbeatMs + KillMs) < LeaseMs
  BY DueType, ConfigAssumption
  DEF RunnerStep, StartChild, Heartbeat, HeartbeatFails, LeaseCheck,
      StopChild, ChildEnds, StoppedChildEnds, RunnerPublishes, RunnerFails,
      RunnerDies, RunnerDiesPublishing, OrphanEnds, ChildWrites, procVars,
      LeaseOutlasts
<1>1. phase'[t] \in {"working", "stopping"}
  BY <1>0 DEF ChildAlive
<1>2. Due(t)' \in Nat /\ Due(t)' <= 2 * (HeartbeatMs + KillMs)
  BY ServiceAssumption DEF ServiceTypeOK, Due, ThisChild, NextChild
<1>3. CASE (StartChild(t) \/ Heartbeat(t)) /\ Held(t)
  <2>1. FencedUpdate(issued[t], t)
    BY <1>3 DEF StartChild, Heartbeat
  <2>2. PICK n \in Nat : n < LeaseMs /\ n = Due(t)'
    BY <1>0, <1>2
  <2>3. Shielded(t, n)'
    BY <1>3, <2>1, <2>2, UpdateShields
  <2>4. QED
    BY <2>2, <2>3
<1>4. ASSUME ChildAlive(t), UNCHANGED vars, Due(t)' <= Due(t)
      PROVE  Shielded(t, Due(t))'
  <2>1. Shielded(t, Due(t)) /\ LeftFor(issued[t]) \in Nat
    BY <1>4, ConfigAssumption
    DEF ChildInv, Shielded, LeftFor, TypeOK, JobRecord
  <2>2. /\ UNCHANGED <<issued, lastClaim, job, safeLeft>>
        /\ LeftFor(issued[t])' = LeftFor(issued[t])
    BY <1>4 DEF vars, fileVars, historyVars, LeftFor
  <2>3. QED
    BY <1>2, <1>4, <2>1, <2>2, DueType DEF Shielded
<1>5. CASE HeartbeatFails(t) \/ LeaseCheck(t) \/ StopChild(t)
             \/ (Heartbeat(t) /\ ~Held(t))
  <2>1. /\ ChildAlive(t) /\ UNCHANGED vars
        /\ captions'[t] \in {captions[t], 0}
    BY <1>5 DEF HeartbeatFails, LeaseCheck, StopChild, Heartbeat, Terminate,
       LoseLease, CaptionsLeft, ChildAlive, ServiceTypeOK
  <2>2. \/ phase'[t] = "stopping" /\ grace'[t] = KillMs /\ phase[t] = "working"
        \/ /\ phase'[t] = "stopping" /\ grace'[t] = grace[t]
           /\ phase[t] = "stopping"
        \/ phase'[t] = "working" /\ beat'[t] = beat[t] /\ phase[t] = "working"
    BY <1>5 DEF HeartbeatFails, LeaseCheck, StopChild, Heartbeat, Terminate,
       LoseLease, ServiceTypeOK
  <2>3. ThisChild(t)' <= ThisChild(t) /\ ThisChild(t)' \in Nat
    BY <2>2, DueType DEF ThisChild
  <2>4. NextChild(t)' <= NextChild(t) /\ NextChild(t)' \in Nat
    BY <1>0, <2>1 DEF NextChild
  <2>5. Due(t)' <= Due(t)
    BY <2>3, <2>4, DueType DEF Due
  <2>6. QED
    BY <1>4, <2>1, <2>5
<1>6. CASE ChildEnds(t) \/ StoppedChildEnds(t)
  <2>1. /\ ChildAlive(t) /\ UNCHANGED vars
        /\ captions[t] > 0 => CaptionsRunOver(t)
        /\ ~(captions[t] > 0) => phase'[t] \in {"between", "failing"}
    BY <1>6 DEF ChildEnds, StoppedChildEnds, ChildAlive, ServiceTypeOK
  <2>2. /\ captions[t] = 2 /\ captions'[t] = 1
        /\ phase'[t] = "working" /\ beat'[t] = HeartbeatMs
    BY <1>1, <2>1 DEF CaptionsRunOver, CaptionsLeft, ServiceTypeOK
  <2>3. Due(t)' <= Due(t)
    BY <1>0, <2>2, DueType DEF Due, ThisChild, NextChild
  <2>4. QED
    BY <1>4, <2>1, <2>3
<1>7. CASE RunnerPublishes(t) \/ RunnerFails(t) \/ RunnerDies(t)
             \/ RunnerDiesPublishing(t) \/ (StartChild(t) /\ ~Held(t))
  <2>1. phase'[t] = "exited"
    BY <1>7 DEF RunnerPublishes, RunnerFails, RunnerDies,
       RunnerDiesPublishing, StartChild, ServiceTypeOK
  <2>2. QED
    BY <1>1, <2>1
<1>8. CASE ChildWrites(t)
  BY <1>8, OthersKeepChild DEF ChildWrites, OthersStep, procVars
<1>9. QED
  BY <1>3, <1>5, <1>6, <1>7, <1>8 DEF RunnerStep, OrphanEnds

LEMMA ChildInvInductive ==
    ASSUME TypeOK, ClaimInv, FilesInv, ChildInv, LeaseOutlasts, ServiceTypeOK,
           orphans = {}, [ServiceNext]_serviceVars
    PROVE  orphans' = {} /\ ChildInv'
<1>1. orphans' = {}
  BY DEF LeaseOutlasts, ServiceNext, WebStep, WorkerStep, SlotClaims,
     StartFails, SlotSettles, RunnerStep, StartChild, Heartbeat,
     HeartbeatFails, LeaseCheck, StopChild, ChildEnds, StoppedChildEnds,
     RunnerPublishes, RunnerFails, RunnerDies, RunnerDiesPublishing,
     ChildWrites, OrphanEnds, SlotFindsNothing, ContainerDies, ServiceTick, serviceVars,
     procVars
<1>2. SUFFICES ASSUME NEW t \in Token, ChildAlive(t)'
               PROVE  Shielded(t, Due(t))'
  BY <1>1 DEF ChildInv
<1>3. phase'[t] \in {"working", "stopping"}
  BY <1>1, <1>2 DEF ChildAlive
<1>4. CASE WebStep \/ SlotFindsNothing \/ UNCHANGED serviceVars
  BY <1>2, <1>4, OthersKeepChild
  DEF WebStep, SlotFindsNothing, OthersStep, procVars, serviceVars, ChildAlive
<1>5. ASSUME NEW u \in Token, WorkerStep(u)
      PROVE  Shielded(t, Due(t))'
  <2>1. u # t
    BY <1>3, <1>5
    DEF WorkerStep, SlotClaims, StartFails, SlotSettles, Enter, ServiceTypeOK
  <2>2. /\ phase'[t] = phase[t] /\ captions'[t] = captions[t]
        /\ beat'[t] = beat[t] /\ grace'[t] = grace[t]
    BY <1>5, <2>1 DEF WorkerStep, SlotClaims, StartFails, SlotSettles, Enter,
       Rewind, ServiceTypeOK
  <2>3. \/ ClaimNextJob(u) \/ UNCHANGED vars
        \/ Held(u) /\ FencedFail(issued[u], u)
    BY <1>5 DEF WorkerStep, SlotClaims, StartFails, SlotSettles
  <2>4. Held(u) => issued[u] \in Job
    BY DEF Held, TypeOK
  <2>5. OthersStep(t)
    BY <2>1, <2>3, <2>4 DEF OthersStep, HolderStep
  <2>6. QED
    BY <1>3, <2>2, <2>5, OthersKeepChild DEF ChildAlive
<1>6. ASSUME NEW u \in Token, RunnerStep(u), u # t
      PROVE  Shielded(t, Due(t))'
  <2>1. /\ phase'[t] = phase[t] /\ captions'[t] = captions[t]
        /\ beat'[t] = beat[t] /\ grace'[t] = grace[t]
    BY <1>6, OthersProcessesKept
  <2>2. \/ UNCHANGED vars \/ (Held(u) /\ HolderStep(issued[u], u))
        \/ \E k \in Job : AttemptWrites(k, u)
    BY <1>6 DEF RunnerStep, StartChild, Heartbeat, HeartbeatFails, LeaseCheck,
       StopChild, ChildEnds, StoppedChildEnds, RunnerPublishes, RunnerFails,
       RunnerDies, RunnerDiesPublishing, OrphanEnds, ChildWrites, HolderStep
  <2>3. Held(u) => issued[u] \in Job
    BY DEF Held, TypeOK
  <2>4. OthersStep(t)
    BY <1>6, <2>2, <2>3 DEF OthersStep
  <2>5. QED
    BY <1>3, <2>1, <2>4, OthersKeepChild DEF ChildAlive
<1>7. CASE RunnerStep(t)
  BY <1>2, <1>7, OwnStepKeepsChild, ServiceTypeInductive DEF ServiceNext
<1>8. ~ContainerDies
  BY <1>3 DEF ContainerDies
<1>9. CASE ServiceTick
  <2>1. /\ Tick /\ phase' = phase /\ captions' = captions
        /\ beat'[t] = Down(beat[t]) /\ grace'[t] = Down(grace[t])
        /\ phase[t] = "working" => beat[t] > 0
        /\ phase[t] = "stopping" => grace[t] > 0
    BY <1>9 DEF ServiceTick, TimersServed, CountDown, ServiceTypeOK
  <2>2. PICK n \in Nat : n = Due(t) /\ n > 0
    BY <1>3, <2>1, DueType, ServiceAssumption DEF Due, ThisChild
  <2>3. ChildAlive(t) /\ Shielded(t, n)
    BY <1>3, <2>1, <2>2 DEF ChildInv, ChildAlive
  <2>4. Shielded(t, n - 1)'
    BY <2>1, <2>2, <2>3, TickKeepsShield
  <2>5. Due(t)' = n - 1
    BY <1>3, <2>1, <2>2, DueType DEF Due, ThisChild, NextChild, Down
  <2>6. QED
    BY <2>4, <2>5
<1>10. QED
  BY <1>4, <1>5, <1>6, <1>7, <1>8, <1>9 DEF ServiceNext

LEMMA ServiceInvAlways ==
    LeaseOutlasts /\ ServiceSpec
      => [](TypeOK /\ ClaimInv /\ ServiceTypeOK /\ ServiceInv)
<1> SUFFICES ASSUME LeaseOutlasts
             PROVE  ServiceSpec
                      => [](TypeOK /\ ClaimInv /\ ServiceTypeOK /\ ServiceInv)
  OBVIOUS
<1>1. ServiceInit => ServiceInv
  BY DEF ServiceInit, Init, ServiceInv, FilesInv, FilesAgree, ChildInv,
     ChildAlive, NoJob
<1>2. TypeOK /\ ClaimInv /\ ServiceTypeOK /\ ServiceInv
        /\ [ServiceNext]_serviceVars => ServiceInv'
  BY ServiceStepIsQueueStep, FilesInvInductive, ChildInvInductive
  DEF ServiceInv, LeaseOutlasts
<1>3. QED
  BY <1>1, <1>2, ServiceImplementsQueue, TypeCorrect, ClaimInvAlways,
     ServiceTypeCorrect, PTL DEF ServiceSpec, ImplementsQueue

(* No two children ever work on one job: a child lives no longer than its  *)
(* claim's lease, through every expiry, reclaim, cancellation and death of *)
(* the container, when the lease outlasts two heartbeats and kill graces.  *)
THEOREM OneChild == LeaseOutlasts /\ ServiceSpec => []OneChildPerJob
<1>1. ServiceInv => OneChildPerJob
  BY DEF ServiceInv, ChildInv, Shielded, OneChildPerJob
<1>2. QED
  BY <1>1, ServiceInvAlways, PTL

(* A purge never takes the directory of a job whose child is alive, under  *)
(* the same assumptions: a shielded job's tombstone is not ripe.           *)
THEOREM PurgeIsSafe == LeaseOutlasts /\ ServiceSpec => PurgeSparesLiveChild
<1> SUFFICES ASSUME LeaseOutlasts
             PROVE  ServiceSpec => PurgeSparesLiveChild
  OBVIOUS
<1> DEFINE Spared == \A t \in Token :
                       ChildAlive(t) /\ dir[issued[t]] # "absent"
                         => dir'[issued[t]] # "absent"
<1>1. TypeOK /\ ClaimInv /\ ServiceTypeOK /\ ServiceInv
        /\ [ServiceNext]_serviceVars => Spared
  <2> SUFFICES ASSUME TypeOK, ClaimInv, ServiceTypeOK, ServiceInv,
                      [ServiceNext]_serviceVars,
                      NEW t \in Token, ChildAlive(t),
                      dir[issued[t]] # "absent"
               PROVE  dir'[issued[t]] # "absent"
    OBVIOUS
  <2> DEFINE j == issued[t]
  <2>1. PICK n \in Nat : n = Due(t)
    BY DueType
  <2>2. j \in Job /\ ~PurgeAllowed(j)
    BY <2>1, ShieldFacts DEF ServiceInv, ChildInv, Shielded
  <2>3. [Next]_vars
    BY ServiceStepIsQueueStep
  <2>4. ASSUME NEW k \in Job, RequestStep(k) PROVE dir'[j] # "absent"
    BY <2>2, <2>4 DEF TypeOK, RequestStep, ReserveAdmission, OpenStaging,
       ReceiveBytes, RecheckAdmission, RecheckRefused,
       PublishReservedQueuedJob, PublishFindsRecord,
       PublishFindsReservationLost, PublishFailedAdmissionJob,
       AbortAdmissionStaging, RequestEnds, fileVars
  <2>5. ASSUME NEW k \in Job, NEW u \in Token, HolderStep(k, u)
        PROVE  dir'[j] # "absent"
    BY <2>2, <2>5 DEF TypeOK, HolderStep, FencedUpdate, FencedFail,
       AttemptWrites, PublishAttemptAndComplete, PublishAttemptTorn
  <2>6. ASSUME NEW k \in Job, PersonStep(k) PROVE dir'[j] # "absent"
    BY <2>2, <2>6 DEF TypeOK, PersonStep, CancelPrimaryJob,
       RequestJobDeletion, RequestJobDeletionTorn, PurgeOne, PurgeTorn
  <2>7. QED
    BY <2>3, <2>4, <2>5, <2>6 DEF Next, SweepReservations, ClaimNextJob,
       ClaimFindsNothing, Tick, vars, fileVars
<1>2. QED
  BY <1>1, ServiceInvAlways, PTL DEF ServiceSpec, PurgeSparesLiveChild
=============================================================================
