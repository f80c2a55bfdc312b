---------------------------- MODULE PrimaryQueue ----------------------------
(***************************************************************************)
(* The primary job queue: the files under JOBS_ROOT that the web app and   *)
(* the primary worker share, and every operation that changes them.        *)
(*                                                                         *)
(*   <id>/job.json                    the job record, variable `job'       *)
(*   <id>/                            the job directory, `dir'             *)
(*   <id>/output/.attempt-owner.json  the artifacts' owner, `publishedBy'  *)
(*   .primary-reservations/<id>.json  the admission, `reserved', `resvLeft'*)
(*   .deletions/<id>.json             the tombstone, `tombstone'           *)
(*                                                                         *)
(* Each operation runs under the directory lock (module QueueLock), so one *)
(* operation is one action; an operation that writes several files has     *)
(* additional actions for stopping between two of its writes.              *)
(*                                                                         *)
(* An instant in a file is kept as the time left until it, counted down to *)
(* zero by Tick: "expiresAt > now" is "left > 0", and a moment in the past *)
(* is 0.  The environment is the most general one: an admitted request and *)
(* the holder of a claim may call the queue at any time, or never again.   *)
(***************************************************************************)
EXTENDS Naturals, FiniteSets

CONSTANTS
    Job,            \* job ids: one per POST /api/jobs (crypto.randomUUID)
    Token,          \* lease tokens: one per claim (crypto.randomUUID)
    None,           \* no token, no job
    MaxAttempts,    \* PRIMARY_MAX_ATTEMPTS
    MaxActiveJobs,  \* PRIMARY_MAX_ACTIVE_JOBS
    LeaseMs,        \* PRIMARY_LEASE_MS, in ticks
    ReservationMs,  \* RESERVATION_STALE_MS, in ticks
    CreatedAt,      \* the createdAt stamps the requests may carry
    Env             \* which of Faults the environment may produce

(* What may go wrong around an operation, beyond expiry and races:         *)
(*   unlink     removing the reservation after job.json was written fails, *)
(*              or the process dies between the two                        *)
(*   publish    the runner dies after renaming its artifacts into place    *)
(*              and before writing job.json                                *)
(*   tombstone  the web process dies, or the second write fails, between   *)
(*              the two writes of a deletion request                       *)
(*   purge      the purge stops when job.json is gone and bytes remain     *)
(*   redelete   DELETE is repeated while the job is being deleted          *)
Faults == {"unlink", "publish", "tombstone", "purge", "redelete"}

ASSUME ConfigAssumption ==
    /\ IsFiniteSet(Job) /\ IsFiniteSet(Token)
    /\ None \notin Job /\ None \notin Token
    /\ MaxAttempts \in Nat \ {0}
    /\ MaxActiveJobs \in Nat \ {0}
    /\ LeaseMs \in Nat \ {0}
    /\ ReservationMs \in Nat \ {0}
    /\ CreatedAt \subseteq Nat
    /\ Env \subseteq Faults

VARIABLES
    job,          \* job.json of each id
    dir,          \* what the job directory holds beside job.json
    publishedBy,  \* the token stamped on the published artifacts
    reserved,     \* ids that have an admission reservation file
    resvLeft,     \* time until a reservation expires
    tombstone,    \* ids that have a deletion tombstone
    safeLeft,     \* time until a tombstone's safeAfter
    request,      \* where the POST /api/jobs of each id stands
    issued,       \* the job each lease token was issued for
    lastClaim,    \* (history) the token of the last claim of each job
    revokedLeft   \* (history) time until the lease that was last revoked
                  \* by a person would have expired

fileVars == <<job, dir, publishedBy, reserved, resvLeft, tombstone, safeLeft>>
historyVars == <<lastClaim, revokedLeft>>
vars == <<fileVars, request, issued, historyVars>>

-----------------------------------------------------------------------------
(* Types                                                                   *)

(* "running" stands for preparing, downloading and processing: no code of  *)
(* the queue tells them apart.  "none" is the absence of job.json.         *)
Active == {"queued", "running"}
Settled == {"completed", "failed", "cancelled", "deleting"}
Status == {"none"} \union Active \union Settled

JobRecord ==
    [status: Status,
     attempts: 0..MaxAttempts,
     lease: Token \union {None},
     leaseLeft: 0..LeaseMs,      \* queue.lease.expiresAt
     cancelLeft: 0..LeaseMs,     \* cancellation.safeAfter
     createdAt: CreatedAt \union {0}]

NoJob ==
    [status |-> "none", attempts |-> 0, lease |-> None, leaseLeft |-> 0,
     cancelLeft |-> 0, createdAt |-> 0]

(* failedAdmissionRecord: the record that replaces an upload whose         *)
(* admission was lost.                                                     *)
FailedAdmissionRecord == [NoJob EXCEPT !.status = "failed"]

RequestPhase == {"new", "admitted", "staging", "refused", "ended"}

TypeOK ==
    /\ job \in [Job -> JobRecord]
    /\ dir \in [Job -> {"absent", "empty", "bytes"}]
    /\ publishedBy \in [Job -> Token \union {None}]
    /\ reserved \in SUBSET Job
    /\ resvLeft \in [Job -> 0..ReservationMs]
    /\ tombstone \in SUBSET Job
    /\ safeLeft \in [Job -> 0..LeaseMs]
    /\ request \in [Job -> RequestPhase]
    /\ issued \in [Token -> Job \union {None}]
    /\ lastClaim \in [Job -> Token \union {None}]
    /\ revokedLeft \in [Job -> 0..LeaseMs]

Init ==
    /\ job = [j \in Job |-> NoJob]
    /\ dir = [j \in Job |-> "absent"]
    /\ publishedBy = [j \in Job |-> None]
    /\ reserved = {}
    /\ resvLeft = [j \in Job |-> 0]
    /\ tombstone = {}
    /\ safeLeft = [j \in Job |-> 0]
    /\ request = [j \in Job |-> "new"]
    /\ issued = [t \in Token |-> None]
    /\ lastClaim = [j \in Job |-> None]
    /\ revokedLeft = [j \in Job |-> 0]

-----------------------------------------------------------------------------
(* Admission: reservations and their recovery                              *)

IsActive(j) == job[j].status \in Active
ActiveJobs == {j \in Job : IsActive(j)}

(* stagedBytesExist: any non-empty file below the job directory, job.json  *)
(* included.                                                               *)
StagedBytesExist(j) == dir[j] = "bytes" \/ job[j].status # "none"

(* reservationState: every operation that looks at the reservations first  *)
(* drops those of active jobs and those that have expired.  An expired one *)
(* whose directory holds bytes, and a directory with bytes but neither     *)
(* reservation nor job.json, is given a failed record.                     *)
Expired(j) == j \in reserved /\ ~IsActive(j) /\ resvLeft[j] = 0
OrphanedAnyRecord(j) == j \notin reserved                        \* seeded fault
Orphaned(j) == j \notin reserved /\ job[j].status = "none"
Recovered(j) == (Expired(j) \/ Orphaned(j)) /\ StagedBytesExist(j)

LiveReservations == {j \in reserved : ~IsActive(j) /\ resvLeft[j] > 0}

(* The admission bound counts the active jobs and the live reservations.   *)
AtCapacityOfJobs == Cardinality(ActiveJobs) >= MaxActiveJobs    \* seeded fault
AtCapacity ==
    Cardinality(ActiveJobs) + Cardinality(LiveReservations) >= MaxActiveJobs

RecoverFailures ==
    job' = [j \in Job |-> IF Recovered(j) THEN FailedAdmissionRecord
                                          ELSE job[j]]

(* reserveAdmission refused at capacity (429), and storageAdmissionStatus. *)
SweepReservations ==
    /\ RecoverFailures
    /\ reserved' = LiveReservations
    /\ UNCHANGED <<dir, publishedBy, resvLeft, tombstone, safeLeft, request,
                   issued, historyVars>>

(* reserveAdmission granted.                                               *)
ReserveAdmission(j) ==
    /\ request[j] = "new"
    /\ ~AtCapacity
    /\ RecoverFailures
    /\ reserved' = LiveReservations \union {j}
    /\ resvLeft' = [resvLeft EXCEPT ![j] = ReservationMs]
    /\ request' = [request EXCEPT ![j] = "admitted"]
    /\ UNCHANGED <<dir, publishedBy, tombstone, safeLeft, issued, historyVars>>

(* handlePOST makes <id>/ and <id>/input/, then the upload's bytes arrive. *)
OpenStaging(j) ==
    /\ request[j] = "admitted"
    /\ dir' = [dir EXCEPT ![j] = "empty"]
    /\ request' = [request EXCEPT ![j] = "staging"]
    /\ UNCHANGED <<job, publishedBy, reserved, resvLeft, tombstone, safeLeft,
                   issued, historyVars>>

ReceiveBytes(j) ==
    /\ request[j] = "staging"
    /\ dir[j] = "empty"
    /\ dir' = [dir EXCEPT ![j] = "bytes"]
    /\ UNCHANGED <<job, publishedBy, reserved, resvLeft, tombstone, safeLeft,
                   request, issued, historyVars>>

(* recheckAdmission while the upload streams: its reservation is renewed.  *)
RecheckAdmission(j) ==
    /\ request[j] = "staging"
    /\ j \in LiveReservations
    /\ RecoverFailures
    /\ reserved' = LiveReservations
    /\ resvLeft' = [resvLeft EXCEPT ![j] = ReservationMs]
    /\ UNCHANGED <<dir, publishedBy, tombstone, safeLeft, request, issued,
                   historyVars>>

(* recheckAdmission finds the reservation gone, or the storage evaluation  *)
(* refuses; both end in a StorageAdmissionError.                           *)
RecheckRefused(j) ==
    /\ request[j] = "staging"
    /\ RecoverFailures
    /\ reserved' = LiveReservations
    /\ request' = [request EXCEPT ![j] = "refused"]
    /\ UNCHANGED <<dir, publishedBy, resvLeft, tombstone, safeLeft, issued,
                   historyVars>>

(* Removing the reservation once job.json is written: best effort.         *)
DropReservation(j) ==
    \/ reserved' = reserved \ {j}
    \/ "unlink" \in Env /\ UNCHANGED reserved

(* publishReservedQueuedJob writes the queued record ...                   *)
PublishReservedQueuedJob(j) ==
    /\ request[j] = "staging"
    /\ job[j].status = "none"
    /\ j \in reserved
    /\ \E at \in CreatedAt :
         job' = [job EXCEPT ![j] = [NoJob EXCEPT !.status = "queued",
                                                 !.createdAt = at]]
    /\ dir' = [dir EXCEPT ![j] = IF @ = "absent" THEN "empty" ELSE @]
    /\ DropReservation(j)
    /\ request' = [request EXCEPT ![j] = "ended"]
    /\ UNCHANGED <<publishedBy, resvLeft, tombstone, safeLeft, issued,
                   historyVars>>

(* ... or returns the record that is already there ...                     *)
PublishFindsRecord(j) ==
    /\ request[j] = "staging"
    /\ job[j].status # "none"
    /\ request' = [request EXCEPT ![j] = "ended"]
    /\ UNCHANGED <<fileVars, issued, historyVars>>

(* ... or finds its reservation lost, a StorageAdmissionError.             *)
PublishFindsReservationLost(j) ==
    /\ request[j] = "staging"
    /\ job[j].status = "none"
    /\ j \notin reserved
    /\ request' = [request EXCEPT ![j] = "refused"]
    /\ UNCHANGED <<fileVars, issued, historyVars>>

(* publishFailedAdmissionJob, after a StorageAdmissionError: the staged    *)
(* bytes stay visible as a failed job.  Without a reservation it throws    *)
(* and changes nothing (RequestEnds).                                      *)
PublishFailedAdmissionJob(j) ==
    /\ request[j] = "refused"
    /\ j \in reserved
    /\ IF StagedBytesExist(j)
         THEN /\ job' = [job EXCEPT ![j] = FailedAdmissionRecord]
              /\ DropReservation(j)
         ELSE /\ reserved' = reserved \ {j}
              /\ UNCHANGED job
    /\ request' = [request EXCEPT ![j] = "ended"]
    /\ UNCHANGED <<dir, publishedBy, resvLeft, tombstone, safeLeft, issued,
                   historyVars>>

(* abortAdmissionStaging, after any other error: the reservation goes, the *)
(* staged bytes stay until a sweep recovers them.                          *)
AbortAdmissionStaging(j) ==
    /\ request[j] \in {"admitted", "staging"}
    /\ reserved' = reserved \ {j}
    /\ request' = [request EXCEPT ![j] = "ended"]
    /\ UNCHANGED <<job, dir, publishedBy, resvLeft, tombstone, safeLeft,
                   issued, historyVars>>

(* The handler ends without touching the queue: the process died, or the   *)
(* cleanup call itself failed and its error was swallowed.                 *)
RequestEnds(j) ==
    /\ request[j] \in {"admitted", "staging", "refused"}
    /\ request' = [request EXCEPT ![j] = "ended"]
    /\ UNCHANGED <<fileVars, issued, historyVars>>

-----------------------------------------------------------------------------
(* Claims and the fenced writes of their holders                           *)

LeaseIsLive(j) == job[j].lease # None /\ job[j].leaseLeft > 0
ClaimableUnleased == {j \in ActiveJobs : job[j].lease = None}     \* seeded fault
Claimable == {j \in ActiveJobs : ~LeaseIsLive(j)}
ExhaustedLate == {j \in Claimable : job[j].attempts > MaxAttempts}
                                                                \* seeded fault
Exhausted == {j \in Claimable : job[j].attempts >= MaxAttempts}

(* fencedUpdateJob with a terminal status, and claimNextJob at the limit:  *)
(* the queue keeps its attempts and loses its lease.                       *)
FailedWithLease(record) == [record EXCEPT !.status = "failed"]  \* seeded fault
Failed(record) == [record EXCEPT !.status = "failed", !.lease = None,
                                 !.leaseLeft = 0]

ClaimedUncounted(record, t) ==                                  \* seeded fault
    [record EXCEPT !.status = "running", !.lease = t, !.leaseLeft = LeaseMs]

Claimed(record, t) ==
    [record EXCEPT !.status = "running", !.attempts = @ + 1, !.lease = t,
                   !.leaseLeft = LeaseMs]

(* claimNextJob walks the active jobs in createdAt order (equal stamps in  *)
(* any order), fails the exhausted ones it passes and claims the first     *)
(* other job that has no live lease.                                       *)
ClaimNextJob(t) ==
    /\ issued[t] = None
    /\ \E j \in Claimable \ Exhausted, passed \in SUBSET Exhausted :
         /\ \A k \in Claimable \ Exhausted :
              job[j].createdAt <= job[k].createdAt
         /\ \A k \in Exhausted :
              /\ job[k].createdAt < job[j].createdAt => k \in passed
              /\ job[k].createdAt > job[j].createdAt => k \notin passed
         /\ job' = [k \in Job |-> IF k = j THEN Claimed(job[k], t)
                                  ELSE IF k \in passed THEN Failed(job[k])
                                  ELSE job[k]]
         /\ issued' = [issued EXCEPT ![t] = j]
         /\ lastClaim' = [lastClaim EXCEPT ![j] = t]
    /\ UNCHANGED <<dir, publishedBy, reserved, resvLeft, tombstone, safeLeft,
                   request, revokedLeft>>

(* claimNextJob that finds nothing to claim still fails the exhausted.     *)
ClaimFindsNothing ==
    /\ Claimable = Exhausted
    /\ job' = [k \in Job |-> IF k \in Exhausted THEN Failed(job[k])
                                                ELSE job[k]]
    /\ UNCHANGED <<dir, publishedBy, reserved, resvLeft, tombstone, safeLeft,
                   request, issued, historyVars>>

(* The fence of fencedUpdateJob, leaseHeld and publishAttemptAndComplete:  *)
(* the token, not the expiry.                                              *)
LeaseHeldByAny(j, t) == job[j].lease # None                     \* seeded fault
LeaseHeld(j, t) == job[j].lease = t

(* fencedUpdateJob with progress or a heartbeat: the lease is renewed.     *)
FencedUpdate(j, t) ==
    /\ issued[t] = j
    /\ LeaseHeld(j, t)
    /\ job' = [job EXCEPT ![j].leaseLeft = LeaseMs]
    /\ UNCHANGED <<dir, publishedBy, reserved, resvLeft, tombstone, safeLeft,
                   request, issued, historyVars>>

(* fencedUpdateJob with status failed: the runner's own failure, and       *)
(* failClaimedJob by the worker that started it.                           *)
FencedFail(j, t) ==
    /\ issued[t] = j
    /\ LeaseHeld(j, t)
    /\ job' = [job EXCEPT ![j] = Failed(@)]
    /\ UNCHANGED <<dir, publishedBy, reserved, resvLeft, tombstone, safeLeft,
                   request, issued, historyVars>>

(* An attempt writes its files under <id>/.attempts/, without the lock and *)
(* whether or not its lease still stands.                                  *)
AttemptWrites(j, t) ==
    /\ issued[t] = j
    /\ dir[j] # "absent"
    /\ dir' = [dir EXCEPT ![j] = "bytes"]
    /\ UNCHANGED <<job, publishedBy, reserved, resvLeft, tombstone, safeLeft,
                   request, issued, historyVars>>

(* publishAttemptAndComplete: the attempt's directories are stamped and    *)
(* renamed into place, those of another attempt moved aside, and job.json  *)
(* is written last (module AttemptPublish has the renames one by one).     *)
PublishAttemptAndComplete(j, t) ==
    /\ issued[t] = j
    /\ LeaseHeld(j, t)
    /\ publishedBy' = [publishedBy EXCEPT ![j] = t]
    /\ dir' = [dir EXCEPT ![j] = "bytes"]
    /\ job' = [job EXCEPT ![j] = [@ EXCEPT !.status = "completed",
                                           !.lease = None, !.leaseLeft = 0]]
    /\ UNCHANGED <<reserved, resvLeft, tombstone, safeLeft, request, issued,
                   historyVars>>

(* Stopped once another attempt's output is aside, or its own in place.    *)
PublishAttemptTorn(j, t) ==
    /\ "publish" \in Env
    /\ issued[t] = j
    /\ LeaseHeld(j, t)
    /\ \E owner \in {None, t} :
         publishedBy' = [publishedBy EXCEPT ![j] = owner]
    /\ dir' = [dir EXCEPT ![j] = "bytes"]
    /\ UNCHANGED <<job, reserved, resvLeft, tombstone, safeLeft, request,
                   issued, historyVars>>

-----------------------------------------------------------------------------
(* Cancellation, deletion and the purge                                    *)

(* What a revocation remembers of the lease it takes away.                 *)
Revoke(j) ==
    revokedLeft' = [revokedLeft EXCEPT
        ![j] = IF job[j].lease # None THEN job[j].leaseLeft ELSE @]

(* cancelPrimaryJob on an active job (any other is left alone).            *)
CancelledAtOnce(record) ==                                      \* seeded fault
    [record EXCEPT !.status = "cancelled", !.cancelLeft = 0, !.lease = None,
                   !.leaseLeft = 0]

Cancelled(record) ==
    [record EXCEPT !.status = "cancelled",
                   !.cancelLeft = IF record.lease # None
                                    THEN record.leaseLeft ELSE 0,
                   !.lease = None, !.leaseLeft = 0]

CancelPrimaryJob(j) ==
    /\ IsActive(j)
    /\ job' = [job EXCEPT ![j] = Cancelled(@)]
    /\ DropReservation(j)
    /\ Revoke(j)
    /\ UNCHANGED <<dir, publishedBy, resvLeft, tombstone, safeLeft, request,
                   issued, lastClaim>>

(* requestJobDeletion writes the tombstone, then job.json.  safeAfter is   *)
(* the expiry of the lease, else the cancellation's safeAfter, else now.   *)
MayDelete(j) ==
    /\ job[j].status # "none"
    /\ job[j].status = "deleting" => "redelete" \in Env

WriteTombstone(j) ==
    /\ tombstone' = tombstone \union {j}
    /\ safeLeft' = [safeLeft EXCEPT
                      ![j] = IF job[j].lease # None THEN job[j].leaseLeft
                                                    ELSE job[j].cancelLeft]

DeletingWithLease(record) == [record EXCEPT !.status = "deleting"]
                                                                \* seeded fault
Deleting(record) ==
    [record EXCEPT !.status = "deleting", !.lease = None, !.leaseLeft = 0]

RequestJobDeletion(j) ==
    /\ MayDelete(j)
    /\ WriteTombstone(j)
    /\ job' = [job EXCEPT ![j] = Deleting(@)]
    /\ Revoke(j)
    /\ UNCHANGED <<dir, publishedBy, reserved, resvLeft, request, issued,
                   lastClaim>>

RequestJobDeletionTorn(j) ==
    /\ "tombstone" \in Env
    /\ MayDelete(j)
    /\ WriteTombstone(j)
    /\ UNCHANGED <<job, dir, publishedBy, reserved, resvLeft, request, issued,
                   historyVars>>

(* purgeOne: blocked while safeAfter lies ahead; then the reservation, the *)
(* job directory and the tombstone are removed, in this order.             *)
PurgeAllowed(j) == j \in tombstone /\ safeLeft[j] = 0

PurgeOne(j) ==
    /\ PurgeAllowed(j)
    /\ reserved' = reserved \ {j}
    /\ job' = [job EXCEPT ![j] = NoJob]
    /\ dir' = [dir EXCEPT ![j] = "absent"]
    /\ publishedBy' = [publishedBy EXCEPT ![j] = None]
    /\ tombstone' = tombstone \ {j}
    /\ UNCHANGED <<resvLeft, safeLeft, request, issued, historyVars>>

PurgeTorn(j) ==
    /\ "purge" \in Env
    /\ PurgeAllowed(j)
    /\ reserved' = reserved \ {j}
    /\ job' = [job EXCEPT ![j] = NoJob]
    /\ UNCHANGED <<dir, publishedBy, resvLeft, tombstone, safeLeft, request,
                   issued, historyVars>>

-----------------------------------------------------------------------------
(* Time                                                                    *)

Down(n) == IF n > 0 THEN n - 1 ELSE 0
CountDown(left) == [x \in DOMAIN left |-> Down(left[x])]

Tick ==
    /\ job' = [j \in Job |-> [job[j] EXCEPT !.leaseLeft = Down(@),
                                            !.cancelLeft = Down(@)]]
    /\ resvLeft' = CountDown(resvLeft)
    /\ safeLeft' = CountDown(safeLeft)
    /\ revokedLeft' = CountDown(revokedLeft)
    /\ UNCHANGED <<dir, publishedBy, reserved, tombstone, request, issued,
                   lastClaim>>

-----------------------------------------------------------------------------
RequestStep(j) ==
    \/ ReserveAdmission(j)
    \/ OpenStaging(j)
    \/ ReceiveBytes(j)
    \/ RecheckAdmission(j)
    \/ RecheckRefused(j)
    \/ PublishReservedQueuedJob(j)
    \/ PublishFindsRecord(j)
    \/ PublishFindsReservationLost(j)
    \/ PublishFailedAdmissionJob(j)
    \/ AbortAdmissionStaging(j)
    \/ RequestEnds(j)

HolderStep(j, t) ==
    \/ FencedUpdate(j, t)
    \/ FencedFail(j, t)
    \/ AttemptWrites(j, t)
    \/ PublishAttemptAndComplete(j, t)
    \/ PublishAttemptTorn(j, t)

PersonStep(j) ==
    \/ CancelPrimaryJob(j)
    \/ RequestJobDeletion(j)
    \/ RequestJobDeletionTorn(j)
    \/ PurgeOne(j)
    \/ PurgeTorn(j)

Next ==
    \/ SweepReservations
    \/ \E j \in Job : RequestStep(j)
    \/ \E t \in Token : ClaimNextJob(t)
    \/ ClaimFindsNothing
    \/ \E j \in Job, t \in Token : HolderStep(j, t)
    \/ \E j \in Job : PersonStep(j)
    \/ Tick

Spec == Init /\ [][Next]_vars

-----------------------------------------------------------------------------
(* Properties                                                              *)

(* Admission control: the jobs that are active and the uploads that hold a *)
(* reservation never exceed MaxActiveJobs together, although reservations  *)
(* expire, are recovered, and are turned into jobs long after the check    *)
(* (reserveAdmission, reservationState, publishReservedQueuedJob).         *)
CapacityBound == Cardinality(ActiveJobs \union reserved) <= MaxActiveJobs

(* At most one worker may write a job: a lease exists only on a running    *)
(* job, and it is that of the job's latest claim, so every earlier claim's *)
(* holder is fenced off (claimNextJob, fencedUpdateJob, cancelPrimaryJob,  *)
(* requestJobDeletion).                                                    *)
OnlyLatestClaimHolds ==
    \A j \in Job :
      job[j].lease # None =>
        /\ job[j].status = "running"
        /\ job[j].lease = lastClaim[j]
        /\ issued[job[j].lease] = j

(* A job is started at most MaxAttempts times in its whole life, whatever  *)
(* expires, crashes or is recovered in between (claimNextJob).             *)
StartedAtMostMaxAttempts ==
    \A j \in Job : Cardinality({t \in Token : issued[t] = j}) <= MaxAttempts

(* The artifacts a completed job serves come from the claim that completed *)
(* it, its latest, even when an earlier attempt had already renamed its    *)
(* own into place and died (publishAttemptAndComplete).                    *)
CompletedShowsLatestAttempt ==
    \A j \in Job :
      job[j].status = "completed" =>
        publishedBy[j] # None /\ publishedBy[j] = lastClaim[j]

(* A settled job is final: a completed, failed or cancelled job keeps its  *)
(* state until it is deleted, and a job being deleted only disappears      *)
(* (TERMINAL, cancelPrimaryJob, reservationState).                         *)
SettledIsFinal ==
    [][\A j \in Job :
         job[j].status \in Settled =>
           job'[j].status \in {job[j].status, "deleting", "none"}]_vars

(* A completed job stays completed until a person deletes it: "Published   *)
(* job is authoritative; reservation counting deduplicates it"             *)
(* (publishReservedQueuedJob, on a reservation it could not remove).       *)
PublishedIsAuthoritative ==
    [][\A j \in Job :
         job[j].status = "completed" =>
           job'[j].status \in {"completed", "deleting", "none"}]_vars

(* A purge never takes the record of a job whose lease a worker holds, and *)
(* waits until the lease that a cancellation or deletion took from one     *)
(* would have expired, which is what gives that worker's processes the     *)
(* time to stop (cancelPrimaryJob, requestJobDeletion, purgeOne).          *)
PurgeWaitsForLease ==
    [][\A j \in Job :
         /\ job[j].status # "none" /\ job'[j].status = "none" => job[j].lease = None
         /\ dir[j] # "absent" /\ dir'[j] = "absent" => revokedLeft[j] = 0]_vars
=============================================================================
