----------------------------- MODULE RenderQueue -----------------------------
(***************************************************************************)
(* The export queue of one job: its request files, the storage             *)
(* reservations that pay for them, and everyone who works on them.         *)
(*                                                                         *)
(*   analysis/render-requests/<id>.json     queue[p]                       *)
(*   .render-reservations/<id>.json         reservation[p]                 *)
(*   output/edits/<clip>/<key>.mp4, .srt    published                      *)
(*                                                                         *)
(* A POST p reserves storage, creates its request, and binds the two; the  *)
(* request it creates is called p too.  Requests are written under flock,  *)
(* reservations under the queue lock of PrimaryQueue: two locks, so every  *)
(* step that touches both kinds of file is two actions.  flock dies with   *)
(* its holder, and each write replaces one file.                           *)
(*                                                                         *)
(* Instants are kept as the time left, as in PrimaryQueue.                 *)
(***************************************************************************)
EXTENDS Naturals, FiniteSets

CONSTANTS
    Post,           \* POSTs to /renders, in the order of their render ids
    Workers,        \* how many render workers there are
    Key,            \* idempotency keys
    Export,         \* render keys: a clip's document and everything it uses
    MaxAttempts,    \* MAX_ATTEMPTS
    MaxClaims,      \* bound of the model on the claims of one request
    MaxRequests,    \* MAX_REQUESTS
    RetentionKeep,  \* RETENTION_KEEP
    LeaseTime,      \* lease_seconds, in ticks
    BeatTime,       \* the worker's lease interval, lease_seconds / 4
    GraceTime,      \* RENDER_LEASE_GRACE_MS
    RecheckTime,    \* JOBS_STORAGE_RECHECK_INTERVAL_MS
    AdmissionTime,  \* ADMISSION_TTL_MS
    Env             \* which of Faults the environment may produce

(*   post     a POST dies between two of its calls                         *)
(*   reply    the answer of create is lost after the request was written   *)
(*   worker   a worker dies                                                *)
(*   stall    a worker does not serve its timers in time                   *)
(* A POST or a worker that dies before it releases its reservation also    *)
(* stands for a release that fails.                                        *)
Faults == {"post", "reply", "worker", "stall"}

ASSUME RenderAssumption ==
    /\ Post \subseteq Nat /\ IsFiniteSet(Post)
    /\ MaxAttempts \in Nat \ {0} /\ MaxClaims \in Nat /\ MaxClaims > MaxAttempts
    /\ Workers \in Nat \ {0}
    /\ MaxRequests \in Nat \ {0} /\ RetentionKeep \in Nat
    /\ {LeaseTime, BeatTime, GraceTime, RecheckTime, AdmissionTime}
         \subseteq Nat \ {0}
    /\ BeatTime < LeaseTime    \* lease_seconds / 4 at most
    /\ Env \subseteq Faults

VARIABLES
    asked,        \* the key and the export each POST asks for
    post,         \* where each POST stands
    queue,        \* the request file of each POST
    drawn,        \* (history) the claims of each request
    reservation,  \* the storage reservation of each POST
    published,    \* the exports that are linked under their names
    job,          \* the job: kept or purged
    worker        \* who works on each claim: phase and timers

renderVars == <<asked, post, queue, drawn, reservation, published, job, worker>>

-----------------------------------------------------------------------------
(* Types                                                                   *)

Leased == {"claimed", "rendering"}
Ended == {"completed", "failed", "cancelled"}

Request ==
    [state: {"absent", "queued"} \union Leased \union Ended,
     attempts: 0..MaxAttempts,
     lease: 0..MaxClaims,      \* lease_token: the number of the claim, or 0
     left: 0..LeaseTime,       \* until the heartbeat is too old
     cancel: BOOLEAN,          \* cancel_requested_at
     old: BOOLEAN]             \* ended more than RETENTION_DAYS ago

NoRequest == [state |-> "absent", attempts |-> 0, lease |-> 0, left |-> 0,
              cancel |-> FALSE, old |-> FALSE]

(* "bound" are the states queued and active of a reservation: a render id  *)
(* is in it, and it does not expire.                                       *)
Reservation == [state: {"none", "admitting", "bound"},
                fresh: 0..GraceTime,     \* until a purge ignores heartbeatAt
                left: 0..AdmissionTime]  \* until expiresAt

NoReservation == [state |-> "none", fresh |-> 0, left |-> 0]

Claim == Post \X (1..MaxClaims)

(* rendered: published, the monitor stopped; settled: the request ended.   *)
Writing == {"checked", "rendering", "rendered", "rechecked"}
Live == {"claimed", "failing", "cancelling", "settled"} \union Writing

Worker == [phase: {"none"} \union Live,
           beat: 0..BeatTime,        \* until the lease heartbeat is due
           recheck: 0..RecheckTime,  \* until the storage heartbeat is due
           late: BOOLEAN]            \* (history) missed one of them

NoWorker == [phase |-> "none", beat |-> 0, recheck |-> 0, late |-> FALSE]

PostPhase == {"new", "reserved", "preparing", "prepared", "instant",
              "created", "done", "replayed", "refused", "lost", "ended"}

(* The types of all of it.  No request is drawn more often than            *)
(* MAX_ATTEMPTS, whatever its workers do (claim_next).                     *)
RenderTypeOK ==
    /\ asked \in [Post -> [key: Key, export: Export]]
    /\ post \in [Post -> PostPhase]
    /\ queue \in [Post -> Request]
    /\ drawn \in [Post -> 0..MaxAttempts]
    /\ reservation \in [Post -> Reservation]
    /\ published \in SUBSET Export
    /\ job \in {"kept", "purged"}
    /\ worker \in [Claim -> Worker]

RenderInit ==
    /\ asked \in [Post -> [key: Key, export: Export]]
    /\ post = [p \in Post |-> "new"]
    /\ queue = [p \in Post |-> NoRequest]
    /\ drawn = [p \in Post |-> 0]
    /\ reservation = [p \in Post |-> NoReservation]
    /\ published = {}
    /\ job = "kept"
    /\ worker = [c \in Claim |-> NoWorker]

-----------------------------------------------------------------------------
(* Storage reservations                                                    *)

Releasing == Ended

(* What every locked operation on reservations removes first: an admission *)
(* that expired, and what a request that ended was bound to.               *)
Swept(p) ==
    LET r == reservation[p]
    IN IF \/ r.state = "admitting" /\ r.left = 0
          \/ r.state = "bound" /\ queue[p].state \in Releasing
       THEN NoReservation ELSE r

Reservations == [p \in Post |-> Swept(p)]

(* expiresAt counts for an admission only.                                 *)
Refreshed(r) ==
    [r EXCEPT !.fresh = GraceTime,
              !.left = IF r.state = "bound" THEN 0 ELSE AdmissionTime]

-----------------------------------------------------------------------------
(* POST /renders                                                           *)

(* The estimate may have been read before a purge.                         *)
ReserveRenderStorage(p) ==
    /\ post[p] = "new"
    /\ \/ /\ post' = [post EXCEPT ![p] = "reserved"]
          /\ reservation' =
               [Reservations EXCEPT ![p] =
                  Refreshed([NoReservation EXCEPT !.state = "admitting"])]
       \/ /\ post' = [post EXCEPT ![p] = "ended"]    \* over the quota
          /\ reservation' = Reservations
    /\ UNCHANGED <<asked, queue, drawn, published, job, worker>>

Present == {q \in Post : queue[q].state # "absent"}
Replayed(p) == {q \in Present : asked[q].key = asked[p].key}

(* The answer to a key that is known: that request, or a conflict.         *)
Replay(p) ==
    /\ Replayed(p) # {}
    /\ post' = [post EXCEPT ![p] =
                  IF \E q \in Replayed(p) : asked[q].export = asked[p].export
                  THEN "replayed" ELSE "refused"]

(* create looks for the key before it prepares ...                         *)
CheckKey(p) ==
    /\ post[p] = "reserved"
    /\ \/ job # "purged" /\ Replay(p)
       \/ /\ job # "purged" /\ Replayed(p) = {}
          /\ post' = [post EXCEPT ![p] = "preparing"]
       \/ /\ job = "purged"
          /\ post' = [post EXCEPT ![p] = "refused"]
    /\ UNCHANGED <<asked, queue, drawn, reservation, published, job, worker>>

(* ... prepares without the lock: it completes at once by an export that   *)
(* exists or by linking the automatic clip; else the source is linked ...  *)
Prepare(p) ==
    /\ post[p] = "preparing"
    /\ LET e == asked[p].export
       IN \/ /\ job # "purged" /\ e \notin published
             /\ post' = [post EXCEPT ![p] = "prepared"]
             /\ UNCHANGED published
          \/ /\ job # "purged"
             /\ post' = [post EXCEPT ![p] = "instant"]
             /\ published' = published \union {e}
          \/ /\ post' = [post EXCEPT ![p] = "refused"]
             /\ UNCHANGED published
    /\ UNCHANGED <<asked, queue, drawn, reservation, job, worker>>

Terminal == {q \in Post : queue[q].state \in Ended}
Prunable == {q \in Terminal : queue[q].old}

Surplus ==
    IF Cardinality(Terminal) > RetentionKeep
    THEN Cardinality(Terminal) - RetentionKeep ELSE 0

(* What is old and beyond the newest; the order among it is abstracted.    *)
Pruned(S) ==
    /\ S \subseteq Prunable /\ Cardinality(S) <= Surplus
    /\ S = Prunable \/ Cardinality(S) = Surplus

Created(p) ==
    [NoRequest EXCEPT
       !.state = IF post[p] = "instant" THEN "completed" ELSE "queued"]

Answered(p) == IF post[p] = "instant" THEN "done" ELSE "created"

(* Seeded fault: it does not look again.                                   *)
CreateUnchecked(p) ==
    /\ post[p] \in {"prepared", "instant"}
    /\ \/ /\ job # "purged"
          /\ \E S \in SUBSET Post :
               /\ Pruned(S)
               /\ LET kept == [q \in Post |-> IF q \in S THEN NoRequest
                                                         ELSE queue[q]]
                  IN IF Cardinality(Present \ S) >= MaxRequests
                     THEN /\ queue' = kept
                          /\ post' = [post EXCEPT ![p] = "refused"]
                     ELSE /\ queue' = [kept EXCEPT ![p] = Created(p)]
                          /\ post' = [post EXCEPT ![p] = Answered(p)]
       \/ /\ job = "purged"
          /\ post' = [post EXCEPT ![p] = "refused"]
          /\ UNCHANGED queue
    /\ UNCHANGED <<asked, drawn, reservation, published, job, worker>>

(* ... and looks again under the lock that it writes under.                *)
CreateRequest(p) ==
    /\ post[p] \in {"prepared", "instant"}
    /\ \/ job # "purged" /\ Replay(p) /\ UNCHANGED queue
       \/ /\ job # "purged" /\ Replayed(p) = {}
          /\ \E S \in SUBSET Post :
               /\ Pruned(S)
               /\ LET kept == [q \in Post |-> IF q \in S THEN NoRequest
                                                         ELSE queue[q]]
                  IN IF Cardinality(Present \ S) >= MaxRequests
                     THEN /\ queue' = kept
                          /\ post' = [post EXCEPT ![p] = "refused"]
                     ELSE /\ queue' = [kept EXCEPT ![p] = Created(p)]
                          /\ post' = [post EXCEPT ![p] = Answered(p)]
       \/ /\ job = "purged"
          /\ post' = [post EXCEPT ![p] = "refused"]
          /\ UNCHANGED queue
    /\ UNCHANGED <<asked, drawn, reservation, published, job, worker>>

Dropped(p) == [reservation EXCEPT ![p] = NoReservation]

(* The release by a POST that was refused, or whose request is another's,  *)
(* or is done.                                                             *)
ReleaseUnused(p) ==
    /\ post[p] \in {"refused", "replayed", "done"}
    /\ post' = [post EXCEPT ![p] = "ended"]
    /\ reservation' = Dropped(p)
    /\ UNCHANGED <<asked, queue, drawn, published, job, worker>>

BindRenderStorage(p) ==
    /\ post[p] = "created"
    /\ post' = [post EXCEPT ![p] = "ended"]
    /\ reservation' =
         IF reservation[p].state = "none" THEN reservation
         ELSE [reservation EXCEPT ![p] = [@ EXCEPT !.state = "bound",
                                                   !.fresh = GraceTime,
                                                   !.left = 0]]
    /\ UNCHANGED <<asked, queue, drawn, published, job, worker>>

(* The answer of create did not come (CREATE_TIMEOUT_MS): the POST takes   *)
(* it for a refusal.                                                       *)
ReplyLost(p) ==
    /\ "reply" \in Env
    /\ post[p] \in {"created", "done"}
    /\ post' = [post EXCEPT ![p] = "lost"]
    /\ reservation' = Dropped(p)
    /\ UNCHANGED <<asked, queue, drawn, published, job, worker>>

PostDies(p) ==
    /\ "post" \in Env
    /\ post[p] \notin {"new", "lost", "ended"}
    /\ post' = [post EXCEPT ![p] = "ended"]
    /\ UNCHANGED <<asked, queue, drawn, reservation, published, job, worker>>

-----------------------------------------------------------------------------
(* Other requests of people                                                *)

CancelledNow(p) ==
    [queue[p] EXCEPT !.state = "cancelled", !.lease = 0, !.left = 0]

CancelAny(p) ==                                                  \* seeded fault
    /\ queue[p].state # "absent"
    /\ queue' = [queue EXCEPT ![p] =
                   IF queue[p].state \in Leased THEN [@ EXCEPT !.cancel = TRUE]
                                                ELSE CancelledNow(p)]
    /\ UNCHANGED <<asked, post, drawn, reservation, published, job, worker>>

CancelRequest(p) ==
    /\ \/ /\ queue[p].state = "queued"
          /\ queue' = [queue EXCEPT ![p] = CancelledNow(p)]
       \/ /\ queue[p].state \in Leased /\ ~queue[p].cancel
          /\ queue' = [queue EXCEPT ![p].cancel = TRUE]
    /\ UNCHANGED <<asked, post, drawn, reservation, published, job, worker>>

(* The purge of the primary worker looks at the reservations only.  The    *)
(* tombstone that comes first stops nothing here.                          *)
PurgeBlockedByBound ==                                           \* seeded fault
    \E p \in Post : reservation[p].state = "bound" /\ reservation[p].fresh > 0
PurgeBlocked == \E p \in Post : reservation[p].fresh > 0

PurgeJob ==
    /\ job = "kept"
    /\ ~PurgeBlocked
    /\ job' = "purged"
    /\ reservation' = [p \in Post |-> NoReservation]
    /\ queue' = [p \in Post |-> NoRequest]
    /\ published' = {}
    /\ UNCHANGED <<asked, post, drawn, worker>>

-----------------------------------------------------------------------------
(* The render worker                                                       *)

Holds(c, states) == queue[c[1]].state \in states /\ queue[c[1]].lease = c[2]

HasPhase(c, phases) == worker[c].phase \in phases
Enters(c, phase) == [worker EXCEPT ![c].phase = phase]

(* The timers of a worker that was late once are not kept.                 *)
Armed(c, time) == IF worker[c].late THEN 0 ELSE time

Stale(p) == queue[p].state \in Leased /\ queue[p].left = 0

AvailableOnceMore(p) ==                                          \* seeded fault
    \/ queue[p].state = "queued"
    \/ Stale(p) /\ ~queue[p].cancel /\ queue[p].attempts <= MaxAttempts
Available(p) ==
    \/ queue[p].state = "queued"
    \/ Stale(p) /\ ~queue[p].cancel /\ queue[p].attempts < MaxAttempts

Unclaimable(p) == Stale(p) /\ ~Available(p)

(* What the walk of claim_next writes for a request that it ends.          *)
GivenUp(p) ==
    IF queue[p].cancel THEN CancelledNow(p)
    ELSE [queue[p] EXCEPT !.state = "failed", !.lease = 0, !.left = 0]

Claimed(p, n) ==
    [queue[p] EXCEPT !.state = "claimed", !.attempts = @ + 1,
                     !.lease = n, !.left = LeaseTime]

ClaimNext(p) ==
    /\ Available(p)
    /\ \A q \in Post : q < p => ~Available(q)
    /\ drawn[p] < MaxClaims
    /\ Cardinality({c \in Claim : HasPhase(c, Live)}) < Workers
    /\ LET n == drawn[p] + 1
       IN /\ queue' = [q \in Post |->
                         IF q = p THEN Claimed(p, n)
                         ELSE IF q < p /\ Unclaimable(q) THEN GivenUp(q)
                         ELSE queue[q]]
          /\ drawn' = [drawn EXCEPT ![p] = n]
          /\ worker' = [worker EXCEPT ![<<p, n>>] =
                          [NoWorker EXCEPT !.phase = "claimed",
                                           !.beat = BeatTime]]
    /\ UNCHANGED <<asked, post, reservation, published, job>>

(* Nothing to claim, or the worker dies in the walk after request m.       *)
ClaimNothing(m) ==
    /\ Unclaimable(m)
    /\ \A q \in Post : q <= m => ~Available(q)
    /\ (\E q \in Post : q > m /\ (Available(q) \/ Unclaimable(q)))
         => "worker" \in Env
    /\ queue' = [q \in Post |-> IF q <= m /\ Unclaimable(q) THEN GivenUp(q)
                                                           ELSE queue[q]]
    /\ UNCHANGED <<asked, post, drawn, reservation, published, job, worker>>

(* Before the render, while it runs, and before its completion.            *)
CheckStorage(c) ==
    /\ HasPhase(c, {"claimed", "rendering", "rendered"})
    /\ Reservations[c[1]].state # "none"
    /\ reservation' = [Reservations EXCEPT ![c[1]] = Refreshed(@)]
    /\ worker' =
         [worker EXCEPT ![c].recheck = Armed(c, RecheckTime),
                        ![c].phase = CASE @ = "claimed" -> "checked"
                                       [] @ = "rendered" -> "rechecked"
                                       [] OTHER -> @]
    /\ UNCHANGED <<asked, post, queue, drawn, published, job>>

(* The reservation is gone, the quota is exhausted, or the call fails.     *)
StorageRefused(c) ==
    /\ HasPhase(c, {"claimed", "rendering", "rendered"})
    /\ reservation' \in {reservation, Reservations}
    /\ worker' = Enters(c, "failing")
    /\ UNCHANGED <<asked, post, queue, drawn, published, job>>

(* An export of the same key may have been published meanwhile: the render *)
(* is skipped.                                                             *)
StartRendering(c) ==
    /\ HasPhase(c, {"checked"})
    /\ \/ /\ Holds(c, {"claimed"})
          /\ queue' = [queue EXCEPT ![c[1]].state = "rendering",
                                    ![c[1]].left = LeaseTime]
          /\ worker' =
               [worker EXCEPT ![c].phase =
                    IF asked[c[1]].export \in published THEN "rechecked"
                                                        ELSE "rendering",
                              ![c].beat = Armed(c, BeatTime)]
       \/ /\ ~Holds(c, {"claimed"})
          /\ worker' = Enters(c, "failing")
          /\ UNCHANGED queue
    /\ UNCHANGED <<asked, post, drawn, reservation, published, job>>

BeatForgotten(c) ==                                              \* seeded fault
    /\ HasPhase(c, {"rendering"})
    /\ Holds(c, Leased)
    /\ worker' = [worker EXCEPT ![c].beat = Armed(c, BeatTime)]
    /\ UNCHANGED <<asked, post, queue, drawn, reservation, published, job>>

(* heartbeat, or progress_v3; the monitor stops the render when it fails.  *)
Heartbeat(c) ==
    /\ HasPhase(c, {"rendering"})
    /\ \/ /\ Holds(c, Leased)
          /\ queue' = [queue EXCEPT ![c[1]].left = LeaseTime]
          /\ worker' = [worker EXCEPT ![c].beat = Armed(c, BeatTime)]
       \/ /\ ~Holds(c, Leased)
          /\ worker' = Enters(c, "failing")
          /\ UNCHANGED queue
    /\ UNCHANGED <<asked, post, drawn, reservation, published, job>>

(* The monitor sees cancel_requested_at and stops the render.              *)
SeesCancel(c) ==
    /\ HasPhase(c, {"rendering"})
    /\ Holds(c, Leased) /\ queue[c[1]].cancel
    /\ worker' = Enters(c, "cancelling")
    /\ UNCHANGED <<asked, post, queue, drawn, reservation, published, job>>

(* The renderer links the export under its name, whoever holds the lease.  *)
Publish(c) ==
    /\ HasPhase(c, {"rendering"})
    /\ job # "purged"
    /\ published' = published \union {asked[c[1]].export}
    /\ worker' = Enters(c, "rendered")
    /\ UNCHANGED <<asked, post, queue, drawn, reservation, job>>

(* Any error: of the renderer, of the snapshot, or a limit on its time.    *)
RenderFails(c) ==
    /\ HasPhase(c, {"rendering"})
    /\ worker' = Enters(c, "failing")
    /\ UNCHANGED <<asked, post, queue, drawn, reservation, published, job>>

Complete(c) ==
    /\ HasPhase(c, {"rechecked"})
    /\ \/ /\ Holds(c, {"rendering"}) /\ asked[c[1]].export \in published
          /\ queue' = [queue EXCEPT ![c[1]].state = "completed",
                                    ![c[1]].lease = 0, ![c[1]].left = 0]
          /\ worker' = Enters(c, "settled")
       \/ /\ ~Holds(c, {"rendering"})
          /\ worker' = Enters(c, "failing")
          /\ UNCHANGED queue
    /\ UNCHANGED <<asked, post, drawn, reservation, published, job>>

(* What a worker that lost its lease leaves to the new owner; in a job     *)
(* that was purged its error ends the process.                             *)
Fail(c) ==
    /\ HasPhase(c, {"failing", "cancelling"})
    /\ \/ /\ Holds(c, Leased)
          /\ queue' =
               [queue EXCEPT ![c[1]].state =
                    IF HasPhase(c, {"cancelling"}) THEN "cancelled" ELSE "failed",
                    ![c[1]].lease = 0, ![c[1]].left = 0]
          /\ worker' = Enters(c, "settled")
       \/ /\ ~Holds(c, Leased)
          /\ worker' = [worker EXCEPT ![c] = NoWorker]
          /\ UNCHANGED queue
    /\ UNCHANGED <<asked, post, drawn, reservation, published, job>>

ReleaseRenderStorage(c) ==
    /\ HasPhase(c, {"settled"})
    /\ worker' = [worker EXCEPT ![c] = NoWorker]
    /\ reservation' = Dropped(c[1])
    /\ UNCHANGED <<asked, post, queue, drawn, published, job>>

WorkerDies(c) ==
    /\ "worker" \in Env
    /\ HasPhase(c, Live)
    /\ worker' = [worker EXCEPT ![c] = NoWorker]
    /\ UNCHANGED <<asked, post, queue, drawn, reservation, published, job>>

-----------------------------------------------------------------------------
(* Time                                                                    *)

Down(n) == IF n = 0 THEN 0 ELSE n - 1

Beating == {"claimed", "checked", "rendering", "rendered", "rechecked"}

(* A timer of the worker that is due now.                                  *)
Due(c) ==
    \/ HasPhase(c, Beating) /\ worker[c].beat = 0
    \/ HasPhase(c, Writing) /\ worker[c].recheck = 0

Tick ==
    /\ \/ \E p \in Post : queue[p].left + reservation[p].fresh
                            + reservation[p].left > 0
       \/ \E c \in Claim : worker[c].beat + worker[c].recheck > 0
    /\ "stall" \in Env \/ \A c \in Claim : ~Due(c)
    /\ queue' = [p \in Post |-> [queue[p] EXCEPT !.left = Down(@)]]
    /\ reservation' =
         [p \in Post |-> [reservation[p] EXCEPT !.fresh = Down(@),
                                               !.left = Down(@)]]
    /\ worker' = [c \in Claim |->
                    IF Due(c) THEN [worker[c] EXCEPT !.beat = 0, !.recheck = 0,
                                                     !.late = TRUE]
                    ELSE [worker[c] EXCEPT !.beat = Down(@),
                                           !.recheck = Down(@)]]
    /\ UNCHANGED <<asked, post, drawn, published, job>>

(* RETENTION_DAYS, against which a POST, a render and an admission are     *)
(* instants.                                                               *)
WeekPasses ==
    /\ \A p \in Post : post[p] \in {"new", "lost", "ended"}
    /\ \A c \in Claim : ~HasPhase(c, Live)
    /\ \E p \in Terminal : ~queue[p].old
    /\ queue' = [p \in Post |-> [queue[p] EXCEPT !.left = 0,
                                                 !.old = p \in Terminal]]
    /\ reservation' = [p \in Post |-> [reservation[p] EXCEPT !.fresh = 0,
                                                             !.left = 0]]
    /\ UNCHANGED <<asked, post, drawn, published, job, worker>>

-----------------------------------------------------------------------------
PostStep(p) ==
    \/ ReserveRenderStorage(p)
    \/ CheckKey(p)
    \/ Prepare(p)
    \/ CreateRequest(p)
    \/ ReleaseUnused(p)
    \/ BindRenderStorage(p)
    \/ ReplyLost(p)
    \/ PostDies(p)

ClaimStep == \E p \in Post : ClaimNext(p) \/ ClaimNothing(p)

WorkerStep(c) ==
    \/ CheckStorage(c)
    \/ StorageRefused(c)
    \/ StartRendering(c)
    \/ Heartbeat(c)
    \/ SeesCancel(c)
    \/ Publish(c)
    \/ RenderFails(c)
    \/ Complete(c)
    \/ Fail(c)
    \/ ReleaseRenderStorage(c)
    \/ WorkerDies(c)

RenderNext ==
    \/ \E p \in Post : PostStep(p) \/ CancelRequest(p)
    \/ PurgeJob
    \/ ClaimStep
    \/ \E c \in Claim : WorkerStep(c)
    \/ Tick
    \/ WeekPasses

RenderSpec == RenderInit /\ [][RenderNext]_renderVars

-----------------------------------------------------------------------------
(* Properties                                                              *)

(* However often an export is asked for under one key, and however the     *)
(* POSTs interleave around the preparation that no lock covers, the queue  *)
(* holds one request for it (create_request_v3).                           *)
OneRequestPerKey ==
    \A p, q \in Present : asked[p].key = asked[q].key => p = q

(* A worker that serves its timers never loses its request to another or   *)
(* to a cancellation: who is superseded was late (claim_next, heartbeat).  *)
OnTimeKeepsLease ==
    job # "purged" =>
      \A c \in Claim :
        HasPhase(c, Beating) /\ ~worker[c].late => Holds(c, Leased)

(* While a worker that is in time writes into the job, the reservation for *)
(* its bytes is there: no sweep takes it (renderReservations), and "purge  *)
(* refuses while a render worker is still writing into the job"            *)
(* (job-deletion.test.mjs), unless its own POST gave the reservation up    *)
(* without knowing of the request.                                         *)
WritersAreCharged ==
    \A c \in Claim :
      HasPhase(c, Writing) /\ ~worker[c].late /\ post[c[1]] # "lost" =>
        reservation[c[1]].state # "none"
(* Nothing else is charged for ever: a bound reservation has its request,  *)
(* which ends, or the purge takes both (renderReservations, prune).        *)
RenderIsCharged ==
    /\ WritersAreCharged
    /\ \A p \in Post : reservation[p].state = "bound" => queue[p].state # "absent"

(* An export that ended does not end otherwise, and does not come back,    *)
(* until it is pruned: not by a late cancellation, a late worker or the    *)
(* walk of another (_v3_leased, cancel_request_v3); and one whose          *)
(* cancellation its worker never saw is not rendered again: "its worker is *)
(* gone and the user cancelled it: never render it again" (claim_next).    *)
EndedIsFinal ==
    [][/\ \A p \in Terminal : queue'[p].state \in {queue[p].state, "absent"}
       /\ \A p \in Post : queue[p].cancel => drawn'[p] = drawn[p]]_renderVars
=============================================================================
