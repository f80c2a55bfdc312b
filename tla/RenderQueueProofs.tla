-------------------------- MODULE RenderQueueProofs --------------------------
(* Theorems about RenderQueue, for any number of POSTs, keys, workers and  *)
(* claims and for every choice of Env: one request per key, a lease that a *)
(* worker in time keeps, storage that is paid for, ends that are final.    *)
EXTENDS RenderQueue, TLAPS

(* A POST before its request exists, or whose request is not its own.      *)
Early == {"new", "reserved", "preparing", "prepared", "instant", "replayed",
          "refused"}
(* A POST that does nothing more by itself.                                *)
Quiet == {"new", "lost", "ended"}

(* A request exists only once its POST created it, counts its claims       *)
(* truly, is queued only until the first of them, and grows old only when  *)
(* its POST is over; one whose POST found the work done is never claimed.  *)
RequestInv(p) ==
    /\ post[p] \in Early => queue[p].state = "absent" /\ drawn[p] = 0
    /\ post[p] = "done" => /\ queue[p].state \in {"absent", "completed"}
                           /\ drawn[p] = 0
    /\ queue[p].state # "absent" => queue[p].attempts = drawn[p]
    /\ queue[p].state = "queued" => ~queue[p].cancel /\ drawn[p] = 0
    /\ queue[p].old => queue[p].state \in Ended /\ post[p] \in Quiet
    /\ job = "purged" => queue[p].state = "absent"

QueueInv == RenderTypeOK /\ \A p \in Post : RequestInv(p)

(* A worker follows a claim that was drawn; one that settled its request   *)
(* left it ended; one in time holds a lease that outlives its next beat.   *)
LeaseInv(c) ==
    /\ HasPhase(c, Live) => c[2] <= drawn[c[1]]
    /\ HasPhase(c, {"settled"}) => queue[c[1]].state \in Ended \union {"absent"}
    /\ job = "kept" /\ HasPhase(c, Beating) /\ ~worker[c].late =>
         Holds(c, Leased) /\ queue[c[1]].left > worker[c].beat

(* The reservation of a writer that is in time outlives its next recheck,  *)
(* for the purge (fresh) and for the sweep (left); so the job is kept.     *)
ChargeInv(c) ==
    HasPhase(c, Writing) /\ ~worker[c].late /\ post[c[1]] # "lost" =>
      /\ job = "kept"
      /\ reservation[c[1]].state # "none"
      /\ reservation[c[1]].fresh > worker[c].recheck
      /\ reservation[c[1]].state = "admitting" =>
           reservation[c[1]].left > worker[c].recheck

(* What was bound has its request: a POST binds what it created, the purge *)
(* takes both, and what is pruned was released or swept before.            *)
BoundInv(p) ==
    /\ reservation[p].state = "bound" => queue[p].state # "absent"
    /\ post[p] = "created" /\ queue[p].state = "absent" =>
         reservation[p].state = "none"
    /\ queue[p].old /\ reservation[p].state = "bound" =>
         \A q \in Post : post[q] \in Quiet
    /\ job = "purged" /\ drawn[p] > 0 => reservation[p].state = "none"

WorkInv == \A c \in Claim : LeaseInv(c)
StorageInv == /\ \A c \in Claim : ChargeInv(c)
              /\ \A p \in Post : BoundInv(p)

-----------------------------------------------------------------------------
(* What the operators on records return                                    *)

LEMMA StateValues ==
    /\ Leased = {"claimed", "rendering"}
    /\ Ended = {"completed", "failed", "cancelled"}
BY DEF Leased, Ended

LEMMA TimesAreNatural ==
    /\ LeaseTime \in Nat \ {0} /\ BeatTime \in Nat \ {0} /\ GraceTime \in Nat \ {0}
    /\ RecheckTime \in Nat \ {0} /\ AdmissionTime \in Nat \ {0}
    /\ BeatTime < LeaseTime
    /\ MaxAttempts \in Nat \ {0} /\ MaxClaims \in Nat /\ MaxClaims > MaxAttempts
    /\ \A p \in Post : p \in Nat
BY RenderAssumption

LEMMA EmptyTypes ==
    NoRequest \in Request /\ NoReservation \in Reservation /\ NoWorker \in Worker
BY TimesAreNatural DEF NoRequest, NoReservation, NoWorker, Request, Reservation,
   Worker, Live

(* What claim_next returns to the worker that called it.                   *)
Claimer == [NoWorker EXCEPT !.phase = "claimed", !.beat = BeatTime]

LEMMA ClaimerType ==
    /\ Claimer \in Worker
    /\ Claimer.phase = "claimed" /\ Claimer.beat = BeatTime /\ ~Claimer.late
<1>1. /\ 0 \in 0..BeatTime /\ BeatTime \in 0..BeatTime /\ 0 \in 0..RecheckTime
      /\ "claimed" \in {"none"} \union Live
  BY TimesAreNatural DEF Live
<1>2. Claimer \in Worker
  BY <1>1, EmptyTypes DEF Claimer, Worker
<1>3. Claimer.phase = "claimed" /\ Claimer.beat = BeatTime /\ ~Claimer.late
  BY DEF Claimer, NoWorker
<1>4. QED
  BY <1>2, <1>3

LEMMA DownType ==
    ASSUME NEW m \in Nat, NEW n \in 0..m
    PROVE  Down(n) \in 0..m /\ (n > 0 => Down(n) = n - 1) /\ (n = 0 => Down(n) = 0)
BY DEF Down

(* The changes that the steps make to one request.                         *)
LEMMA RequestTypes ==
    ASSUME NEW r \in Request
    PROVE  /\ \A s \in Ended :
                [r EXCEPT !.state = s, !.lease = 0, !.left = 0] \in Request
           /\ \A s \in Leased \union {r.state} :
                [r EXCEPT !.state = s, !.left = LeaseTime] \in Request
           /\ [r EXCEPT !.cancel = TRUE] \in Request
           /\ \A n \in 1..MaxClaims :
                r.attempts < MaxAttempts =>
                  [r EXCEPT !.state = "claimed", !.attempts = @ + 1, !.lease = n,
                            !.left = LeaseTime] \in Request
           /\ [r EXCEPT !.left = Down(@)] \in Request
           /\ \A b \in BOOLEAN : [r EXCEPT !.left = 0, !.old = b] \in Request
<1>1. /\ 0 \in 0..MaxClaims /\ 0 \in 0..LeaseTime /\ LeaseTime \in 0..LeaseTime
      /\ 1..MaxClaims \subseteq 0..MaxClaims
      /\ r.attempts < MaxAttempts => r.attempts + 1 \in 0..MaxAttempts
      /\ Down(r.left) \in 0..LeaseTime
  BY TimesAreNatural, DownType DEF Request
<1>2. \A s \in Ended : [r EXCEPT !.state = s, !.lease = 0, !.left = 0] \in Request
  BY <1>1 DEF Request
<1>3. \A s \in Leased \union {r.state} :
        [r EXCEPT !.state = s, !.left = LeaseTime] \in Request
  BY <1>1 DEF Request
<1>4. [r EXCEPT !.cancel = TRUE] \in Request
  BY <1>1 DEF Request
<1>5. \A n \in 1..MaxClaims :
        r.attempts < MaxAttempts =>
          [r EXCEPT !.state = "claimed", !.attempts = @ + 1, !.lease = n,
                    !.left = LeaseTime] \in Request
  BY <1>1 DEF Request, Leased
<1> DEFINE d == Down(r.left)
<1>6. [r EXCEPT !.left = d] \in Request
  <2> HIDE DEF d
  <2>1. d \in 0..LeaseTime
    BY <1>1 DEF d
  <2>2. QED
    BY <2>1 DEF Request
<1>7. \A b \in BOOLEAN : [r EXCEPT !.left = 0, !.old = b] \in Request
  BY <1>1 DEF Request
<1>8. QED
  BY <1>2, <1>3, <1>4, <1>5, <1>6, <1>7

(* The end of a request, by whomever.                                      *)
EndedAs(r, s) == [r EXCEPT !.state = s, !.lease = 0, !.left = 0]

LEMMA EndedAsType ==
    ASSUME NEW r \in Request, NEW s \in Ended
    PROVE  /\ EndedAs(r, s) \in Request
           /\ EndedAs(r, s).state = s /\ EndedAs(r, s).attempts = r.attempts
           /\ EndedAs(r, s).old = r.old /\ EndedAs(r, s).cancel = r.cancel
<1>1. EndedAs(r, s) \in Request
  BY RequestTypes DEF EndedAs
<1>2. QED
  BY <1>1 DEF EndedAs, Request

(* The age of a request, as a week leaves it.                              *)
Aged(r, b) == [r EXCEPT !.left = 0, !.old = b]

LEMMA AgedType ==
    ASSUME NEW r \in Request, NEW b \in BOOLEAN
    PROVE  /\ Aged(r, b) \in Request
           /\ Aged(r, b).state = r.state /\ Aged(r, b).attempts = r.attempts
           /\ Aged(r, b).cancel = r.cancel /\ Aged(r, b).old = b
<1>1. Aged(r, b) \in Request
  BY RequestTypes DEF Aged
<1>2. QED
  BY <1>1 DEF Aged, Request

(* The changes that the steps make to one reservation.                     *)
LEMMA ReservationTypes ==
    ASSUME NEW r \in Reservation
    PROVE  /\ Refreshed(r) \in Reservation
           /\ Refreshed([NoReservation EXCEPT !.state = "admitting"]) \in Reservation
           /\ [r EXCEPT !.state = "bound", !.fresh = GraceTime, !.left = 0] \in Reservation
           /\ [r EXCEPT !.fresh = Down(@), !.left = Down(@)] \in Reservation
           /\ [r EXCEPT !.fresh = 0, !.left = 0] \in Reservation
<1>1. /\ 0 \in 0..GraceTime /\ GraceTime \in 0..GraceTime
      /\ 0 \in 0..AdmissionTime /\ AdmissionTime \in 0..AdmissionTime
      /\ Down(r.fresh) \in 0..GraceTime /\ Down(r.left) \in 0..AdmissionTime
  BY TimesAreNatural, DownType DEF Reservation
<1>2. ASSUME NEW q \in Reservation PROVE Refreshed(q) \in Reservation
  BY <1>1 DEF Reservation, Refreshed
<1>3. [NoReservation EXCEPT !.state = "admitting"] \in Reservation
  BY <1>1 DEF Reservation, NoReservation
<1>4. [r EXCEPT !.state = "bound", !.fresh = GraceTime, !.left = 0] \in Reservation
  BY <1>1 DEF Reservation
<1> DEFINE d == Down(r.fresh)
           e == Down(r.left)
<1>5. [r EXCEPT !.fresh = d, !.left = e] \in Reservation
  <2> HIDE DEF d, e
  <2>1. d \in 0..GraceTime /\ e \in 0..AdmissionTime
    BY <1>1 DEF d, e
  <2>2. QED
    BY <2>1 DEF Reservation
<1>6. [r EXCEPT !.fresh = 0, !.left = 0] \in Reservation
  BY <1>1 DEF Reservation
<1>7. QED
  BY <1>2, <1>3, <1>4, <1>5, <1>6

LEMMA SweptType ==
    ASSUME reservation \in [Post -> Reservation]
    PROVE  Reservations \in [Post -> Reservation]
BY EmptyTypes DEF Reservations, Swept

-----------------------------------------------------------------------------
(* Typing, and the requests agree with their POSTs: one lemma per group    *)

LEMMA FileTypes ==
    ASSUME QueueInv
    PROVE  /\ worker \in [Claim -> Worker] /\ queue \in [Post -> Request]
           /\ reservation \in [Post -> Reservation] /\ post \in [Post -> PostPhase]
BY Zenon DEF QueueInv, RenderTypeOK

LEMMA ClaimParts ==
    ASSUME NEW c \in Claim
    PROVE  c[1] \in Post /\ c[2] \in 1..MaxClaims /\ c = <<c[1], c[2]>>
BY DEF Claim

(* A step of POST p that writes no request.                                *)
LEMMA AskingKeepsRequests ==
    ASSUME QueueInv, NEW p \in Post, NEW phase \in PostPhase,
           post' = [post EXCEPT ![p] = phase], UNCHANGED <<queue, drawn, job>>,
           phase \in Early => post[p] \in Early,
           phase \in {"new", "done"} => post[p] = phase,
           post[p] \in Quiet => phase \in Quiet \/ post[p] = "new",
           NEW k \in Post
    PROVE  RequestInv(k)'
<1>1. RequestInv(k) /\ RequestInv(p)
  BY DEF QueueInv
<1>2. CASE k = p
  <2>1. post'[k] = phase
    BY <1>2 DEF QueueInv, RenderTypeOK
  <2>2. post[p] = "new" => ~queue[p].old
    BY <1>1, StateValues DEF RequestInv, Early
  <2>3. QED
    BY <1>1, <1>2, <2>1, <2>2 DEF RequestInv
<1>3. CASE k # p
  BY <1>1, <1>3 DEF RequestInv, QueueInv, RenderTypeOK
<1>4. QED
  BY <1>2, <1>3

LEMMA CreateKeepsRequests ==
    ASSUME QueueInv, NEW p \in Post, CreateRequest(p)
    PROVE  QueueInv'
<1> USE DEF QueueInv
<1>1. post[p] \in {"prepared", "instant"} /\ UNCHANGED <<asked, drawn, reservation, published, job, worker>>
  BY DEF CreateRequest
<1>2. /\ "replayed" \in PostPhase /\ "refused" \in PostPhase
      /\ Answered(p) \in PostPhase \ Early
      /\ Answered(p) = "done" <=> post[p] = "instant"
      /\ Answered(p) \notin Quiet
  BY <1>1 DEF PostPhase, Answered, Early, Quiet
<1>3. queue[p].state = "absent" /\ drawn[p] = 0 /\ ~queue[p].old
  BY <1>1, StateValues DEF RequestInv, Early
<1>4. ASSUME UNCHANGED queue, Replay(p) \/ post' = [post EXCEPT ![p] = "refused"]
      PROVE  QueueInv'
  <2>1. PICK phase \in {"replayed", "refused"} : post' = [post EXCEPT ![p] = phase]
    BY <1>4 DEF Replay
  <2>2. \A k \in Post : RequestInv(k)'
    BY <1>1, <1>2, <1>4, <2>1, AskingKeepsRequests DEF Early, Quiet
  <2>3. QED
    BY <1>1, <1>2, <1>4, <2>1, <2>2 DEF RenderTypeOK
<1>5. ASSUME NEW S \in SUBSET Post, Pruned(S), job # "purged",
             NEW kept, kept = [q \in Post |-> IF q \in S THEN NoRequest ELSE queue[q]],
             \/ queue' = kept /\ post' = [post EXCEPT ![p] = "refused"]
             \/ /\ queue' = [kept EXCEPT ![p] = Created(p)]
                /\ post' = [post EXCEPT ![p] = Answered(p)]
      PROVE  QueueInv'
  <2>1. \A q \in S : queue[q].old /\ q # p
    BY <1>3, <1>5 DEF Pruned, Prunable
  <2>2. Created(p) \in Request /\ Created(p).attempts = 0 /\ ~Created(p).cancel
        /\ Created(p).state = (IF post[p] = "instant" THEN "completed" ELSE "queued")
        /\ ~Created(p).old
    BY EmptyTypes DEF Created, NoRequest, Request, Ended
  <2>3. kept \in [Post -> Request]
    BY <1>5, EmptyTypes DEF RenderTypeOK
  <2>4. queue' \in [Post -> Request] /\ post' \in [Post -> PostPhase]
    <3>1. queue' \in [Post -> Request]
      BY <1>5, <2>2, <2>3
    <3>2. post' \in [Post -> PostPhase]
      BY <1>2, <1>5, FileTypes
    <3>3. QED
      BY <3>1, <3>2
  <2>5. RenderTypeOK'
    BY <1>1, <2>4 DEF RenderTypeOK
  <2>6. ASSUME NEW k \in Post PROVE RequestInv(k)'
    <3>1. CASE k = p
      <4>1. \/ queue'[k] = queue[k] /\ post'[k] = "refused"
            \/ queue'[k] = Created(p) /\ post'[k] = Answered(p)
        BY <1>5, <2>1, <2>3, <3>1 DEF RenderTypeOK
      <4>2. QED
        BY <1>1, <1>2, <1>3, <1>5, <2>2, <3>1, <4>1 DEF RequestInv, Quiet, Early
    <3>2. CASE k # p /\ k \in S
      <4>1. queue'[k] = NoRequest /\ post'[k] = post[k] /\ post[k] \in Quiet
        BY <1>5, <2>1, <2>3, <3>2 DEF RenderTypeOK, RequestInv
      <4>2. QED
        BY <1>1, <4>1 DEF NoRequest, RequestInv, Quiet, Early
    <3>3. CASE k # p /\ k \notin S
      <4>1. queue'[k] = queue[k] /\ post'[k] = post[k]
        BY <1>5, <2>3, <3>3 DEF RenderTypeOK
      <4>2. QED
        BY <1>1, <4>1 DEF RequestInv
    <3>4. QED
      BY <3>1, <3>2, <3>3
  <2>7. QED
    BY <2>5, <2>6
<1>6. QED
  BY <1>4, <1>5 DEF CreateRequest

LEMMA PostKeepsRequests ==
    ASSUME QueueInv, NEW p \in Post, PostStep(p)
    PROVE  QueueInv'
<1> USE DEF QueueInv
<1>0. /\ Reservations \in [Post -> Reservation] /\ reservation[p] \in Reservation
      /\ NoReservation \in Reservation
  BY SweptType, EmptyTypes DEF RenderTypeOK
<1>1. CASE CreateRequest(p)
  BY <1>1, CreateKeepsRequests
<1>2. CASE ~CreateRequest(p)
  <2>1. UNCHANGED <<asked, queue, drawn, job, worker>>
    BY <1>2 DEF PostStep, ReserveRenderStorage, CheckKey, Prepare, ReleaseUnused,
       BindRenderStorage, ReplyLost, PostDies
  <2>2. reservation' \in [Post -> Reservation] /\ published' \in SUBSET Export
    <3>1. CASE ReserveRenderStorage(p)
      BY <1>0, <3>1, ReservationTypes DEF ReserveRenderStorage, RenderTypeOK
    <3>2. CASE Prepare(p)
      BY <3>2 DEF Prepare, RenderTypeOK
    <3>3. CASE BindRenderStorage(p)
      BY <1>0, <3>3, ReservationTypes DEF BindRenderStorage, RenderTypeOK
    <3>4. CASE CheckKey(p) \/ ReleaseUnused(p) \/ ReplyLost(p) \/ PostDies(p)
      BY <1>0, <3>4 DEF CheckKey, ReleaseUnused, ReplyLost, PostDies, Dropped, RenderTypeOK
    <3>5. QED
      BY <1>2, <3>1, <3>2, <3>3, <3>4 DEF PostStep
  <2>3. PICK phase \in PostPhase :
          /\ post' = [post EXCEPT ![p] = phase]
          /\ phase \in Early => post[p] \in Early
          /\ phase \notin {"new", "done"}
          /\ post[p] \in Quiet => phase \in Quiet \/ post[p] = "new"
    BY <1>2 DEF PostStep, ReserveRenderStorage, CheckKey, Replay, Prepare, ReleaseUnused,
       BindRenderStorage, ReplyLost, PostDies, PostPhase, Early, Quiet
  <2>4. \A k \in Post : RequestInv(k)'
    BY <2>1, <2>3, AskingKeepsRequests
  <2>5. QED
    BY <2>1, <2>2, <2>3, <2>4 DEF RenderTypeOK
<1>3. QED
  BY <1>1, <1>2

LEMMA CancelKeepsRequests ==
    ASSUME QueueInv, NEW p \in Post, CancelRequest(p)
    PROVE  QueueInv'
<1> USE DEF QueueInv
<1>1. /\ queue[p] \in Request /\ RequestInv(p)
      /\ UNCHANGED <<asked, post, drawn, reservation, published, job, worker>>
  BY DEF CancelRequest, RenderTypeOK
<1>2. PICK r \in Request :
        /\ queue' = [queue EXCEPT ![p] = r]
        /\ r.attempts = queue[p].attempts /\ r.old = queue[p].old
        /\ queue[p].state \in Leased \union {"queued"}
        /\ \/ r.state = "cancelled"
           \/ r.state = queue[p].state /\ queue[p].state \in Leased
  <2>1. CASE queue[p].state = "queued" /\ queue' = [queue EXCEPT ![p] = CancelledNow(p)]
    <3>1. /\ CancelledNow(p) \in Request
          /\ CancelledNow(p).attempts = queue[p].attempts
          /\ CancelledNow(p).old = queue[p].old
          /\ CancelledNow(p).state = "cancelled"
      BY <1>1, EndedAsType, StateValues DEF CancelledNow, EndedAs
    <3>2. QED
      BY <2>1, <3>1
  <2>2. CASE queue[p].state \in Leased /\ queue' = [queue EXCEPT ![p].cancel = TRUE]
    <3> DEFINE r == [queue[p] EXCEPT !.cancel = TRUE]
    <3>1. r \in Request /\ queue' = [queue EXCEPT ![p] = r]
      BY <1>1, <2>2, RequestTypes
    <3>2. r.attempts = queue[p].attempts /\ r.old = queue[p].old /\ r.state = queue[p].state
      BY <1>1 DEF Request
    <3>3. QED
      BY <2>2, <3>1, <3>2
  <2>3. QED
    BY <2>1, <2>2 DEF CancelRequest
<1>3. RenderTypeOK'
  BY <1>1, <1>2 DEF RenderTypeOK
<1>4. ASSUME NEW k \in Post PROVE RequestInv(k)'
  <2>1. CASE k # p
    BY <1>1, <1>2, <2>1 DEF RequestInv, RenderTypeOK
  <2>2. CASE k = p
    <3>1. queue'[k] = r
      BY <1>2, <2>2 DEF RenderTypeOK
    <3>2. QED
      BY <1>1, <1>2, <2>2, <3>1, StateValues DEF RequestInv
  <2>3. QED
    BY <2>1, <2>2
<1>5. QED
  BY <1>3, <1>4

LEMMA PurgeKeepsRequests ==
    ASSUME QueueInv, PurgeJob
    PROVE  QueueInv'
<1> USE DEF QueueInv
<1>1. RenderTypeOK'
  BY EmptyTypes DEF PurgeJob, RenderTypeOK
<1>2. ASSUME NEW k \in Post PROVE RequestInv(k)'
  <2>1. queue'[k] = NoRequest /\ post' = post /\ drawn' = drawn
    BY DEF PurgeJob
  <2>2. QED
    BY <2>1 DEF RequestInv, NoRequest
<1>3. QED
  BY <1>1, <1>2

(* What the walk of claim_next ends, it ends as failed or cancelled.       *)
LEMMA GivenUpEnds ==
    ASSUME QueueInv, NEW q \in Post
    PROVE  /\ GivenUp(q) \in Request /\ GivenUp(q).state \in Ended
           /\ GivenUp(q).attempts = queue[q].attempts
           /\ GivenUp(q).old = queue[q].old
           /\ GivenUp(q).cancel = queue[q].cancel
<1>1. queue[q] \in Request
  BY DEF QueueInv, RenderTypeOK
<1>2. GivenUp(q) \in {EndedAs(queue[q], "cancelled"), EndedAs(queue[q], "failed")}
  BY DEF GivenUp, CancelledNow, EndedAs
<1>3. QED
  BY <1>1, <1>2, EndedAsType, StateValues

LEMMA GivingUpKeepsRequest ==
    ASSUME QueueInv, NEW k \in Post, Unclaimable(k), queue'[k] = GivenUp(k),
           UNCHANGED post, drawn'[k] = drawn[k], UNCHANGED job
    PROVE  RequestInv(k)'
<1>1. RequestInv(k) /\ queue[k].state \in Leased
  BY DEF QueueInv, Unclaimable, Stale
<1>2. QED
  BY <1>1, GivenUpEnds, StateValues DEF RequestInv

LEMMA ClaimedIsRequest ==
    ASSUME QueueInv, NEW p \in Post, Available(p), drawn[p] < MaxClaims
    PROVE  /\ drawn[p] + 1 \in 1..MaxClaims
           /\ drawn[p] + 1 <= MaxAttempts
           /\ Claimed(p, drawn[p] + 1) \in Request
           /\ Claimed(p, drawn[p] + 1).state = "claimed"
           /\ Claimed(p, drawn[p] + 1).attempts = drawn[p] + 1
           /\ Claimed(p, drawn[p] + 1).lease = drawn[p] + 1
           /\ Claimed(p, drawn[p] + 1).left = LeaseTime
           /\ Claimed(p, drawn[p] + 1).old = queue[p].old
           /\ Claimed(p, drawn[p] + 1).cancel = queue[p].cancel
           /\ ~queue[p].cancel /\ queue[p].state \in Leased \union {"queued"}
<1>1. queue[p] \in Request /\ drawn[p] \in Nat /\ RequestInv(p) /\ queue[p].attempts \in Nat
  BY TimesAreNatural DEF QueueInv, RenderTypeOK, Request
<1>2. /\ queue[p].attempts < MaxAttempts /\ queue[p].attempts = drawn[p]
      /\ ~queue[p].cancel /\ queue[p].state \in Leased \union {"queued"}
  BY <1>1, TimesAreNatural, StateValues DEF Available, Stale, RequestInv
<1>3. drawn[p] + 1 \in 1..MaxClaims /\ drawn[p] + 1 <= MaxAttempts
  BY <1>1, <1>2, TimesAreNatural
<1> DEFINE n == drawn[p] + 1
<1> HIDE DEF n
<1>4. n \in 1..MaxClaims
  BY <1>3 DEF n
<1>5. /\ Claimed(p, n) \in Request /\ Claimed(p, n).state = "claimed"
      /\ Claimed(p, n).attempts = queue[p].attempts + 1
      /\ Claimed(p, n).lease = n /\ Claimed(p, n).left = LeaseTime
      /\ Claimed(p, n).old = queue[p].old /\ Claimed(p, n).cancel = queue[p].cancel
  <2>1. Claimed(p, n) \in Request
    BY <1>1, <1>2, <1>4, RequestTypes DEF Claimed
  <2>2. QED
    BY <1>1, <2>1 DEF Claimed, Request
<1>6. QED
  BY <1>2, <1>3, <1>5 DEF n

LEMMA ClaimNextKeepsRequests ==
    ASSUME QueueInv, NEW p \in Post, ClaimNext(p)
    PROVE  QueueInv'
<1> USE DEF QueueInv
<1> DEFINE n == drawn[p] + 1
<1>1. /\ Available(p) /\ drawn[p] < MaxClaims
      /\ queue' = [q \in Post |-> IF q = p THEN Claimed(p, n)
                                  ELSE IF q < p /\ Unclaimable(q) THEN GivenUp(q)
                                  ELSE queue[q]]
      /\ drawn' = [drawn EXCEPT ![p] = n]
      /\ worker' = [worker EXCEPT ![<<p, n>>] =
                      [NoWorker EXCEPT !.phase = "claimed", !.beat = BeatTime]]
      /\ UNCHANGED <<asked, post, reservation, published, job>>
  BY DEF ClaimNext
<1>2. /\ n \in 1..MaxClaims /\ n <= MaxAttempts
      /\ Claimed(p, n) \in Request /\ Claimed(p, n).state = "claimed"
      /\ Claimed(p, n).attempts = n /\ Claimed(p, n).old = queue[p].old
      /\ queue[p].state \in Leased \union {"queued"}
  BY <1>1, ClaimedIsRequest
<1> HIDE DEF n
<1>3. [NoWorker EXCEPT !.phase = "claimed", !.beat = BeatTime] \in Worker
  BY ClaimerType DEF Claimer
<1>4. \A q \in Post : queue'[q] \in Request
  BY <1>1, <1>2, GivenUpEnds DEF RenderTypeOK
<1>5. RenderTypeOK'
  <2>1. drawn' \in [Post -> 0..MaxAttempts]
    BY <1>1, <1>2, TimesAreNatural DEF RenderTypeOK
  <2>2. worker' \in [Claim -> Worker]
    BY <1>1, <1>3 DEF RenderTypeOK
  <2>3. queue' \in [Post -> Request]
    BY <1>1, <1>4
  <2>4. QED
    BY <1>1, <2>1, <2>2, <2>3 DEF RenderTypeOK
<1>6. ASSUME NEW k \in Post PROVE RequestInv(k)'
  <2>1. CASE k = p
    <3>1. queue'[k] = Claimed(p, n) /\ drawn'[k] = n
      BY <1>1, <2>1 DEF RenderTypeOK
    <3>2. QED
      BY <1>1, <1>2, <2>1, <3>1, StateValues DEF RequestInv
  <2>2. CASE k # p /\ k < p /\ Unclaimable(k)
    BY <1>1, <2>2, GivingUpKeepsRequest DEF RenderTypeOK
  <2>3. CASE k # p /\ ~(k < p /\ Unclaimable(k))
    <3>1. queue'[k] = queue[k] /\ drawn'[k] = drawn[k]
      BY <1>1, <2>3 DEF RenderTypeOK
    <3>2. QED
      BY <1>1, <3>1 DEF RequestInv
  <2>4. QED
    BY <2>1, <2>2, <2>3
<1>7. QED
  BY <1>5, <1>6

LEMMA ClaimNothingKeepsRequests ==
    ASSUME QueueInv, NEW m \in Post, ClaimNothing(m)
    PROVE  QueueInv'
<1> USE DEF QueueInv
<1>1. /\ queue' = [q \in Post |-> IF q <= m /\ Unclaimable(q) THEN GivenUp(q)
                                                             ELSE queue[q]]
      /\ UNCHANGED <<asked, post, drawn, reservation, published, job, worker>>
  BY DEF ClaimNothing
<1>2. RenderTypeOK'
  <2>1. \A q \in Post : queue'[q] \in Request
    BY <1>1, GivenUpEnds DEF RenderTypeOK
  <2>2. QED
    BY <1>1, <2>1 DEF RenderTypeOK
<1>3. ASSUME NEW k \in Post PROVE RequestInv(k)'
  <2>1. CASE k <= m /\ Unclaimable(k)
    BY <1>1, <2>1, GivingUpKeepsRequest
  <2>2. CASE ~(k <= m /\ Unclaimable(k))
    BY <1>1, <2>2 DEF RequestInv
  <2>3. QED
    BY <2>1, <2>2
<1>4. QED
  BY <1>2, <1>3
(* What a worker's step does to the requests: nothing, unless it holds the *)
(* one that it works on.                                                   *)
LEMMA WorkerHoldsWhatItWrites ==
    ASSUME QueueInv, NEW c \in Claim, WorkerStep(c)
    PROVE  /\ UNCHANGED <<asked, post, drawn, job>>
           /\ \/ UNCHANGED queue
              \/ /\ Holds(c, Leased)
                 /\ \E r \in Request :
                      /\ queue' = [queue EXCEPT ![c[1]] = r]
                      /\ r.state \in Leased \union Ended
                      /\ r.attempts = queue[c[1]].attempts
                      /\ r.old = queue[c[1]].old /\ r.cancel = queue[c[1]].cancel
<1> DEFINE q == queue[c[1]]
<1>0. c[1] \in Post /\ q \in Request
  BY DEF QueueInv, RenderTypeOK, Claim
<1>1. UNCHANGED <<asked, post, drawn, job>>
  BY DEF WorkerStep, CheckStorage, StorageRefused, StartRendering, Heartbeat,
     SeesCancel, Publish, RenderFails, Complete, Fail, ReleaseRenderStorage, WorkerDies
<1>2. ASSUME NEW s \in Leased \union {q.state}, Holds(c, Leased),
             queue' = [queue EXCEPT ![c[1]].state = s, ![c[1]].left = LeaseTime]
      PROVE  \E r \in Request :
               /\ queue' = [queue EXCEPT ![c[1]] = r]
               /\ r.state \in Leased \union Ended /\ r.attempts = q.attempts
               /\ r.old = q.old /\ r.cancel = q.cancel
  <2> DEFINE r == [q EXCEPT !.state = s, !.left = LeaseTime]
  <2>1. r \in Request
    BY <1>0, RequestTypes
  <2>2. r.state = s /\ r.attempts = q.attempts /\ r.old = q.old /\ r.cancel = q.cancel
    BY <1>0, <2>1 DEF Request
  <2>3. queue' = [queue EXCEPT ![c[1]] = r]
    BY <1>0, <1>2 DEF QueueInv, RenderTypeOK
  <2>4. s \in Leased
    BY <1>2 DEF Holds
  <2>5. QED
    BY <2>1, <2>2, <2>3, <2>4
<1>3. ASSUME NEW s \in Ended,
             queue' = [queue EXCEPT ![c[1]].state = s, ![c[1]].lease = 0,
                                    ![c[1]].left = 0]
      PROVE  \E r \in Request :
               /\ queue' = [queue EXCEPT ![c[1]] = r]
               /\ r.state \in Leased \union Ended /\ r.attempts = q.attempts
               /\ r.old = q.old /\ r.cancel = q.cancel
  <2>1. queue' = [queue EXCEPT ![c[1]] = EndedAs(q, s)]
    BY <1>0, <1>3, FileTypes DEF EndedAs
  <2>2. QED
    BY <1>0, <2>1, EndedAsType
<1>4. CASE StartRendering(c)
  BY <1>1, <1>2, <1>4, StateValues DEF StartRendering, Holds
<1>5. CASE Heartbeat(c)
  <2>1. CASE UNCHANGED queue
    BY <1>1, <2>1
  <2>2. CASE Holds(c, Leased) /\ queue' = [queue EXCEPT ![c[1]].left = LeaseTime]
    <3>1. queue' = [queue EXCEPT ![c[1]].state = q.state, ![c[1]].left = LeaseTime]
      BY <1>0, <2>2 DEF QueueInv, RenderTypeOK, Request
    <3>2. QED
      BY <1>1, <1>2, <2>2, <3>1
  <2>3. QED
    BY <1>5, <2>1, <2>2 DEF Heartbeat
<1>6. CASE Complete(c)
  BY <1>1, <1>3, <1>6, StateValues DEF Complete, Holds
<1>7. CASE Fail(c)
  BY <1>1, <1>3, <1>7, StateValues DEF Fail
<1>8. CASE ~(StartRendering(c) \/ Heartbeat(c) \/ Complete(c) \/ Fail(c))
  <2>1. UNCHANGED queue
    BY <1>8 DEF WorkerStep, CheckStorage, StorageRefused, SeesCancel, Publish,
       RenderFails, ReleaseRenderStorage, WorkerDies
  <2>2. QED
    BY <1>1, <2>1
<1>9. QED
  BY <1>4, <1>5, <1>6, <1>7, <1>8

LEMMA WorkerTypes ==
    ASSUME NEW w \in Worker
    PROVE  /\ \A phase \in Live : [w EXCEPT !.phase = phase] \in Worker
           /\ \A phase \in Live, t \in 0..RecheckTime :
                [w EXCEPT !.recheck = t, !.phase = phase] \in Worker
           /\ \A phase \in Live, t \in 0..BeatTime :
                [w EXCEPT !.phase = phase, !.beat = t] \in Worker
           /\ \A t \in 0..BeatTime : [w EXCEPT !.beat = t] \in Worker
BY DEF Worker

(* What a worker's step does to the workers: it writes one of them.        *)
LEMMA WorkerWritesItself ==
    ASSUME worker \in [Claim -> Worker], NEW c \in Claim, WorkerStep(c)
    PROVE  worker' \in [Claim -> Worker]
<1>0. /\ worker[c] \in Worker /\ NoWorker \in Worker
      /\ Armed(c, RecheckTime) \in 0..RecheckTime /\ Armed(c, BeatTime) \in 0..BeatTime
  BY EmptyTypes, TimesAreNatural DEF Armed
<1>1. CASE CheckStorage(c)
  <2> DEFINE phase == CASE worker[c].phase = "claimed" -> "checked"
                        [] worker[c].phase = "rendered" -> "rechecked"
                        [] OTHER -> worker[c].phase
             t == Armed(c, RecheckTime)
             w == [worker[c] EXCEPT !.recheck = t, !.phase = phase]
  <2>1. phase \in Live /\ t \in 0..RecheckTime
    BY <1>0, <1>1 DEF CheckStorage, HasPhase, Live, Writing
  <2>2. worker' = [worker EXCEPT ![c].recheck = t,
                                 ![c].phase = CASE @ = "claimed" -> "checked"
                                                [] @ = "rendered" -> "rechecked"
                                                [] OTHER -> @]
    BY <1>1 DEF CheckStorage
  <2>3. worker' = [worker EXCEPT ![c] = w]
    <3> HIDE DEF t
    <3>1. QED
      BY <1>0, <2>2 DEF Worker
  <2>4. w \in Worker
    <3> HIDE DEF t, phase
    <3>1. QED
      BY <1>0, <2>1, WorkerTypes
  <2> HIDE DEF w
  <2>5. QED
    BY <2>3, <2>4
<1>2. CASE StartRendering(c)
  <2>1. PICK phase \in Live, t \in 0..BeatTime :
          \/ worker' = [worker EXCEPT ![c].phase = phase, ![c].beat = t]
          \/ worker' = [worker EXCEPT ![c].phase = phase]
    BY <1>0, <1>2 DEF StartRendering, Enters, Live, Writing
  <2>2. PICK w \in Worker : worker' = [worker EXCEPT ![c] = w]
    <3>1. \/ worker' = [worker EXCEPT ![c] = [worker[c] EXCEPT !.phase = phase, !.beat = t]]
          \/ worker' = [worker EXCEPT ![c] = [worker[c] EXCEPT !.phase = phase]]
      BY <1>0, <2>1
    <3>2. QED
      BY <1>0, <3>1, WorkerTypes
  <2>3. QED
    BY <2>2
<1>3. CASE Heartbeat(c)
  <2>1. PICK phase \in Live, t \in 0..BeatTime :
          \/ worker' = [worker EXCEPT ![c].beat = t]
          \/ worker' = [worker EXCEPT ![c].phase = phase]
    BY <1>0, <1>3 DEF Heartbeat, Enters, Live
  <2>2. PICK w \in Worker : worker' = [worker EXCEPT ![c] = w]
    BY <1>0, <2>1, WorkerTypes
  <2>3. QED
    BY <2>2
<1>4. CASE ~(CheckStorage(c) \/ StartRendering(c) \/ Heartbeat(c))
  <2>1. \/ worker' = [worker EXCEPT ![c] = NoWorker]
        \/ \E phase \in Live : worker' = [worker EXCEPT ![c].phase = phase]
    BY <1>4 DEF WorkerStep, StorageRefused, SeesCancel, Publish, RenderFails, Complete,
       Fail, ReleaseRenderStorage, WorkerDies, Enters, Live, Writing
  <2>2. PICK w \in Worker : worker' = [worker EXCEPT ![c] = w]
    BY <1>0, <2>1, WorkerTypes
  <2>3. QED
    BY <2>2
<1>5. QED
  BY <1>1, <1>2, <1>3, <1>4

LEMMA WorkerKeepsRequests ==
    ASSUME QueueInv, NEW c \in Claim, WorkerStep(c)
    PROVE  QueueInv'
<1> USE DEF QueueInv
<1>0. /\ c[1] \in Post
      /\ Reservations \in [Post -> Reservation] /\ NoReservation \in Reservation
      /\ asked[c[1]].export \in Export
  BY SweptType, EmptyTypes DEF RenderTypeOK, Claim
<1>1. UNCHANGED <<asked, post, drawn, job>>
  BY WorkerHoldsWhatItWrites
<1>2. worker' \in [Claim -> Worker]
  BY WorkerWritesItself DEF RenderTypeOK
<1>3. reservation' \in [Post -> Reservation] /\ published' \in SUBSET Export
  <2>1. CASE CheckStorage(c)
    <3>1. Refreshed(Reservations[c[1]]) \in Reservation
      BY <1>0, ReservationTypes
    <3>2. QED
      BY <1>0, <2>1, <3>1 DEF CheckStorage, RenderTypeOK
  <2>2. CASE ~CheckStorage(c)
    BY <1>0, <2>2 DEF WorkerStep, StorageRefused, StartRendering, Heartbeat, SeesCancel,
       Publish, RenderFails, Complete, Fail, ReleaseRenderStorage, WorkerDies, Dropped,
       RenderTypeOK
  <2>3. QED
    BY <2>1, <2>2
<1>4. queue' \in [Post -> Request]
  BY <1>0, WorkerHoldsWhatItWrites DEF RenderTypeOK
<1>5. RenderTypeOK'
  BY <1>1, <1>2, <1>3, <1>4 DEF RenderTypeOK
<1>6. ASSUME NEW k \in Post PROVE RequestInv(k)'
  <2>1. CASE queue'[k] = queue[k]
    BY <1>1, <2>1 DEF RequestInv
  <2>2. CASE queue'[k] # queue[k]
    <3>1. k = c[1] /\ Holds(c, Leased)
      BY <1>0, <2>2, WorkerHoldsWhatItWrites DEF RenderTypeOK
    <3>2. /\ queue'[k].state \in Leased \union Ended
          /\ queue'[k].attempts = queue[k].attempts
          /\ queue'[k].old = queue[k].old
      BY <1>0, <2>2, <3>1, WorkerHoldsWhatItWrites, FileTypes
    <3>3. QED
      BY <1>1, <3>1, <3>2, StateValues DEF RequestInv, Holds
  <2>3. QED
    BY <2>1, <2>2
<1>7. QED
  BY <1>5, <1>6

LEMMA TimeWritesWorkers ==
    ASSUME worker \in [Claim -> Worker], Tick \/ WeekPasses
    PROVE  worker' \in [Claim -> Worker]
<1>1. CASE Tick
  <2>1. ASSUME NEW c \in Claim PROVE worker'[c] \in Worker
    <3>1. /\ worker[c] \in Worker /\ 0 \in 0..BeatTime /\ 0 \in 0..RecheckTime
          /\ Down(worker[c].beat) \in 0..BeatTime
          /\ Down(worker[c].recheck) \in 0..RecheckTime
      BY TimesAreNatural, DownType DEF Worker
    <3> DEFINE d == Down(worker[c].beat)
               e == Down(worker[c].recheck)
    <3>2. worker'[c] = IF Due(c) THEN [worker[c] EXCEPT !.beat = 0, !.recheck = 0,
                                                        !.late = TRUE]
                       ELSE [worker[c] EXCEPT !.beat = d, !.recheck = e]
      BY <1>1 DEF Tick
    <3> HIDE DEF d, e
    <3>3. d \in 0..BeatTime /\ e \in 0..RecheckTime
      BY <3>1 DEF d, e
    <3>4. QED
      BY <3>1, <3>2, <3>3 DEF Worker
  <2>2. QED
    BY <1>1, <2>1 DEF Tick
<1>2. CASE WeekPasses
  BY <1>2 DEF WeekPasses
<1>3. QED
  BY <1>1, <1>2

LEMMA TimeKeepsRequests ==
    ASSUME QueueInv, Tick \/ WeekPasses
    PROVE  QueueInv'
<1> USE DEF QueueInv
<1>0. \A p \in Post : queue[p] \in Request /\ reservation[p] \in Reservation
  BY FileTypes
<1>1. UNCHANGED <<asked, post, drawn, published, job>>
  BY DEF Tick, WeekPasses
<1>2. \A p \in Post :
        /\ queue'[p] \in Request
        /\ queue'[p].state = queue[p].state /\ queue'[p].attempts = queue[p].attempts
        /\ queue'[p].cancel = queue[p].cancel
        /\ queue'[p].old =>
             \/ queue[p].old
             \/ queue[p].state \in Ended /\ post[p] \in Quiet
  <2>1. CASE Tick
    <3>1. TAKE p \in Post
    <3>2. queue'[p] = [queue[p] EXCEPT !.left = Down(@)]
      BY <2>1 DEF Tick
    <3>3. queue'[p] \in Request
      BY <1>0, <3>2, RequestTypes
    <3>4. QED
      BY <1>0, <3>2, <3>3 DEF Request
  <2>2. CASE WeekPasses
    <3>1. TAKE p \in Post
    <3> DEFINE b == p \in Terminal
    <3>2. queue'[p] = Aged(queue[p], b)
      BY <2>2 DEF WeekPasses, Aged
    <3>3. b \in BOOLEAN /\ (b => queue[p].state \in Ended)
      BY DEF Terminal
    <3> HIDE DEF b
    <3>4. queue'[p] \in Request
      BY <1>0, <3>2, <3>3, AgedType
    <3>5. queue'[p].state = queue[p].state /\ queue'[p].attempts = queue[p].attempts
          /\ queue'[p].cancel = queue[p].cancel /\ queue'[p].old = b
      BY <1>0, <3>2, <3>3, AgedType
    <3>6. post[p] \in Quiet
      <4>1. \A q \in Post : post[q] \in {"new", "lost", "ended"}
        BY <2>2 DEF WeekPasses
      <4>2. QED
        BY <4>1 DEF Quiet
    <3>7. QED
      BY <3>3, <3>4, <3>5, <3>6
  <2>3. QED
    BY <2>1, <2>2
<1>3. queue' \in [Post -> Request]
  BY <1>2 DEF Tick, WeekPasses
<1>4. reservation' \in [Post -> Reservation]
  <2>1. CASE Tick
    <3>1. reservation' = [p \in Post |-> [reservation[p] EXCEPT !.fresh = Down(@),
                                                               !.left = Down(@)]]
      BY <2>1 DEF Tick
    <3>2. QED
      BY <1>0, <3>1, ReservationTypes
  <2>2. CASE WeekPasses
    <3>1. reservation' = [p \in Post |-> [reservation[p] EXCEPT !.fresh = 0, !.left = 0]]
      BY <2>2 DEF WeekPasses
    <3>2. QED
      BY <1>0, <3>1, ReservationTypes
  <2>3. QED
    BY <2>1, <2>2
<1>5. worker' \in [Claim -> Worker]
  BY TimeWritesWorkers DEF RenderTypeOK
<1>6. RenderTypeOK'
  BY <1>1, <1>3, <1>4, <1>5 DEF RenderTypeOK
<1>7. \A k \in Post : RequestInv(k)'
  BY <1>1, <1>2 DEF RequestInv
<1>8. QED
  BY <1>6, <1>7

LEMMA QueueInvInductive ==
    /\ RenderInit => QueueInv
    /\ QueueInv /\ [RenderNext]_renderVars => QueueInv'
<1>1. RenderInit => QueueInv
  <2> SUFFICES ASSUME RenderInit PROVE QueueInv
    OBVIOUS
  <2>1. RenderTypeOK
    BY EmptyTypes, TimesAreNatural DEF RenderInit, RenderTypeOK, PostPhase
  <2>2. ASSUME NEW p \in Post PROVE RequestInv(p)
    BY <2>1 DEF RenderInit, RequestInv, NoRequest
  <2>3. QED
    BY <2>1, <2>2 DEF QueueInv
<1>2. ASSUME QueueInv, [RenderNext]_renderVars PROVE QueueInv'
  <2>1. CASE UNCHANGED renderVars
    BY <1>2, <2>1 DEF QueueInv, RenderTypeOK, RequestInv, renderVars
  <2>2. CASE RenderNext
    BY <1>2, <2>2, PostKeepsRequests, CancelKeepsRequests, PurgeKeepsRequests,
       ClaimNextKeepsRequests, ClaimNothingKeepsRequests, WorkerKeepsRequests,
       TimeKeepsRequests DEF RenderNext, ClaimStep
  <2>3. QED
    BY <1>2, <2>1, <2>2
<1>3. QED
  BY <1>1, <1>2

(* The types of the requests, the reservations and the workers; no request *)
(* is drawn more than MAX_ATTEMPTS times, whatever its workers do          *)
(* (claim_next of render_queue.py).                                        *)
THEOREM RenderTypeCorrect == RenderSpec => []RenderTypeOK
<1>1. QueueInv => RenderTypeOK
  BY DEF QueueInv
<1>2. QED
  BY <1>1, QueueInvInductive, PTL DEF RenderSpec
-----------------------------------------------------------------------------
(* What becomes of one request in a step                                   *)

LEMMA AskedIsConstant ==
    ASSUME [RenderNext]_renderVars
    PROVE  UNCHANGED asked
<1>1. ASSUME NEW p \in Post, PostStep(p) PROVE UNCHANGED asked
  BY <1>1 DEF PostStep, ReserveRenderStorage, CheckKey, Prepare, CreateRequest,
     ReleaseUnused, BindRenderStorage, ReplyLost, PostDies
<1>2. ASSUME NEW p \in Post, CancelRequest(p) PROVE UNCHANGED asked
  BY <1>2 DEF CancelRequest
<1>3. ASSUME NEW c \in Claim, WorkerStep(c) PROVE UNCHANGED asked
  BY <1>3 DEF WorkerStep, CheckStorage, StorageRefused, StartRendering, Heartbeat,
     SeesCancel, Publish, RenderFails, Complete, Fail, ReleaseRenderStorage, WorkerDies
<1>4. ASSUME NEW p \in Post, ClaimNext(p) \/ ClaimNothing(p) PROVE UNCHANGED asked
  BY <1>4 DEF ClaimNext, ClaimNothing
<1>5. ASSUME PurgeJob \/ Tick \/ WeekPasses PROVE UNCHANGED asked
  BY <1>5 DEF PurgeJob, Tick, WeekPasses
<1>6. QED
  BY <1>1, <1>2, <1>3, <1>4, <1>5 DEF RenderNext, ClaimStep, renderVars

(* A creation writes the request of its POST, if the key is not answered   *)
(* by another; what else it does to the queue is pruning.                  *)
LEMMA CreationPrunes ==
    ASSUME QueueInv, NEW p \in Post, CreateRequest(p), NEW k \in Post,
           queue'[k] # queue[k]
    PROVE  \/ k \in Prunable /\ k # p /\ queue'[k] = NoRequest
           \/ k = p /\ queue[p].state = "absent" /\ Replayed(p) = {}
                /\ queue'[p] = Created(p) /\ post' = [post EXCEPT ![p] = Answered(p)]
                /\ job # "purged"
<1>1. queue \in [Post -> Request] /\ queue[p].state = "absent"
  BY DEF QueueInv, RenderTypeOK, RequestInv, CreateRequest, Early
<1>2. p \notin Prunable
  BY <1>1, StateValues DEF Prunable, Terminal
<1>3. PICK S \in SUBSET Post :
        /\ S \subseteq Prunable /\ Replayed(p) = {} /\ job # "purged"
        /\ \/ queue' = [q \in Post |-> IF q \in S THEN NoRequest ELSE queue[q]]
           \/ /\ queue' = [[q \in Post |-> IF q \in S THEN NoRequest ELSE queue[q]]
                             EXCEPT ![p] = Created(p)]
              /\ post' = [post EXCEPT ![p] = Answered(p)]
  BY DEF CreateRequest, Pruned
<1> DEFINE kept == [q \in Post |-> IF q \in S THEN NoRequest ELSE queue[q]]
<1>4. kept[k] = (IF k \in S THEN NoRequest ELSE queue[k]) /\ DOMAIN kept = Post
  OBVIOUS
<1> HIDE DEF kept
<1>5. CASE queue' = kept
  BY <1>2, <1>3, <1>4, <1>5
<1>6. CASE queue' = [kept EXCEPT ![p] = Created(p)]
              /\ post' = [post EXCEPT ![p] = Answered(p)]
  BY <1>1, <1>2, <1>3, <1>4, <1>6
<1>7. QED
  BY <1>3, <1>5, <1>6 DEF kept

(* A request appears by its creation only, ends once, and is drawn once    *)
(* more only when nobody cancelled it.                                     *)
LEMMA RequestCourse ==
    ASSUME QueueInv, [RenderNext]_renderVars, NEW k \in Post
    PROVE  /\ k \in Terminal => queue'[k].state \in {queue[k].state, "absent"}
           /\ queue[k].cancel => drawn'[k] = drawn[k]
           /\ k \notin Present /\ queue'[k].state # "absent" => CreateRequest(k)
<1> DEFINE Course == /\ k \in Terminal => queue'[k].state \in {queue[k].state, "absent"}
                     /\ queue[k].cancel => drawn'[k] = drawn[k]
                     /\ k \notin Present /\ queue'[k].state # "absent" => CreateRequest(k)
<1>0. queue[k] \in Request /\ RequestInv(k) /\ drawn \in [Post -> 0..MaxAttempts]
  BY DEF QueueInv, RenderTypeOK
<1>1. ASSUME UNCHANGED <<queue, drawn>> PROVE Course
  BY <1>1 DEF Present
<1>2. ASSUME NEW p \in Post, PostStep(p) PROVE Course
  <2>1. CASE ~CreateRequest(p)
    BY <1>1, <1>2, <2>1 DEF PostStep, ReserveRenderStorage, CheckKey, Prepare,
       ReleaseUnused, BindRenderStorage, ReplyLost, PostDies
  <2>2. CASE CreateRequest(p) /\ queue'[k] = queue[k]
    BY <2>2 DEF CreateRequest, Present
  <2>3. CASE CreateRequest(p) /\ queue'[k] # queue[k]
    <3>1. \/ k \in Prunable /\ queue'[k] = NoRequest
          \/ k = p /\ queue[k].state = "absent"
      BY <2>3, CreationPrunes
    <3>2. drawn' = drawn
      BY <2>3 DEF CreateRequest
    <3>3. QED
      BY <2>3, <3>1, <3>2, StateValues DEF NoRequest, Terminal, Present
  <2>4. QED
    BY <2>1, <2>2, <2>3
<1>3. ASSUME NEW p \in Post, CancelRequest(p) PROVE Course
  <2>1. drawn' = drawn /\ queue[p].state \in Leased \union {"queued"}
    BY <1>3 DEF CancelRequest
  <2>2. k # p => queue'[k] = queue[k]
    BY <1>3 DEF CancelRequest, QueueInv, RenderTypeOK
  <2>3. QED
    BY <2>1, <2>2, StateValues DEF Terminal, Present
<1>4. CASE PurgeJob
  BY <1>4 DEF PurgeJob, NoRequest
<1>5. ASSUME NEW p \in Post, ClaimNext(p) PROVE Course
  <2>1. /\ queue[p].state \in Leased \union {"queued"} /\ ~queue[p].cancel
    BY <1>5, ClaimedIsRequest DEF ClaimNext
  <2>2. k # p => /\ drawn'[k] = drawn[k]
                 /\ queue'[k] = queue[k] \/ queue[k].state \in Leased
    BY <1>0, <1>5 DEF ClaimNext, Unclaimable, Stale
  <2>3. QED
    BY <2>1, <2>2, StateValues DEF Terminal, Present
<1>6. ASSUME NEW m \in Post, ClaimNothing(m) PROVE Course
  <2>1. drawn' = drawn /\ (queue'[k] = queue[k] \/ queue[k].state \in Leased)
    BY <1>6 DEF ClaimNothing, Unclaimable, Stale
  <2>2. QED
    BY <2>1, StateValues DEF Terminal, Present
<1>7. ASSUME NEW c \in Claim, WorkerStep(c) PROVE Course
  <2>1. c[1] \in Post
    BY DEF Claim
  <2>2. drawn' = drawn /\ (queue'[k] = queue[k] \/ queue[k].state \in Leased)
    BY <1>7, <2>1, WorkerHoldsWhatItWrites DEF Holds, QueueInv, RenderTypeOK
  <2>3. QED
    BY <2>2, StateValues DEF Terminal, Present
<1>8. CASE Tick \/ WeekPasses
  <2>1. drawn' = drawn /\ queue'[k].state = queue[k].state
    <3>1. CASE Tick
      <4>1. queue'[k] = [queue[k] EXCEPT !.left = Down(queue[k].left)] /\ drawn' = drawn
        BY <3>1 DEF Tick
      <4>2. QED
        BY <1>0, <4>1 DEF Request
    <3>2. CASE WeekPasses
      <4>1. queue'[k] = [queue[k] EXCEPT !.left = 0, !.old = k \in Terminal]
            /\ drawn' = drawn
        BY <3>2 DEF WeekPasses
      <4>2. QED
        BY <1>0, <4>1 DEF Request
    <3>3. QED
      BY <1>8, <3>1, <3>2
  <2>2. QED
    BY <2>1 DEF Present
<1>9. Course
  BY <1>1, <1>2, <1>3, <1>4, <1>5, <1>6, <1>7, <1>8 DEF RenderNext, ClaimStep, renderVars
<1>10. QED
  BY <1>9

LEMMA OneRequestInductive ==
    ASSUME QueueInv, OneRequestPerKey, [RenderNext]_renderVars
    PROVE  OneRequestPerKey'
<1>1. ASSUME NEW p \in Present', NEW q \in Present', asked[p].key = asked[q].key,
             p # q, q \notin Present
      PROVE  FALSE
  <2>1. p \in Post /\ q \in Post /\ queue'[p].state # "absent"
        /\ queue[q].state = "absent" /\ queue'[q].state # "absent"
    BY <1>1 DEF Present
  <2>2. CreateRequest(q)
    BY <1>1, <2>1, RequestCourse
  <2>3. queue'[p] = queue[p]
    BY <1>1, <2>1, <2>2, CreationPrunes DEF NoRequest
  <2>4. Replayed(q) = {}
    BY <2>1, <2>2, CreationPrunes, StateValues DEF Prunable, Terminal
  <2>5. p \in Replayed(q)
    BY <1>1, <2>1, <2>3 DEF Replayed, Present
  <2>6. QED
    BY <2>4, <2>5
<1>2. UNCHANGED asked
  BY AskedIsConstant
<1>3. QED
  BY <1>1, <1>2 DEF OneRequestPerKey

(* However the POSTs interleave around the preparation that no lock covers *)
(* (create_request_v3 looks for the key before and after it), the queue    *)
(* holds one request for an idempotency key: for any number of POSTs, keys *)
(* and workers, whoever dies, and however often requests are pruned.       *)
THEOREM OneRequestForEachKey == RenderSpec => []OneRequestPerKey
<1>1. RenderInit => OneRequestPerKey
  BY DEF RenderInit, OneRequestPerKey, Present, NoRequest
<1>2. QueueInv /\ OneRequestPerKey /\ [RenderNext]_renderVars => OneRequestPerKey'
  BY OneRequestInductive
<1>3. QED
  BY <1>1, <1>2, QueueInvInductive, PTL DEF RenderSpec

(* An export that ended does not end otherwise or come back until it is    *)
(* pruned or purged, and one that is cancelled is not drawn again: no late *)
(* cancellation, no late worker, no walk of another worker does it         *)
(* (_v3_leased, cancel_request_v3, claim_next).                            *)
THEOREM EndedStaysEnded == RenderSpec => EndedIsFinal
<1>1. QueueInv /\ [RenderNext]_renderVars =>
        [/\ \A p \in Terminal : queue'[p].state \in {queue[p].state, "absent"}
         /\ \A p \in Post : queue[p].cancel => drawn'[p] = drawn[p]]_renderVars
  BY RequestCourse DEF Terminal
<1>2. QED
  BY <1>1, QueueInvInductive, PTL DEF RenderSpec, EndedIsFinal
-----------------------------------------------------------------------------
(* A worker in time keeps its lease                                        *)

LEMMA PhaseGroups ==
    /\ Beating \subseteq Live /\ Writing \subseteq Live
    /\ "none" \notin Live /\ "settled" \notin Beating \union Writing
    /\ "failing" \notin Beating \union Writing
    /\ "cancelling" \notin Beating \union Writing
BY DEF Beating, Writing, Live

(* What the lease says of a claim, unfolded.                               *)
LEMMA LeaseFacts ==
    ASSUME QueueInv, NEW c \in Claim
    PROVE  /\ worker[c] \in Worker /\ queue[c[1]] \in Request
           /\ worker[c].beat \in 0..BeatTime /\ worker[c].late \in BOOLEAN
           /\ queue[c[1]].left \in 0..LeaseTime
           /\ drawn[c[1]] \in 0..MaxAttempts
BY ClaimParts DEF QueueInv, RenderTypeOK, Worker, Request

(* A step that leaves the claim's worker alone, and its request as well,   *)
(* or a request that the worker in time does not hold.                     *)
LEMMA LeaseUndisturbed ==
    ASSUME QueueInv, NEW c \in Claim, LeaseInv(c), worker'[c] = worker[c],
           drawn'[c[1]] = drawn[c[1]] \/ drawn'[c[1]] = drawn[c[1]] + 1,
           job' = "kept" => job = "kept",
           \/ /\ queue'[c[1]].state = queue[c[1]].state
              /\ queue'[c[1]].lease = queue[c[1]].lease
              /\ queue'[c[1]].left = queue[c[1]].left
           \/ /\ ~(Holds(c, Leased) /\ queue[c[1]].left > 0)
              /\ HasPhase(c, {"settled"}) =>
                   queue'[c[1]].state \in Ended \union {"absent"}
    PROVE  LeaseInv(c)'
<1>1. /\ worker[c].beat \in 0..BeatTime /\ drawn[c[1]] \in 0..MaxAttempts
      /\ c[2] \in 1..MaxClaims
  BY LeaseFacts, ClaimParts
<1>2. /\ HasPhase(c, Live)' = HasPhase(c, Live)
      /\ HasPhase(c, {"settled"})' = HasPhase(c, {"settled"})
      /\ HasPhase(c, Beating)' = HasPhase(c, Beating)
  BY DEF HasPhase
<1>3. (HasPhase(c, Live) => c[2] <= drawn[c[1]])'
  BY <1>1, <1>2, TimesAreNatural DEF LeaseInv
<1>4. (HasPhase(c, {"settled"}) => queue[c[1]].state \in Ended \union {"absent"})'
  BY <1>2 DEF LeaseInv
<1>5. ASSUME job' = "kept", HasPhase(c, Beating)', ~worker'[c].late
      PROVE  (Holds(c, Leased) /\ queue[c[1]].left > worker[c].beat)'
  <2>1. Holds(c, Leased) /\ queue[c[1]].left > worker[c].beat
    BY <1>2, <1>5 DEF LeaseInv
  <2>2. queue[c[1]].left > 0
    BY <1>1, <2>1, LeaseFacts, TimesAreNatural
  <2>3. QED
    BY <2>1, <2>2 DEF Holds
<1>6. QED
  BY <1>3, <1>4, <1>5 DEF LeaseInv

LEMMA PostKeepsLease ==
    ASSUME QueueInv, NEW c \in Claim, LeaseInv(c), NEW p \in Post,
           PostStep(p) \/ CancelRequest(p)
    PROVE  LeaseInv(c)'
<1>1. c[1] \in Post /\ c[2] \in 1..MaxClaims
  BY ClaimParts
<1>2. UNCHANGED <<drawn, worker, job>>
  BY DEF PostStep, ReserveRenderStorage, CheckKey, Prepare, CreateRequest,
     ReleaseUnused, BindRenderStorage, ReplyLost, PostDies, CancelRequest
<1>3. CASE queue'[c[1]] = queue[c[1]]
  BY <1>2, <1>3, LeaseUndisturbed
<1>4. CASE CreateRequest(p) /\ queue'[c[1]] # queue[c[1]]
  <2>1. ~Holds(c, Leased)
    BY <1>1, <1>4, CreationPrunes, StateValues DEF Holds, Prunable, Terminal
  <2>2. HasPhase(c, {"settled"}) => queue'[c[1]].state = "absent"
    <3>1. CASE c[1] = p
      <4>1. drawn[p] = 0
        BY <1>4 DEF CreateRequest, QueueInv, RequestInv, Early
      <4>2. ~HasPhase(c, {"settled"})
        BY <1>1, <3>1, <4>1, TimesAreNatural, PhaseGroups DEF LeaseInv, HasPhase, Live
      <4>3. QED
        BY <4>2
    <3>2. CASE c[1] # p
      BY <1>1, <1>4, <3>2, CreationPrunes DEF NoRequest
    <3>3. QED
      BY <3>1, <3>2
  <2>3. QED
    BY <1>2, <2>1, <2>2, LeaseUndisturbed
<1>5. CASE CancelRequest(p) /\ queue'[c[1]] # queue[c[1]]
  <2>1. c[1] = p /\ queue[p].state \in Leased \union {"queued"} /\ queue[p] \in Request
    BY <1>1, <1>5 DEF CancelRequest, QueueInv, RenderTypeOK
  <2>2. ~HasPhase(c, {"settled"})
    BY <2>1, StateValues DEF LeaseInv
  <2>3. CASE queue[p].state = "queued"
    BY <1>2, <2>1, <2>2, <2>3, LeaseUndisturbed, StateValues DEF Holds
  <2>4. CASE queue[p].state \in Leased
    <3>1. queue'[p] = [queue[p] EXCEPT !.cancel = TRUE]
      BY <1>5, <2>1, <2>4, StateValues DEF CancelRequest, QueueInv, RenderTypeOK
    <3>2. /\ queue'[p].state = queue[p].state /\ queue'[p].lease = queue[p].lease
          /\ queue'[p].left = queue[p].left
      BY <2>1, <3>1 DEF Request
    <3>3. QED
      BY <1>2, <2>1, <3>2, LeaseUndisturbed
  <2>5. QED
    BY <2>1, <2>3, <2>4
<1>6. CASE ~CreateRequest(p) /\ ~CancelRequest(p)
  <2>1. queue' = queue
    BY <1>6 DEF PostStep, ReserveRenderStorage, CheckKey, Prepare, ReleaseUnused,
       BindRenderStorage, ReplyLost, PostDies
  <2>2. QED
    BY <1>3, <2>1
<1>7. QED
  BY <1>3, <1>4, <1>5, <1>6

LEMMA ClaimKeepsLease ==
    ASSUME QueueInv, NEW c \in Claim, LeaseInv(c), NEW p \in Post,
           ClaimNext(p) \/ ClaimNothing(p)
    PROVE  LeaseInv(c)'
<1>0. /\ c[1] \in Post /\ c = <<c[1], c[2]>> /\ c[2] \in 1..MaxClaims
      /\ UNCHANGED job /\ worker \in [Claim -> Worker]
      /\ drawn \in [Post -> 0..MaxAttempts]
  BY ClaimParts DEF ClaimNext, ClaimNothing, QueueInv, RenderTypeOK
<1>1. ASSUME NEW q \in Post, Unclaimable(q), q = c[1], queue'[q] = GivenUp(q),
             worker'[c] = worker[c], drawn'[q] = drawn[q]
      PROVE  LeaseInv(c)'
  <2>1. queue[q].left = 0 /\ queue'[q].state \in Ended
    BY <1>1, GivenUpEnds DEF Unclaimable, Stale
  <2>2. QED
    BY <1>0, <1>1, <2>1, LeaseUndisturbed
<1>2. CASE ClaimNothing(p)
  <2>1. /\ UNCHANGED <<worker, drawn>>
        /\ \/ Unclaimable(c[1]) /\ queue'[c[1]] = GivenUp(c[1])
           \/ queue'[c[1]] = queue[c[1]]
    BY <1>0, <1>2 DEF ClaimNothing
  <2>2. QED
    BY <1>0, <1>1, <2>1, LeaseUndisturbed
<1>3. CASE ClaimNext(p)
  <2> DEFINE n == drawn[p] + 1
  <2>1. /\ queue'[c[1]] = IF c[1] = p THEN Claimed(p, n)
                          ELSE IF c[1] < p /\ Unclaimable(c[1]) THEN GivenUp(c[1])
                          ELSE queue[c[1]]
        /\ drawn' = [drawn EXCEPT ![p] = n]
        /\ worker' = [worker EXCEPT ![<<p, n>>] = Claimer]
        /\ Available(p) /\ drawn[p] < MaxClaims
    BY <1>0, <1>3 DEF ClaimNext, Claimer
  <2>2. CASE c[1] # p
    <3>1. worker'[c] = worker[c] /\ drawn'[c[1]] = drawn[c[1]]
      BY <1>0, <2>1, <2>2
    <3>2. QED
      BY <1>0, <1>1, <2>1, <2>2, <3>1, LeaseUndisturbed
  <2>3. CASE c[1] = p /\ c[2] # n
    <3>1. worker'[c] = worker[c] /\ drawn'[c[1]] = drawn[c[1]] + 1
      BY <1>0, <2>1, <2>3
    <3>2. ~(Holds(c, Leased) /\ queue[p].left > 0)
      BY <2>1, <2>3, LeaseFacts, StateValues DEF Available, Stale, Holds
    <3>3. ~HasPhase(c, {"settled"})
      BY <2>1, <2>3, StateValues DEF Available, Stale, LeaseInv
    <3>4. QED
      BY <1>0, <2>3, <3>1, <3>2, <3>3, LeaseUndisturbed
  <2>4. CASE c[1] = p /\ c[2] = n
    <3>1. worker'[c] = Claimer /\ drawn'[p] = n
      BY <1>0, <2>1, <2>4
    <3>2. /\ queue'[p].state = "claimed" /\ queue'[p].lease = n
          /\ queue'[p].left = LeaseTime
      BY <2>1, <2>4, ClaimedIsRequest
    <3>3. HasPhase(c, Beating)' /\ ~HasPhase(c, {"settled"})'
      BY <3>1, ClaimerType DEF HasPhase, Beating
    <3>4. (Holds(c, Leased) /\ queue[c[1]].left > worker[c].beat)'
      BY <2>4, <3>1, <3>2, ClaimerType, TimesAreNatural, StateValues DEF Holds
    <3>5. (c[2] <= drawn[c[1]])'
      BY <1>0, <2>4, <3>1
    <3>6. QED
      BY <3>3, <3>4, <3>5 DEF LeaseInv
  <2>5. QED
    BY <2>2, <2>3, <2>4
<1>4. QED
  BY <1>2, <1>3
(* A step of another claim: only the holder of a lease writes its request, *)
(* and the lease numbers its claim.                                        *)
LEMMA OthersKeepLease ==
    ASSUME QueueInv, NEW c \in Claim, LeaseInv(c), NEW d \in Claim, d # c, WorkerStep(d)
    PROVE  LeaseInv(c)'
<1>1. UNCHANGED <<drawn, job>>
  BY WorkerHoldsWhatItWrites
<1>2. worker'[c] = worker[c]
  BY DEF WorkerStep, CheckStorage, StorageRefused, StartRendering, Heartbeat, SeesCancel,
     Publish, RenderFails, Complete, Fail, ReleaseRenderStorage, WorkerDies, Enters,
     QueueInv, RenderTypeOK
<1>3. CASE queue'[c[1]] = queue[c[1]]
  BY <1>1, <1>2, <1>3, LeaseUndisturbed
<1>4. CASE queue'[c[1]] # queue[c[1]]
  <2>1. c[1] = d[1] /\ Holds(d, Leased)
    BY <1>4, ClaimParts, WorkerHoldsWhatItWrites DEF QueueInv, RenderTypeOK
  <2>2. ~Holds(c, Leased)
    BY <2>1, ClaimParts DEF Holds
  <2>3. ~HasPhase(c, {"settled"})
    BY <2>1, StateValues DEF LeaseInv, Holds
  <2>4. QED
    BY <1>1, <1>2, <2>2, <2>3, LeaseUndisturbed
<1>5. QED
  BY <1>3, <1>4

(* A step that writes the heartbeat of the request, or only the worker.    *)
LEMMA OwnStepKeepsLease ==
    ASSUME QueueInv, NEW c \in Claim, LeaseInv(c), WorkerStep(c)
    PROVE  LeaseInv(c)'
<1>0. /\ c[1] \in Post /\ worker \in [Claim -> Worker] /\ queue \in [Post -> Request]
      /\ worker[c] \in Worker /\ queue[c[1]] \in Request
      /\ worker[c].beat \in 0..BeatTime
  BY Zenon, FileTypes, ClaimParts, LeaseFacts
<1>1. UNCHANGED <<drawn, job>> /\ HasPhase(c, Live)
  BY WorkerHoldsWhatItWrites, PhaseGroups DEF WorkerStep, CheckStorage, StorageRefused,
     StartRendering, Heartbeat, SeesCancel, Publish, RenderFails, Complete, Fail,
     ReleaseRenderStorage, WorkerDies, HasPhase, Live, Writing
<1>2. c[2] <= drawn'[c[1]]
  BY <1>1 DEF LeaseInv
(* The worker gives up, or is done with its request.                       *)
<1>3. ASSUME ~HasPhase(c, Beating)',
             HasPhase(c, {"settled"})' => queue'[c[1]].state \in Ended
      PROVE  LeaseInv(c)'
  BY <1>2, <1>3 DEF LeaseInv
(* It goes on, with the lease as it is ...                                 *)
<1>4. ASSUME UNCHANGED queue, HasPhase(c, Beating), worker'[c].beat = worker[c].beat,
             worker'[c].late = worker[c].late, worker'[c].phase # "settled"
      PROVE  LeaseInv(c)'
  <2>1. ~HasPhase(c, {"settled"})'
    BY <1>4 DEF HasPhase
  <2>2. (job = "kept" /\ ~worker[c].late =>
          Holds(c, Leased) /\ queue[c[1]].left > worker[c].beat)'
    BY <1>1, <1>4 DEF LeaseInv, Holds
  <2>3. QED
    BY <1>2, <2>1, <2>2 DEF LeaseInv
(* ... or renewed by a heartbeat.                                          *)
<1>5. ASSUME queue'[c[1]].state \in Leased, queue'[c[1]].lease = c[2],
             queue'[c[1]].left = LeaseTime, worker'[c].beat \in {0, BeatTime},
             worker'[c].phase # "settled"
      PROVE  LeaseInv(c)'
  <2>1. ~HasPhase(c, {"settled"})'
    BY <1>5 DEF HasPhase
  <2>2. (Holds(c, Leased) /\ queue[c[1]].left > worker[c].beat)'
    BY <1>5, TimesAreNatural DEF Holds
  <2>3. QED
    BY <1>2, <2>1, <2>2 DEF LeaseInv
<1>6. ASSUME NEW phase \in {"failing", "cancelling"}, worker' = Enters(c, phase)
      PROVE  LeaseInv(c)'
  <2>1. worker'[c].phase = phase
    BY <1>0, <1>6 DEF Enters, Worker
  <2>2. QED
    BY <1>3, <2>1, PhaseGroups DEF HasPhase
<1>7. ASSUME worker' = [worker EXCEPT ![c] = NoWorker] PROVE LeaseInv(c)'
  <2>1. worker'[c].phase = "none"
    BY <1>0, <1>7 DEF NoWorker
  <2>2. QED
    BY <1>3, <2>1, PhaseGroups DEF HasPhase
<1>8. CASE CheckStorage(c)
  <2>1. /\ worker'[c].beat = worker[c].beat /\ worker'[c].late = worker[c].late
        /\ worker'[c].phase # "settled" /\ HasPhase(c, Beating)
        /\ UNCHANGED queue
    BY <1>0, <1>8 DEF CheckStorage, HasPhase, Beating, Worker
  <2>2. QED
    BY <1>4, <2>1
<1>9. CASE StartRendering(c)
  <2>1. CASE Holds(c, {"claimed"})
               /\ queue' = [queue EXCEPT ![c[1]].state = "rendering",
                                         ![c[1]].left = LeaseTime]
               /\ worker' =
                    [worker EXCEPT ![c].phase =
                         IF asked[c[1]].export \in published THEN "rechecked"
                                                             ELSE "rendering",
                                   ![c].beat = Armed(c, BeatTime)]
    <3>1. queue'[c[1]].state = "rendering" /\ queue'[c[1]].left = LeaseTime
          /\ queue'[c[1]].lease = c[2]
      BY <1>0, <2>1 DEF Holds, Request
    <3>2. worker'[c].beat \in {0, BeatTime} /\ worker'[c].phase # "settled"
      BY <1>0, <2>1 DEF Armed, Worker
    <3>3. QED
      BY <1>5, <3>1, <3>2, StateValues
  <2>2. CASE worker' = Enters(c, "failing")
    BY <1>6, <2>2
  <2>3. QED
    BY <1>9, <2>1, <2>2 DEF StartRendering
<1>10. CASE Heartbeat(c)
  <2>1. CASE Holds(c, Leased) /\ queue' = [queue EXCEPT ![c[1]].left = LeaseTime]
               /\ worker' = [worker EXCEPT ![c].beat = Armed(c, BeatTime)]
    <3>1. queue'[c[1]].state \in Leased /\ queue'[c[1]].left = LeaseTime
          /\ queue'[c[1]].lease = c[2]
      BY <1>0, <2>1 DEF Holds, Request
    <3>2. worker'[c].beat \in {0, BeatTime} /\ worker'[c].phase # "settled"
      BY <1>0, <1>10, <2>1 DEF Heartbeat, HasPhase, Armed, Worker
    <3>3. QED
      BY <1>5, <3>1, <3>2
  <2>2. CASE worker' = Enters(c, "failing")
    BY <1>6, <2>2
  <2>3. QED
    BY <1>10, <2>1, <2>2 DEF Heartbeat
<1>11. CASE Publish(c)
  <2>1. /\ worker'[c].beat = worker[c].beat /\ worker'[c].late = worker[c].late
        /\ worker'[c].phase # "settled" /\ HasPhase(c, Beating)
        /\ UNCHANGED queue
    BY <1>0, <1>11 DEF Publish, Enters, HasPhase, Beating, Worker
  <2>2. QED
    BY <1>4, <2>1
<1>12. ASSUME NEW s \in Ended, worker' = Enters(c, "settled"),
              queue' = [queue EXCEPT ![c[1]].state = s, ![c[1]].lease = 0, ![c[1]].left = 0]
       PROVE  LeaseInv(c)'
  <2>1. worker'[c].phase = "settled"
    BY <1>0, <1>12 DEF Enters, Worker
  <2>2. queue'[c[1]].state = s
    BY <1>0, <1>12 DEF Request
  <2>3. QED
    BY <1>3, <2>1, <2>2, PhaseGroups DEF HasPhase
<1>13. CASE Complete(c)
  BY <1>6, <1>12, <1>13, StateValues DEF Complete
<1>14. CASE Fail(c)
  BY <1>7, <1>12, <1>14, StateValues DEF Fail
<1>15. CASE StorageRefused(c) \/ SeesCancel(c) \/ RenderFails(c) \/ ReleaseRenderStorage(c)
              \/ WorkerDies(c)
  BY <1>6, <1>7, <1>15 DEF StorageRefused, SeesCancel, RenderFails, ReleaseRenderStorage,
     WorkerDies
<1>16. QED
  BY <1>8, <1>9, <1>10, <1>11, <1>13, <1>14, <1>15 DEF WorkerStep

LEMMA TimeKeepsLease ==
    ASSUME QueueInv, NEW c \in Claim, LeaseInv(c), Tick \/ WeekPasses
    PROVE  LeaseInv(c)'
<1>0. /\ c[1] \in Post /\ queue[c[1]] \in Request /\ worker[c] \in Worker
      /\ queue[c[1]].left \in 0..LeaseTime /\ worker[c].beat \in 0..BeatTime
      /\ UNCHANGED <<drawn, job>>
  BY ClaimParts, LeaseFacts DEF Tick, WeekPasses
<1>1. CASE Tick
  <2> DEFINE l == Down(queue[c[1]].left)
             d == Down(worker[c].beat)
             e == Down(worker[c].recheck)
  <2>1. /\ queue'[c[1]] = [queue[c[1]] EXCEPT !.left = l]
        /\ worker'[c] = IF Due(c) THEN [worker[c] EXCEPT !.beat = 0, !.recheck = 0,
                                                         !.late = TRUE]
                        ELSE [worker[c] EXCEPT !.beat = d, !.recheck = e]
    BY <1>0, <1>1 DEF Tick
  <2>2. /\ queue[c[1]].left > 0 => l = queue[c[1]].left - 1
        /\ worker[c].beat > 0 => d = worker[c].beat - 1
    BY <1>0, TimesAreNatural, DownType
  <2> HIDE DEF l, d, e
  <2>3. /\ queue'[c[1]].state = queue[c[1]].state /\ queue'[c[1]].lease = queue[c[1]].lease
        /\ queue'[c[1]].left = l /\ worker'[c].phase = worker[c].phase
        /\ ~worker'[c].late => ~Due(c) /\ ~worker[c].late /\ worker'[c].beat = d
    BY <1>0, <2>1 DEF Request, Worker
  <2>4. ASSUME job' = "kept", HasPhase(c, Beating)', ~worker'[c].late
        PROVE  (Holds(c, Leased) /\ queue[c[1]].left > worker[c].beat)'
    <3>1. HasPhase(c, Beating) /\ job = "kept" /\ worker[c].beat > 0
      BY <1>0, <2>3, <2>4, TimesAreNatural DEF HasPhase, Due
    <3>2. Holds(c, Leased) /\ queue[c[1]].left > worker[c].beat
      BY <2>3, <2>4, <3>1 DEF LeaseInv
    <3>3. QED
      BY <1>0, <2>2, <2>3, <2>4, <3>1, <3>2, TimesAreNatural DEF Holds
  <2>5. /\ HasPhase(c, Live)' => HasPhase(c, Live)
        /\ HasPhase(c, {"settled"})' => HasPhase(c, {"settled"})
    BY <2>3 DEF HasPhase
  <2>6. (HasPhase(c, Live) => c[2] <= drawn[c[1]])'
    BY <1>0, <2>5 DEF LeaseInv
  <2>7. (HasPhase(c, {"settled"}) => queue[c[1]].state \in Ended \union {"absent"})'
    BY <2>3, <2>5 DEF LeaseInv
  <2>8. QED
    BY <2>4, <2>6, <2>7 DEF LeaseInv
<1>2. CASE WeekPasses
  <2>1. ~HasPhase(c, Live)'
    BY <1>2 DEF WeekPasses, HasPhase
  <2>2. ~HasPhase(c, {"settled"})' /\ ~HasPhase(c, Beating)'
    BY <2>1 DEF HasPhase, Live, Beating, Writing
  <2>3. QED
    BY <2>1, <2>2 DEF LeaseInv
<1>3. QED
  BY <1>1, <1>2

LEMMA WorkInvInductive ==
    /\ RenderInit => WorkInv
    /\ QueueInv /\ WorkInv /\ [RenderNext]_renderVars => WorkInv'
<1>1. RenderInit => WorkInv
  BY PhaseGroups DEF RenderInit, WorkInv, LeaseInv, HasPhase, NoWorker, Live, Beating
<1>2. ASSUME QueueInv, WorkInv, [RenderNext]_renderVars, NEW c \in Claim
      PROVE  LeaseInv(c)'
  <2>1. LeaseInv(c)
    BY <1>2 DEF WorkInv
  <2>2. CASE UNCHANGED renderVars
    BY <2>1, <2>2 DEF LeaseInv, HasPhase, Holds, renderVars
  <2>3. CASE PurgeJob
    <3>1. /\ worker' = worker /\ drawn' = drawn /\ job' = "purged"
          /\ queue'[c[1]].state = "absent"
      BY <2>3, ClaimParts DEF PurgeJob, NoRequest
    <3>2. QED
      BY <2>1, <3>1 DEF LeaseInv, HasPhase
  <2>4. CASE RenderNext /\ ~PurgeJob
    BY <1>2, <2>1, <2>4, PostKeepsLease, ClaimKeepsLease, OthersKeepLease,
       OwnStepKeepsLease, TimeKeepsLease DEF RenderNext, ClaimStep
  <2>5. QED
    BY <1>2, <2>2, <2>3, <2>4
<1>3. QED
  BY <1>1, <1>2 DEF WorkInv

(* A worker that serves its timers keeps its request until it is done: the *)
(* walk of another worker, a cancellation and a late claim never take it,  *)
(* for any number of workers, claims and POSTs and any lease longer than   *)
(* the heartbeat interval (claim_next, heartbeat of render_queue.py).      *)
THEOREM LeaseIsKept == RenderSpec => []OnTimeKeepsLease
<1>1. QueueInv /\ WorkInv => OnTimeKeepsLease
  BY DEF OnTimeKeepsLease, WorkInv, LeaseInv, QueueInv, RenderTypeOK
<1>2. QED
  BY <1>1, QueueInvInductive, WorkInvInductive, PTL DEF RenderSpec
-----------------------------------------------------------------------------
(* Writers are charged                                                     *)

(* The storage heartbeat comes well within the grace of the purge and the  *)
(* life of an admission.  The code does not enforce it: the interval and   *)
(* the grace are settings of their own.                                    *)
RecheckInTime == RecheckTime < GraceTime /\ RecheckTime < AdmissionTime

(* Who is written for: the hypothesis of ChargeInv.                        *)
InTime(c) == HasPhase(c, Writing) /\ ~worker[c].late /\ post[c[1]] # "lost"

LEMMA ChargeFacts ==
    ASSUME QueueInv, NEW c \in Claim
    PROVE  /\ worker[c] \in Worker /\ worker[c].recheck \in 0..RecheckTime
           /\ reservation[c[1]] \in Reservation
           /\ reservation[c[1]].fresh \in 0..GraceTime
           /\ reservation[c[1]].left \in 0..AdmissionTime
           /\ c[1] \in Post
BY FileTypes, ClaimParts DEF Worker, Reservation

(* A claim that is worked on was drawn; one that is written for in time is *)
(* leased, in a job that is kept.                                          *)
LEMMA LiveIsDrawn ==
    ASSUME QueueInv, WorkInv, NEW c \in Claim, HasPhase(c, Live)
    PROVE  drawn[c[1]] > 0
BY LeaseFacts, ClaimParts, TimesAreNatural DEF WorkInv, LeaseInv

LEMMA InTimeIsLeased ==
    ASSUME QueueInv, WorkInv, NEW c \in Claim, ChargeInv(c), InTime(c)
    PROVE  job = "kept" /\ queue[c[1]].state \in Leased /\ HasPhase(c, Live)
<1>1. job = "kept" /\ HasPhase(c, Beating) /\ HasPhase(c, Live)
  BY PhaseGroups DEF ChargeInv, InTime, HasPhase, Writing, Beating
<1>2. QED
  BY <1>1 DEF WorkInv, LeaseInv, InTime, Holds

(* The sweep spares it, and it leaves nothing bound whose request ended.   *)
LEMMA SweepSpares ==
    ASSUME QueueInv, WorkInv, NEW c \in Claim, ChargeInv(c), InTime(c)
    PROVE  Swept(c[1]) = reservation[c[1]]
<1>1. queue[c[1]].state \notin Releasing
  BY InTimeIsLeased, StateValues DEF Releasing
<1>2. ~(reservation[c[1]].state = "admitting" /\ reservation[c[1]].left = 0)
  BY ChargeFacts, TimesAreNatural DEF ChargeInv, InTime
<1>3. QED
  BY <1>1, <1>2 DEF Swept

LEMMA SweepOnlyRemoves ==
    ASSUME QueueInv, NEW p \in Post
    PROVE  /\ reservation[p].state = "none" => Swept(p).state = "none"
           /\ Swept(p).state = "bound" => /\ reservation[p].state = "bound"
                                          /\ ~queue[p].old
           /\ Reservations[p] = Swept(p)
BY DEF Reservations, Swept, NoReservation, Releasing, QueueInv, RequestInv

LEMMA RefreshedFields ==
    ASSUME NEW r \in Reservation
    PROVE  /\ Refreshed(r).state = r.state /\ Refreshed(r).fresh = GraceTime
           /\ Refreshed(r).state # "bound" => Refreshed(r).left = AdmissionTime
BY DEF Refreshed, Reservation

(* A step that leaves the claim's worker and its reservation alone, or     *)
(* takes it out of its writing.                                            *)
LEMMA ChargeUndisturbed ==
    ASSUME NEW c \in Claim, ChargeInv(c),
           HasPhase(c, Writing)' => /\ HasPhase(c, Writing)
                                    /\ worker'[c].recheck = worker[c].recheck
                                    /\ worker'[c].late = worker[c].late,
           post[c[1]] = "lost" => post'[c[1]] = "lost",
           UNCHANGED job,
           InTime(c) /\ InTime(c)' => reservation'[c[1]] = reservation[c[1]]
    PROVE  ChargeInv(c)'
BY DEF ChargeInv, InTime

(* A step on the requests that leaves the reservations alone.              *)
LEMMA BoundUndisturbed ==
    ASSUME NEW p \in Post, BoundInv(p), UNCHANGED <<job, reservation>>,
           queue'[p].state = "absent" <=> queue[p].state = "absent",
           queue'[p].old => queue[p].old,
           drawn'[p] = drawn[p] \/ job = "kept",
           post'[p] = "created" => post[p] = "created",
           (\A q \in Post : post[q] \in Quiet) => \A q \in Post : post'[q] \in Quiet,
           job \in {"kept", "purged"}
    PROVE  BoundInv(p)'
BY DEF BoundInv

LEMMA PostKeepsCharge ==
    ASSUME QueueInv, WorkInv, StorageInv, RecheckInTime, NEW p \in Post, PostStep(p),
           NEW c \in Claim
    PROVE  ChargeInv(c)'
<1>0. /\ ChargeInv(c) /\ c[1] \in Post /\ worker[c].recheck \in 0..RecheckTime
      /\ reservation \in [Post -> Reservation] /\ post \in [Post -> PostPhase]
  BY ChargeFacts, FileTypes DEF StorageInv
<1>1. UNCHANGED <<worker, job>> /\ (post[p] = "lost" => FALSE)
  BY DEF PostStep, ReserveRenderStorage, CheckKey, Prepare, CreateRequest,
     ReleaseUnused, BindRenderStorage, ReplyLost, PostDies
<1>2. c[1] # p => post'[c[1]] = post[c[1]]
  BY <1>0 DEF PostStep, ReserveRenderStorage, CheckKey, Replay, Prepare, CreateRequest,
     ReleaseUnused, BindRenderStorage, ReplyLost, PostDies
<1>3. HasPhase(c, Writing)' <=> HasPhase(c, Writing)
  BY <1>1 DEF HasPhase
<1>4. drawn[p] = 0 /\ InTime(c) => c[1] # p
  BY LiveIsDrawn, PhaseGroups, <1>0 DEF InTime, HasPhase
<1>5. ASSUME InTime(c) /\ InTime(c)' => reservation'[c[1]] = reservation[c[1]]
      PROVE  ChargeInv(c)'
  BY <1>0, <1>1, <1>2, <1>3, <1>5, ChargeUndisturbed
<1>6. CASE ReserveRenderStorage(p)
  <2>1. drawn[p] = 0
    BY <1>6 DEF ReserveRenderStorage, QueueInv, RequestInv, Early
  <2>2. c[1] # p => reservation'[c[1]] = Swept(c[1])
    BY <1>0, <1>6 DEF ReserveRenderStorage, Reservations
  <2>3. QED
    BY <1>0, <1>4, <1>5, <2>1, <2>2, SweepSpares
<1>7. CASE ReleaseUnused(p)
  <2>1. drawn[p] = 0
    BY <1>7 DEF ReleaseUnused, QueueInv, RequestInv, Early
  <2>2. c[1] # p => reservation'[c[1]] = reservation[c[1]]
    BY <1>0, <1>7 DEF ReleaseUnused, Dropped
  <2>3. QED
    BY <1>4, <1>5, <2>1, <2>2
<1>8. CASE BindRenderStorage(p)
  <2>1. CASE c[1] # p \/ reservation[p].state = "none"
    <3>1. reservation'[c[1]] = reservation[c[1]]
      BY <1>0, <1>8, <2>1 DEF BindRenderStorage
    <3>2. QED
      BY <1>5, <3>1
  <2>2. CASE c[1] = p /\ reservation[p].state # "none"
    <3>1. reservation'[p] = [reservation[p] EXCEPT !.state = "bound",
                                                   !.fresh = GraceTime, !.left = 0]
      BY <1>0, <1>8, <2>2 DEF BindRenderStorage
    <3>2. reservation'[p].state = "bound" /\ reservation'[p].fresh = GraceTime
      BY <1>0, <2>2, <3>1 DEF Reservation
    <3>3. InTime(c)' => job' = "kept"
      BY <1>0, <1>1, <1>3, <2>2 DEF ChargeInv, InTime
    <3>4. reservation'[p].fresh > worker'[c].recheck
      BY <1>0, <1>1, <3>2, TimesAreNatural DEF RecheckInTime
    <3>5. QED
      BY <2>2, <3>2, <3>3, <3>4 DEF ChargeInv, InTime
  <2>3. QED
    BY <2>1, <2>2
<1>9. CASE ReplyLost(p)
  <2>1. IF c[1] = p THEN post'[c[1]] = "lost"
                    ELSE reservation'[c[1]] = reservation[c[1]]
    BY <1>0, <1>9 DEF ReplyLost, Dropped
  <2>2. QED
    BY <1>5, <2>1 DEF InTime
<1>10. CASE CheckKey(p) \/ Prepare(p) \/ CreateRequest(p) \/ PostDies(p)
  <2>1. reservation' = reservation
    BY <1>10 DEF CheckKey, Prepare, CreateRequest, PostDies
  <2>2. QED
    BY <1>5, <2>1
<1>11. QED
  BY <1>6, <1>7, <1>8, <1>9, <1>10 DEF PostStep
LEMMA PostKeepsBound ==
    ASSUME QueueInv, StorageInv, NEW p \in Post, PostStep(p), NEW k \in Post
    PROVE  BoundInv(k)'
<1>0. /\ BoundInv(k) /\ BoundInv(p) /\ RequestInv(k) /\ RequestInv(p)
      /\ reservation \in [Post -> Reservation] /\ post \in [Post -> PostPhase]
      /\ queue \in [Post -> Request] /\ reservation[p] \in Reservation
  BY FileTypes DEF StorageInv, QueueInv
<1>1. UNCHANGED <<drawn, job>>
  BY DEF PostStep, ReserveRenderStorage, CheckKey, Prepare, CreateRequest,
     ReleaseUnused, BindRenderStorage, ReplyLost, PostDies
(* After the first step of the POST nothing old is bound.                  *)
<1>2. post[p] # "new" => post[p] \notin Quiet
  BY DEF PostStep, ReserveRenderStorage, CheckKey, Prepare, CreateRequest,
     ReleaseUnused, BindRenderStorage, ReplyLost, PostDies, Quiet
<1>3. post[p] # "new" /\ queue[k].old => reservation[k].state # "bound"
  BY <1>0, <1>2 DEF BoundInv
(* Steps that only drop the reservation of p, or leave all of them alone.  *)
<1>4. ASSUME UNCHANGED queue, post[p] # "new",
             \/ UNCHANGED reservation
             \/ reservation' = Dropped(p),
             NEW phase \in PostPhase \ {"created"}, post' = [post EXCEPT ![p] = phase]
      PROVE  BoundInv(k)'
  <2>1. reservation'[k] = reservation[k] \/ reservation'[k].state = "none"
    BY <1>0, <1>4 DEF Dropped, NoReservation
  <2>2. post'[k] = "created" => post[k] = "created"
    BY <1>0, <1>4
  <2>3. QED
    BY <1>0, <1>1, <1>3, <1>4, <2>1, <2>2 DEF BoundInv
<1>5. CASE ReserveRenderStorage(p)
  <2>1. \/ reservation'[k] = Swept(k)
        \/ /\ k = p
           /\ reservation'[k] = Refreshed([NoReservation EXCEPT !.state = "admitting"])
    BY <1>0, <1>5 DEF ReserveRenderStorage, Reservations
  <2>2. Refreshed([NoReservation EXCEPT !.state = "admitting"]).state = "admitting"
    BY DEF Refreshed, NoReservation
  <2>3. /\ reservation'[k].state = "bound" => /\ reservation[k].state = "bound"
                                              /\ ~queue[k].old
        /\ k # p /\ reservation[k].state = "none" => reservation'[k].state = "none"
    BY <1>0, <2>1, <2>2, SweepOnlyRemoves
  <2>4. /\ post'[k] = "created" => post[k] = "created" /\ k # p
        /\ drawn[p] = 0 /\ UNCHANGED queue
    BY <1>0, <1>5 DEF ReserveRenderStorage, RequestInv, Early
  <2>5. QED
    BY <1>0, <1>1, <2>3, <2>4 DEF BoundInv
<1>6. CASE CheckKey(p) \/ Prepare(p) \/ ReleaseUnused(p) \/ ReplyLost(p) \/ PostDies(p)
  <2>1. /\ UNCHANGED queue /\ post[p] # "new"
        /\ UNCHANGED reservation \/ reservation' = Dropped(p)
    BY <1>6 DEF CheckKey, Prepare, ReleaseUnused, ReplyLost, PostDies
  <2>2. \E phase \in PostPhase \ {"created"} : post' = [post EXCEPT ![p] = phase]
    BY <1>6 DEF CheckKey, Replay, Prepare, ReleaseUnused, ReplyLost, PostDies, PostPhase
  <2>3. QED
    BY <1>4, <2>1, <2>2
<1>7. CASE BindRenderStorage(p)
  <2>1. post' = [post EXCEPT ![p] = "ended"] /\ UNCHANGED queue /\ post[p] = "created"
    BY <1>7 DEF BindRenderStorage
  <2>2. \/ reservation'[k] = reservation[k]
        \/ k = p /\ reservation[p].state # "none"
    BY <1>0, <1>7 DEF BindRenderStorage
  <2>3. CASE k = p /\ reservation[p].state # "none"
    <3>1. queue[p].state # "absent" /\ ~queue[p].old
      BY <1>0, <1>2, <2>1, <2>3 DEF BoundInv, RequestInv
    <3>2. job # "purged" /\ post'[k] = "ended"
      BY <1>0, <2>1, <2>3, <3>1 DEF RequestInv
    <3>3. QED
      BY <1>1, <2>1, <2>3, <3>1, <3>2 DEF BoundInv
  <2>4. CASE reservation'[k] = reservation[k]
    <3>1. post'[k] = "created" => post[k] = "created"
      BY <1>0, <2>1
    <3>2. QED
      BY <1>0, <1>1, <1>3, <2>1, <2>4, <3>1 DEF BoundInv
  <2>5. QED
    BY <2>2, <2>3, <2>4
<1>8. CASE CreateRequest(p)
  <2>1. post[p] \in {"prepared", "instant"} /\ UNCHANGED reservation
    BY <1>8 DEF CreateRequest
  <2>2. ~queue[p].old /\ queue[p].state = "absent" /\ drawn[p] = 0
    BY <1>0, <2>1, StateValues DEF RequestInv, Early
  <2>3. post'[k] = IF k = p THEN post'[p] ELSE post[k]
    BY <1>0, <1>8 DEF CreateRequest, Replay
  <2>4. CASE queue'[k] = queue[k]
    <3>1. ~(k = p /\ post'[p] = "created")
      <4>1. ASSUME k = p, post'[p] = "created" PROVE FALSE
        <5>1. PICK kept : queue' = [kept EXCEPT ![p] = Created(p)] /\ DOMAIN kept = Post
          BY <1>0, <1>8, <4>1 DEF CreateRequest, Replay
        <5>2. queue'[p].state # "absent"
          BY <5>1 DEF Created, NoRequest
        <5>3. QED
          BY <2>2, <2>4, <4>1, <5>2
      <4>2. QED
        BY <4>1
    <3>2. QED
      BY <1>0, <1>1, <1>3, <2>1, <2>3, <2>4, <3>1 DEF BoundInv
  <2>5. CASE queue'[k] # queue[k] /\ k # p
    <3>1. queue[k].old /\ queue'[k] = NoRequest
      BY <1>8, <2>5, CreationPrunes DEF Prunable
    <3>2. reservation[k].state # "bound" /\ post[k] # "created"
      BY <1>0, <1>3, <2>1, <3>1 DEF RequestInv, Quiet
    <3>3. QED
      BY <1>0, <1>1, <2>1, <2>3, <2>5, <3>1, <3>2 DEF BoundInv, NoRequest
  <2>6. CASE queue'[k] # queue[k] /\ k = p
    <3>1. queue'[p] = Created(p)
      BY <1>8, <2>2, <2>6, CreationPrunes, StateValues DEF Prunable, Terminal
    <3>2. queue'[p].state # "absent" /\ ~queue'[p].old
      BY <3>1 DEF Created, NoRequest
    <3>3. QED
      BY <1>0, <1>1, <2>1, <2>2, <2>6, <3>2 DEF BoundInv
  <2>7. QED
    BY <2>4, <2>5, <2>6
<1>9. QED
  BY <1>5, <1>6, <1>7, <1>8 DEF PostStep

(* What the walk of claim_next leaves of a request it does not claim.      *)
LEMMA WalkWrites ==
    ASSUME NEW p \in Post, NEW k \in Post, (ClaimNext(p) /\ k # p) \/ ClaimNothing(p)
    PROVE  queue'[k] = queue[k] \/ (Unclaimable(k) /\ queue'[k] = GivenUp(k))
<1>1. CASE ClaimNext(p) /\ k # p
  <2>1. queue' = [q \in Post |-> IF q = p THEN Claimed(p, drawn[p] + 1)
                                 ELSE IF q < p /\ Unclaimable(q) THEN GivenUp(q)
                                 ELSE queue[q]]
    BY <1>1 DEF ClaimNext
  <2>2. queue'[k] = IF k < p /\ Unclaimable(k) THEN GivenUp(k) ELSE queue[k]
    BY <1>1, <2>1
  <2>3. QED
    BY <2>2
<1>2. CASE ClaimNothing(p)
  <2>1. queue' = [q \in Post |-> IF q <= p /\ Unclaimable(q) THEN GivenUp(q)
                                                            ELSE queue[q]]
    BY <1>2 DEF ClaimNothing
  <2>2. queue'[k] = IF k <= p /\ Unclaimable(k) THEN GivenUp(k) ELSE queue[k]
    BY <2>1
  <2>3. QED
    BY <2>2
<1>3. QED
  BY <1>1, <1>2

LEMMA ClaimKeepsStorage ==
    ASSUME QueueInv, StorageInv, NEW p \in Post, ClaimNext(p) \/ ClaimNothing(p)
    PROVE  StorageInv'
<1>0. /\ UNCHANGED <<asked, post, reservation, published, job>>
      /\ worker \in [Claim -> Worker] /\ queue \in [Post -> Request]
      /\ job \in {"kept", "purged"} /\ drawn \in [Post -> 0..MaxAttempts]
  BY FileTypes DEF ClaimNext, ClaimNothing, QueueInv, RenderTypeOK
<1>1. ASSUME NEW c \in Claim PROVE ChargeInv(c)'
  <2>1. worker'[c] = worker[c] \/ worker'[c].phase = "claimed"
    BY <1>0, ClaimerType DEF ClaimNext, ClaimNothing, Claimer
  <2>2. ChargeInv(c) /\ "claimed" \notin Writing
    BY DEF StorageInv, Writing
  <2>3. QED
    BY <1>0, <2>1, <2>2, ChargeUndisturbed DEF HasPhase
<1>2. ASSUME NEW k \in Post PROVE BoundInv(k)'
  <2>1. \/ queue'[k] = queue[k]
        \/ /\ queue[k].state \in Leased \union {"queued"}
           /\ queue'[k].state \in Leased \union Ended
           /\ queue'[k].old = queue[k].old
    <3>1. CASE ClaimNext(p) /\ k = p
      <4>1. queue'[p] = Claimed(p, drawn[p] + 1)
        BY <3>1 DEF ClaimNext
      <4>2. QED
        BY <3>1, <4>1, ClaimedIsRequest, StateValues DEF ClaimNext
    <3>2. CASE (ClaimNext(p) /\ k # p) \/ ClaimNothing(p)
      <4>1. queue'[k] = queue[k] \/ (Unclaimable(k) /\ queue'[k] = GivenUp(k))
        BY <3>2, WalkWrites
      <4>2. QED
        BY <4>1, GivenUpEnds DEF Unclaimable, Stale
    <3>3. QED
      BY <3>1, <3>2
  <2>2. drawn'[k] = drawn[k] \/ job = "kept"
    <3>1. queue[p].state # "absent"
      BY StateValues DEF ClaimNext, ClaimNothing, Unclaimable, Available, Stale
    <3>2. job = "kept"
      BY <1>0, <3>1 DEF QueueInv, RequestInv
    <3>3. QED
      BY <3>2
  <2>3. queue'[k].state = "absent" <=> queue[k].state = "absent"
    BY <2>1, StateValues
  <2>4. BoundInv(k)
    BY DEF StorageInv
  <2>5. QED
    BY <1>0, <2>1, <2>2, <2>3, <2>4, BoundUndisturbed
<1>3. QED
  BY <1>1, <1>2 DEF StorageInv

LEMMA CancelKeepsStorage ==
    ASSUME QueueInv, StorageInv, NEW p \in Post, CancelRequest(p)
    PROVE  StorageInv'
<1>0. /\ UNCHANGED <<asked, post, drawn, reservation, published, job, worker>>
      /\ job \in {"kept", "purged"} /\ queue \in [Post -> Request]
  BY FileTypes DEF CancelRequest, QueueInv, RenderTypeOK
<1>1. ASSUME NEW c \in Claim PROVE ChargeInv(c)'
  <2>1. ChargeInv(c)
    BY DEF StorageInv
  <2>2. QED
    BY <1>0, <2>1, ChargeUndisturbed DEF HasPhase
<1>2. ASSUME NEW k \in Post PROVE BoundInv(k)'
  <2>1. \/ queue'[k] = queue[k]
        \/ /\ queue[k].state \in Leased \union {"queued"}
           /\ queue'[k].state \in Leased \union Ended
           /\ queue'[k].old = queue[k].old
    <3>1. k # p => queue'[k] = queue[k]
      BY <1>0 DEF CancelRequest
    <3>2. queue[p].state = "queued" /\ queue'[p] = EndedAs(queue[p], "cancelled") =>
            queue'[p].state \in Ended /\ queue'[p].old = queue[p].old
      BY <1>0, EndedAsType, StateValues
    <3>3. queue'[p] = [queue[p] EXCEPT !.cancel = TRUE] =>
            queue'[p].state = queue[p].state /\ queue'[p].old = queue[p].old
      BY <1>0 DEF Request
    <3>4. \/ queue[p].state = "queued" /\ queue'[p] = EndedAs(queue[p], "cancelled")
          \/ queue[p].state \in Leased /\ queue'[p] = [queue[p] EXCEPT !.cancel = TRUE]
      BY <1>0 DEF CancelRequest, CancelledNow, EndedAs
    <3>5. QED
      BY <3>1, <3>2, <3>3, <3>4
  <2>2. BoundInv(k) /\ (queue'[k].state = "absent" <=> queue[k].state = "absent")
    BY <2>1, StateValues DEF StorageInv
  <2>3. QED
    BY <1>0, <2>1, <2>2, BoundUndisturbed
<1>3. QED
  BY <1>1, <1>2 DEF StorageInv
(* What the heartbeat of the storage leaves of every reservation.          *)
LEMMA CheckedReservations ==
    ASSUME QueueInv, NEW c \in Claim, CheckStorage(c), NEW p \in Post
    PROVE  /\ p # c[1] => reservation'[p] = Swept(p)
           /\ p = c[1] => /\ reservation[p].state # "none"
                          /\ reservation'[p].state = Swept(p).state
                          /\ reservation'[p].fresh = GraceTime
                          /\ reservation'[p].state # "bound" =>
                               reservation'[p].left = AdmissionTime
<1>1. Reservations \in [Post -> Reservation] /\ c[1] \in Post
  BY SweptType, FileTypes, ClaimParts
<1>2. reservation' = [Reservations EXCEPT ![c[1]] = Refreshed(Reservations[c[1]])]
      /\ Reservations[c[1]].state # "none"
  BY <1>1 DEF CheckStorage
<1>3. Reservations[p] = Swept(p) /\ (reservation[p].state = "none" => Swept(p).state = "none")
  BY SweepOnlyRemoves
<1>4. reservation'[p] = IF p = c[1] THEN Refreshed(Swept(p)) ELSE Swept(p)
  BY <1>1, <1>2, <1>3
<1>5. Swept(p) \in Reservation
  BY <1>1, <1>3
<1>6. QED
  BY <1>2, <1>3, <1>4, <1>5, RefreshedFields

LEMMA CheckKeepsStorage ==
    ASSUME QueueInv, WorkInv, StorageInv, RecheckInTime, NEW d \in Claim, CheckStorage(d)
    PROVE  StorageInv'
<1>0. /\ UNCHANGED <<asked, post, queue, drawn, published, job>> /\ d[1] \in Post
      /\ worker \in [Claim -> Worker] /\ HasPhase(d, Live) /\ drawn[d[1]] > 0
  <2>1. HasPhase(d, Live) /\ UNCHANGED <<asked, post, queue, drawn, published, job>>
    BY DEF CheckStorage, HasPhase, Live, Writing
  <2>2. QED
    BY <2>1, LiveIsDrawn, FileTypes, ClaimParts
<1>1. job = "kept"
  <2>1. job = "kept" \/ reservation[d[1]].state = "none"
    BY <1>0 DEF StorageInv, BoundInv, QueueInv, RenderTypeOK
  <2>2. QED
    BY <1>0, <2>1, CheckedReservations
<1>2. ASSUME NEW c \in Claim PROVE ChargeInv(c)'
  <2>1. /\ ChargeInv(c) /\ c[1] \in Post /\ worker[c] \in Worker
        /\ worker[c].recheck \in 0..RecheckTime
    BY ChargeFacts DEF StorageInv
  <2>2. CASE c # d
    <3>1. worker'[c] = worker[c]
      BY <1>0, <2>2 DEF CheckStorage
    <3>2. CASE c[1] # d[1]
      <4>1. InTime(c) => reservation'[c[1]] = reservation[c[1]]
        BY <2>1, <3>2, CheckedReservations, SweepSpares
      <4>2. QED
        BY <1>0, <2>1, <3>1, <4>1, ChargeUndisturbed DEF HasPhase
    <3>3. CASE c[1] = d[1]
      <4>1. InTime(c) => Swept(c[1]).state = reservation[c[1]].state
                         /\ reservation[c[1]].state # "none"
        BY <2>1, SweepSpares DEF ChargeInv, InTime
      <4>2. QED
        BY <1>0, <1>1, <2>1, <3>1, <3>3, <4>1, CheckedReservations, TimesAreNatural
        DEF ChargeInv, InTime, HasPhase, RecheckInTime
    <3>4. QED
      BY <3>2, <3>3
  <2>3. CASE c = d
    <3>1. worker'[c].recheck \in {0, RecheckTime}
      BY <1>0, <2>1, <2>3 DEF CheckStorage, Armed, Worker
    <3>2. reservation'[c[1]].state # "none"
      <4>1. Reservations[d[1]].state # "none"
        BY DEF CheckStorage
      <4>2. QED
        BY <2>1, <2>3, <4>1, CheckedReservations, SweepOnlyRemoves
    <3>3. QED
      BY <1>0, <1>1, <2>1, <2>3, <3>1, <3>2, CheckedReservations, TimesAreNatural
      DEF ChargeInv, RecheckInTime
  <2>4. QED
    BY <2>2, <2>3
<1>3. ASSUME NEW k \in Post PROVE BoundInv(k)'
  <2>1. BoundInv(k)
    BY DEF StorageInv
  <2>2. /\ reservation'[k].state = "bound" => /\ reservation[k].state = "bound"
                                              /\ ~queue[k].old
        /\ reservation[k].state = "none" => reservation'[k].state = "none"
    BY CheckedReservations, SweepOnlyRemoves
  <2>3. QED
    BY <1>0, <1>1, <2>1, <2>2 DEF BoundInv
<1>4. QED
  BY <1>2, <1>3 DEF StorageInv

LEMMA WorkerKeepsStorage ==
    ASSUME QueueInv, WorkInv, StorageInv, RecheckInTime, NEW d \in Claim, WorkerStep(d)
    PROVE  StorageInv'
<1>0. /\ UNCHANGED <<asked, post, drawn, job>> /\ d[1] \in Post
      /\ worker \in [Claim -> Worker] /\ reservation \in [Post -> Reservation]
      /\ job \in {"kept", "purged"} /\ worker[d] \in Worker
  BY WorkerHoldsWhatItWrites, FileTypes, ClaimParts DEF QueueInv, RenderTypeOK
<1>1. CASE ~CheckStorage(d)
  <2>1. ASSUME NEW c \in Claim
        PROVE  HasPhase(c, Writing)' => /\ HasPhase(c, Writing)
                                        /\ worker'[c].recheck = worker[c].recheck
                                        /\ worker'[c].late = worker[c].late
    <3>1. CASE c # d
      <4>1. worker'[c] = worker[c]
        BY <1>0, <1>1, <3>1 DEF WorkerStep, StorageRefused, StartRendering, Heartbeat,
           SeesCancel, Publish, RenderFails, Complete, Fail, ReleaseRenderStorage,
           WorkerDies, Enters
      <4>2. QED
        BY <4>1 DEF HasPhase
    <3>2. CASE c = d
      <4>1. CASE StartRendering(d)
        BY <1>0, <3>2, <4>1 DEF StartRendering, Enters, HasPhase, Writing, Worker
      <4>2. CASE Heartbeat(d)
        BY <1>0, <3>2, <4>2 DEF Heartbeat, Enters, HasPhase, Writing, Worker
      <4>3. CASE Publish(d)
        BY <1>0, <3>2, <4>3 DEF Publish, Enters, HasPhase, Writing, Worker
      <4>4. CASE ~(StartRendering(d) \/ Heartbeat(d) \/ Publish(d))
        <5>1. \/ worker' = [worker EXCEPT ![d] = NoWorker]
              \/ \E phase \in {"failing", "cancelling", "settled"} :
                   worker' = [worker EXCEPT ![d].phase = phase]
          BY <1>1, <4>4 DEF WorkerStep, StorageRefused, SeesCancel, RenderFails, Complete,
             Fail, ReleaseRenderStorage, WorkerDies, Enters
        <5>2. worker'[c].phase \in {"none", "failing", "cancelling", "settled"}
          BY <1>0, <3>2, <5>1 DEF NoWorker, Worker
        <5>3. QED
          BY <5>2 DEF HasPhase, Writing
      <4>5. QED
        BY <4>1, <4>2, <4>3, <4>4
    <3>3. QED
      BY <3>1, <3>2
  <2>2. ASSUME NEW p \in Post
        PROVE  /\ reservation'[p] \in {reservation[p], Swept(p), NoReservation}
               /\ reservation'[p] \notin {reservation[p], Swept(p)} =>
                    p = d[1] /\ HasPhase(d, {"settled"})
    BY <1>0, <1>1 DEF WorkerStep, StorageRefused, StartRendering, Heartbeat, SeesCancel,
       Publish, RenderFails, Complete, Fail, ReleaseRenderStorage, WorkerDies, Dropped,
       Reservations
  <2>3. ASSUME NEW c \in Claim PROVE ChargeInv(c)'
    <3>1. ChargeInv(c) /\ c[1] \in Post
      BY ClaimParts DEF StorageInv
    <3>2. InTime(c) => reservation'[c[1]] = reservation[c[1]]
      <4>1. ASSUME InTime(c), HasPhase(d, {"settled"}), c[1] = d[1] PROVE FALSE
        BY <3>1, <4>1, InTimeIsLeased, StateValues DEF WorkInv, LeaseInv
      <4>2. QED
        BY <2>2, <3>1, <4>1, SweepSpares
    <3>3. QED
      BY <1>0, <2>1, <3>1, <3>2, ChargeUndisturbed
  <2>4. ASSUME NEW k \in Post PROVE BoundInv(k)'
    <3>1. /\ BoundInv(k)
          /\ queue'[k].state = "absent" <=> queue[k].state = "absent"
          /\ queue'[k].old = queue[k].old
      <4>1. queue'[k] = queue[k] \/ /\ queue[k].state \in Leased
                                    /\ queue'[k].state \in Leased \union Ended
                                    /\ queue'[k].old = queue[k].old
        BY <1>0, WorkerHoldsWhatItWrites, FileTypes DEF Holds
      <4>2. QED
        BY <4>1, StateValues DEF StorageInv
    <3>2. /\ reservation'[k].state = "bound" => reservation[k].state = "bound"
          /\ reservation[k].state = "none" => reservation'[k].state = "none"
      BY <2>2, SweepOnlyRemoves DEF NoReservation
    <3>3. QED
      BY <1>0, <3>1, <3>2 DEF BoundInv
  <2>5. QED
    BY <2>3, <2>4 DEF StorageInv
<1>2. QED
  BY <1>1, CheckKeepsStorage

LEMMA PurgeKeepsStorage ==
    ASSUME QueueInv, StorageInv, PurgeJob
    PROVE  StorageInv'
<1>1. ASSUME NEW c \in Claim PROVE ChargeInv(c)'
  <2>1. /\ c[1] \in Post /\ reservation[c[1]].fresh \in 0..GraceTime
        /\ worker[c].recheck \in 0..RecheckTime /\ ChargeInv(c)
    BY ChargeFacts DEF StorageInv
  <2>2. ~(reservation[c[1]].fresh > 0)
    BY <2>1 DEF PurgeJob, PurgeBlocked
  <2>3. ~InTime(c)
    BY <2>1, <2>2, TimesAreNatural DEF ChargeInv, InTime
  <2>4. worker' = worker /\ post' = post
    BY DEF PurgeJob
  <2>5. QED
    BY <2>3, <2>4 DEF ChargeInv, InTime, HasPhase
<1>2. ASSUME NEW k \in Post PROVE BoundInv(k)'
  <2>1. reservation'[k].state = "none"
    BY DEF PurgeJob, NoReservation
  <2>2. QED
    BY <2>1 DEF BoundInv
<1>3. QED
  BY <1>1, <1>2 DEF StorageInv

LEMMA TimeKeepsStorage ==
    ASSUME QueueInv, WorkInv, StorageInv, Tick \/ WeekPasses
    PROVE  StorageInv'
<1>0. UNCHANGED <<post, drawn, job>>
  BY DEF Tick, WeekPasses
<1>1. ASSUME NEW c \in Claim PROVE ChargeInv(c)'
  <2>1. /\ c[1] \in Post /\ worker[c] \in Worker /\ reservation[c[1]] \in Reservation
        /\ reservation[c[1]].fresh \in 0..GraceTime
        /\ reservation[c[1]].left \in 0..AdmissionTime
        /\ worker[c].recheck \in 0..RecheckTime /\ ChargeInv(c)
    BY ChargeFacts DEF StorageInv
  <2>2. CASE Tick
    <3> DEFINE f == Down(reservation[c[1]].fresh)
               l == Down(reservation[c[1]].left)
               b == Down(worker[c].beat)
               e == Down(worker[c].recheck)
    <3>1. /\ reservation'[c[1]] = [reservation[c[1]] EXCEPT !.fresh = f, !.left = l]
          /\ worker'[c] = IF Due(c) THEN [worker[c] EXCEPT !.beat = 0, !.recheck = 0,
                                                           !.late = TRUE]
                          ELSE [worker[c] EXCEPT !.beat = b, !.recheck = e]
      BY <2>1, <2>2 DEF Tick
    <3>2. /\ reservation[c[1]].fresh > 0 => f = reservation[c[1]].fresh - 1
          /\ reservation[c[1]].left > 0 => l = reservation[c[1]].left - 1
          /\ worker[c].recheck > 0 => e = worker[c].recheck - 1
      BY <2>1, TimesAreNatural, DownType
    <3> HIDE DEF f, l, b, e
    <3>3. /\ reservation'[c[1]].state = reservation[c[1]].state
          /\ reservation'[c[1]].fresh = f /\ reservation'[c[1]].left = l
          /\ worker'[c].phase = worker[c].phase
          /\ ~worker'[c].late => ~Due(c) /\ ~worker[c].late /\ worker'[c].recheck = e
      BY <2>1, <3>1 DEF Reservation, Worker
    <3>4. ASSUME InTime(c)'
          PROVE  InTime(c) /\ worker[c].recheck > 0 /\ worker'[c].recheck = e
      BY <1>0, <2>1, <3>3, <3>4, TimesAreNatural DEF InTime, HasPhase, Due
    <3>5. ASSUME InTime(c)'
          PROVE  /\ job = "kept" /\ reservation'[c[1]].state # "none"
                 /\ reservation'[c[1]].fresh > worker'[c].recheck
                 /\ reservation'[c[1]].state = "admitting" =>
                      reservation'[c[1]].left > worker'[c].recheck
      <4>1. /\ job = "kept" /\ reservation[c[1]].state # "none"
            /\ reservation[c[1]].fresh > worker[c].recheck
            /\ reservation[c[1]].state = "admitting" =>
                 reservation[c[1]].left > worker[c].recheck
        BY <2>1, <3>4, <3>5 DEF ChargeInv, InTime
      <4>2. QED
        BY <2>1, <3>2, <3>3, <3>4, <3>5, <4>1, TimesAreNatural
    <3>6. QED
      BY <1>0, <3>5 DEF ChargeInv, InTime
  <2>3. CASE WeekPasses
    <3>1. ~HasPhase(c, Live)'
      BY <2>3 DEF WeekPasses, HasPhase
    <3>2. QED
      BY <3>1, PhaseGroups DEF ChargeInv, HasPhase
  <2>4. QED
    BY <2>2, <2>3
<1>2. ASSUME NEW k \in Post PROVE BoundInv(k)'
  <2>1. BoundInv(k) /\ queue[k] \in Request /\ reservation[k] \in Reservation
    BY FileTypes DEF StorageInv
  <2>2. CASE Tick
    <3>1. /\ queue'[k] = [queue[k] EXCEPT !.left = Down(queue[k].left)]
          /\ reservation'[k] = [reservation[k] EXCEPT !.fresh = Down(reservation[k].fresh),
                                                      !.left = Down(reservation[k].left)]
      BY <2>2 DEF Tick
    <3>2. queue'[k].state = queue[k].state /\ queue'[k].old = queue[k].old
      BY <2>1, <3>1 DEF Request
    <3>3. reservation'[k].state = reservation[k].state
      BY <2>1, <3>1 DEF Reservation
    <3>4. QED
      BY <1>0, <2>1, <3>2, <3>3 DEF BoundInv
  <2>3. CASE WeekPasses
    <3> DEFINE b == k \in Terminal
    <3>1. /\ queue'[k] = Aged(queue[k], b)
          /\ reservation'[k] = [reservation[k] EXCEPT !.fresh = 0, !.left = 0]
      BY <2>3 DEF WeekPasses, Aged
    <3>2. queue'[k].state = queue[k].state
      <4>1. b \in BOOLEAN
        OBVIOUS
      <4> HIDE DEF b
      <4>2. QED
        BY <2>1, <3>1, <4>1, AgedType
    <3>3. reservation'[k].state = reservation[k].state
      BY <2>1, <3>1 DEF Reservation
    <3>4. \A q \in Post : post[q] \in Quiet
      BY <2>3 DEF WeekPasses, Quiet
    <3>5. QED
      BY <1>0, <2>1, <3>2, <3>3, <3>4 DEF BoundInv
  <2>4. QED
    BY <2>2, <2>3
<1>3. QED
  BY <1>1, <1>2 DEF StorageInv

LEMMA StorageInvInductive ==
    /\ RenderInit => StorageInv
    /\ RecheckInTime /\ QueueInv /\ WorkInv /\ StorageInv /\ [RenderNext]_renderVars
         => StorageInv'
<1>1. RenderInit => StorageInv
  BY DEF RenderInit, StorageInv, ChargeInv, BoundInv, HasPhase, Writing, NoWorker,
     NoReservation, NoRequest
<1>2. ASSUME RecheckInTime, QueueInv, WorkInv, StorageInv, [RenderNext]_renderVars
      PROVE  StorageInv'
  <2>1. CASE UNCHANGED renderVars
    BY <1>2, <2>1 DEF StorageInv, ChargeInv, BoundInv, HasPhase, renderVars
  <2>2. ASSUME NEW p \in Post, PostStep(p) PROVE StorageInv'
    BY <1>2, <2>2, PostKeepsCharge, PostKeepsBound DEF StorageInv
  <2>3. CASE RenderNext
    BY <1>2, <2>2, <2>3, ClaimKeepsStorage, CancelKeepsStorage, WorkerKeepsStorage,
       PurgeKeepsStorage, TimeKeepsStorage DEF RenderNext, ClaimStep
  <2>4. QED
    BY <1>2, <2>1, <2>3
<1>3. QED
  BY <1>1, <1>2

(* While a worker that is in time writes into the job, the job is there    *)
(* and the reservation for its bytes too: neither the sweep nor the purge  *)
(* takes them, and what is bound has its request (renderReservations and   *)
(* checkRenderStorage of storage-accounting.mjs, purgeJob of               *)
(* job-deletion.mjs); for every choice of the times in which the storage   *)
(* heartbeat comes before the grace of the purge ends.                     *)
THEOREM WritersStayCharged ==
    ASSUME RecheckInTime
    PROVE  RenderSpec => []RenderIsCharged
<1>1. StorageInv => RenderIsCharged
  BY DEF StorageInv, ChargeInv, BoundInv, RenderIsCharged, WritersAreCharged
<1>2. /\ RenderInit => QueueInv /\ WorkInv /\ StorageInv
      /\ QueueInv /\ WorkInv /\ StorageInv /\ [RenderNext]_renderVars =>
           QueueInv' /\ WorkInv' /\ StorageInv'
  BY RecheckInTime, QueueInvInductive, WorkInvInductive, StorageInvInductive
<1>3. QED
  BY <1>1, <1>2, PTL DEF RenderSpec
=============================================================================
