----------------------------- MODULE QueueLock ------------------------------
(***************************************************************************)
(* The lock of the primary queue: acquireQueueLock, its heartbeat and its  *)
(* release.  The lock is the directory .primary-queue.lock; owner.json in  *)
(* it names the holder and carries its heartbeat, and the subdirectory     *)
(* .reclaim is the marker under which one process at a time renews the     *)
(* lock, releases it, or takes it from a holder that stopped renewing.     *)
(*                                                                         *)
(* Each action is one file system call, or a call and the reads before it  *)
(* that no other call can tell apart.  A Process is one caller: the web    *)
(* app's requests, the worker's slots and the runners all share the lock.  *)
(***************************************************************************)
EXTENDS Naturals, FiniteSets

CONSTANTS
    Process,    \* callers of acquireQueueLock
    None,       \* no process
    StaleMs,    \* LOCK_STALE_MS, in ticks
    MaxCrashes, \* bound on the number of crashes
    Env         \* which of Faults the environment may produce

(* Faults:                                                                 *)
(*   crash        a process dies while it does not hold the marker         *)
(*   crashMarked  a process dies while it holds the marker                 *)
(*   restart      a dead process comes back, as a new caller               *)
(*   write        owner.json cannot be written into the new lock           *)
(*   stall        a holder may stop for longer than StaleMs and resume     *)
Faults == {"crash", "crashMarked", "restart", "write", "stall"}

ASSUME LockAssumption ==
    /\ None \notin Process
    /\ StaleMs \in Nat \ {0, 1}
    /\ MaxCrashes \in Nat
    /\ Env \subseteq Faults

VARIABLES
    exists,     \* whether the lock directory exists
    owner,      \* the token in owner.json, None when there is no such file
    marker,     \* whether .reclaim exists in the lock directory
    fresh,      \* time until the lock counts as stale: its heartbeat, or
                \* the directory's mtime while there is no owner.json
    pc,         \* where each process stands
    aborted,    \* processes whose renewal failed, their signal aborted
    maker,      \* (history) the process that made the lock directory
    overtaken,  \* (history) processes that lost the lock inside the callback,
                \* save between a renewal's check and its write
    crashes     \* number of crashes so far

lockVars == <<exists, owner, marker, fresh, maker>>
vars == <<lockVars, pc, aborted, overtaken, crashes>>

-----------------------------------------------------------------------------
Callback == {"held", "renewing", "rewriting", "renewed"}
Leaving == {"releasing", "unlinking", "unlinked", "emptied", "failing"}
Holding == {"made"} \union Callback \union Leaving
Waiting == {"trying", "waiting", "stale", "rechecking", "moving", "unmarking"}

(* Between making the marker and removing it.                              *)
Marked == {"renewing", "rewriting", "renewed", "releasing", "unlinking",
           "unlinked", "failing", "rechecking", "moving", "unmarking"}

InCallback(p) == pc[p] \in Callback

TypeOK ==
    /\ exists \in BOOLEAN
    /\ owner \in Process \union {None}
    /\ marker \in BOOLEAN
    /\ fresh \in 0..StaleMs
    /\ pc \in [Process -> {"idle", "down"} \union Waiting \union Holding]
    /\ aborted \in SUBSET Process
    /\ maker \in Process \union {None}
    /\ overtaken \in SUBSET Process
    /\ crashes \in 0..MaxCrashes

Init ==
    /\ exists = FALSE
    /\ owner = None
    /\ marker = FALSE
    /\ fresh = 0
    /\ pc = [p \in Process |-> "idle"]
    /\ aborted = {}
    /\ maker = None
    /\ overtaken = {}
    /\ crashes = 0

Go(p, at) == pc' = [pc EXCEPT ![p] = at]

(* Making or removing an entry renews the mtime of the directory, which    *)
(* counts while there is no owner.json.                                    *)
TouchedLate == IF owner = None THEN StaleMs + 1 ELSE fresh       \* seeded fault
Touched == IF owner = None THEN StaleMs ELSE fresh

(* Who loses the lock when p moves it aside or writes its own token.  A    *)
(* holder that has just read its own token and is about to write it again  *)
(* is left out: the write will put it back in place.                       *)
Overtaken(p) == {q \in Process \ {p} : InCallback(q) /\ pc[q] # "rewriting"}

-----------------------------------------------------------------------------
(* Acquiring                                                               *)

Begin(p) ==
    /\ pc[p] = "idle"
    /\ Go(p, "trying")
    /\ UNCHANGED <<lockVars, aborted, overtaken, crashes>>

(* mkdir of the lock directory.                                            *)
MakeLock(p) ==
    /\ pc[p] = "trying"
    /\ ~exists
    /\ exists' = TRUE /\ owner' = None /\ marker' = FALSE
    /\ fresh' = StaleMs
    /\ maker' = p
    /\ Go(p, "made")
    /\ UNCHANGED <<aborted, overtaken, crashes>>

(* durableWriteJson of owner.json: it makes the directory again if it is   *)
(* gone, and replaces an owner.json that is there.                         *)
PutOwner(p) ==
    /\ exists' = TRUE
    /\ marker' = (exists /\ marker)
    /\ maker' = IF exists THEN maker ELSE p
    /\ owner' = p
    /\ fresh' = StaleMs
    /\ overtaken' = overtaken \union Overtaken(p)

(* The write fails on a disk error, and when the directory was moved aside *)
(* with the pending file in it.                                            *)
WriteMayFail(p) == "write" \in Env \/ ~exists \/ maker # p

WriteOwner(p) ==
    /\ pc[p] = "made"
    /\ PutOwner(p)
    /\ Go(p, "held")
    /\ UNCHANGED <<aborted, crashes>>

WriteOwnerFails(p) ==
    /\ pc[p] = "made"
    /\ WriteMayFail(p)
    /\ Go(p, "idle")
    /\ UNCHANGED <<lockVars, aborted, overtaken, crashes>>

(* EEXIST: the waiter looks at the heartbeat.  It remembers no more of it  *)
(* than that it was stale.                                                 *)
StaleAtOnce == exists                                            \* seeded fault
StaleWithOwner == exists /\ owner # None /\ fresh = 0            \* seeded fault
Stale == exists /\ fresh = 0

Inspect(p) ==
    /\ pc[p] = "trying"
    /\ exists
    /\ Go(p, IF Stale THEN "stale" ELSE "waiting")
    /\ UNCHANGED <<lockVars, aborted, overtaken, crashes>>

(* Another round after the delay, or the deadline.                         *)
Retry(p) ==
    /\ pc[p] = "waiting"
    /\ Go(p, "trying")
    /\ UNCHANGED <<lockVars, aborted, overtaken, crashes>>

GiveUp(p) ==
    /\ pc[p] = "waiting"
    /\ Go(p, "idle")
    /\ UNCHANGED <<lockVars, aborted, overtaken, crashes>>

-----------------------------------------------------------------------------
(* Taking a stale lock                                                     *)

(* mkdir of the marker.  EEXIST and ENOENT send the waiter back.           *)
MarkStale(p) ==
    /\ pc[p] = "stale"
    /\ IF exists /\ ~marker
         THEN /\ marker' = TRUE
              /\ fresh' = Touched
              /\ Go(p, "rechecking")
         ELSE /\ Go(p, "waiting")
              /\ UNCHANGED <<marker, fresh>>
    /\ UNCHANGED <<exists, owner, maker, aborted, overtaken, crashes>>

(* The heartbeat is read again under the marker; without an owner.json the *)
(* remembered one counts, and that was stale.                              *)
Recheck(p) ==
    /\ pc[p] = "rechecking"
    /\ Go(p, IF owner = None \/ fresh = 0 THEN "moving" ELSE "unmarking")
    /\ UNCHANGED <<lockVars, aborted, overtaken, crashes>>

(* rename of the whole directory to .abandoned, and its removal.           *)
MoveAside(p) ==
    /\ pc[p] = "moving"
    /\ exists' = FALSE /\ owner' = None /\ marker' = FALSE /\ fresh' = 0
    /\ maker' = None
    /\ overtaken' = overtaken \union Overtaken(p)
    /\ Go(p, IF exists THEN "trying" ELSE "waiting")
    /\ UNCHANGED <<aborted, crashes>>

Unmark(p) ==
    /\ pc[p] = "unmarking"
    /\ marker' = FALSE
    /\ fresh' = IF marker THEN Touched ELSE fresh
    /\ Go(p, "waiting")
    /\ UNCHANGED <<exists, owner, maker, aborted, overtaken, crashes>>

-----------------------------------------------------------------------------
(* The heartbeat of a holder                                               *)

OwnerPresent(p) == owner # None                                  \* seeded fault
Owns(p) == owner = p

(* mkdir of the marker; a failure aborts the callback's signal, and the    *)
(* heartbeat goes on.                                                      *)
RenewMark(p) ==
    /\ pc[p] = "held"
    /\ IF exists /\ ~marker
         THEN /\ marker' = TRUE
              /\ fresh' = Touched
              /\ Go(p, "renewing")
              /\ UNCHANGED aborted
         ELSE /\ aborted' = aborted \union {p}
              /\ UNCHANGED <<marker, fresh, pc>>
    /\ UNCHANGED <<exists, owner, maker, overtaken, crashes>>

(* The read of owner.json, which must name this holder.                    *)
RenewCheck(p) ==
    /\ pc[p] = "renewing"
    /\ IF Owns(p)
         THEN Go(p, "rewriting") /\ UNCHANGED aborted
         ELSE Go(p, "renewed") /\ aborted' = aborted \union {p}
    /\ UNCHANGED <<lockVars, overtaken, crashes>>

(* The write, after which owner.json names this holder whoever has moved   *)
(* the lock or written its own token since the read.                       *)
RenewWrite(p) ==
    /\ pc[p] = "rewriting"
    /\ PutOwner(p)
    /\ Go(p, "renewed")
    /\ UNCHANGED <<aborted, crashes>>

RenewWriteFails(p) ==
    /\ pc[p] = "rewriting"
    /\ WriteMayFail(p)
    /\ aborted' = aborted \union {p}
    /\ Go(p, "renewed")
    /\ UNCHANGED <<lockVars, overtaken, crashes>>

RenewUnmark(p) ==
    /\ pc[p] = "renewed"
    /\ marker' = FALSE
    /\ fresh' = IF marker THEN Touched ELSE fresh
    /\ Go(p, "held")
    /\ UNCHANGED <<exists, owner, maker, aborted, overtaken, crashes>>

-----------------------------------------------------------------------------
(* Releasing                                                               *)

(* The end of a call; the next call starts with a fresh token.             *)
Leave(p) ==
    /\ Go(p, "idle")
    /\ aborted' = aborted \ {p}
    /\ overtaken' = overtaken \ {p}

ReleaseMark(p) ==
    /\ pc[p] = "held"
    /\ IF exists /\ ~marker
         THEN /\ marker' = TRUE
              /\ fresh' = Touched
              /\ Go(p, "releasing")
              /\ UNCHANGED <<aborted, overtaken>>
         ELSE /\ Leave(p)
              /\ UNCHANGED <<marker, fresh>>
    /\ UNCHANGED <<exists, owner, maker, crashes>>

(* The read of owner.json, which must still name this holder.              *)
ReleaseCheck(p) ==
    /\ pc[p] = "releasing"
    /\ Go(p, IF Owns(p) THEN "unlinking" ELSE "failing")
    /\ UNCHANGED <<lockVars, aborted, overtaken, crashes>>

(* unlink of whatever owner.json is there by now.                          *)
ReleaseUnlink(p) ==
    /\ pc[p] = "unlinking"
    /\ IF owner # None
         THEN owner' = None /\ fresh' = StaleMs /\ Go(p, "unlinked")
         ELSE Go(p, "failing") /\ UNCHANGED <<owner, fresh>>
    /\ UNCHANGED <<exists, marker, maker, aborted, overtaken, crashes>>

ReleaseUnmark(p) ==
    /\ pc[p] = "unlinked"
    /\ IF marker
         THEN /\ marker' = FALSE
              /\ fresh' = Touched
              /\ Go(p, "emptied")
         ELSE Go(p, "failing") /\ UNCHANGED <<marker, fresh>>
    /\ UNCHANGED <<exists, owner, maker, aborted, overtaken, crashes>>

(* The catch branch: the marker is removed, whoever made it, and the       *)
(* release throws.                                                         *)
ReleaseFail(p) ==
    /\ pc[p] = "failing"
    /\ marker' = FALSE
    /\ fresh' = IF marker THEN Touched ELSE fresh
    /\ Leave(p)
    /\ UNCHANGED <<exists, owner, maker, crashes>>

(* rmdir of the lock directory, which must be there and empty.             *)
ReleaseRemove(p) ==
    /\ pc[p] = "emptied"
    /\ IF exists /\ owner = None /\ ~marker
         THEN exists' = FALSE /\ fresh' = 0 /\ maker' = None
         ELSE UNCHANGED <<exists, fresh, maker>>
    /\ Leave(p)
    /\ UNCHANGED <<owner, marker, crashes>>

-----------------------------------------------------------------------------
(* Crashes and time                                                        *)

Crash(p) ==
    /\ IF pc[p] \in Marked THEN "crashMarked" \in Env ELSE "crash" \in Env
    /\ pc[p] \notin {"idle", "down"}
    /\ crashes < MaxCrashes
    /\ crashes' = crashes + 1
    /\ Go(p, "down")
    /\ aborted' = aborted \ {p}
    /\ overtaken' = overtaken \ {p}
    /\ UNCHANGED lockVars

Restart(p) ==
    /\ "restart" \in Env
    /\ pc[p] = "down"
    /\ Go(p, "idle")
    /\ UNCHANGED <<lockVars, aborted, overtaken, crashes>>

(* A live holder renews every StaleMs / 3 and makes its other calls sooner *)
(* than that, so its lock is never seen stale, unless it stalls.           *)
Prompt == fresh > 1 \/ \A p \in Process : pc[p] \notin Holding

Tick ==
    /\ exists
    /\ fresh > 0
    /\ Prompt \/ "stall" \in Env
    /\ fresh' = fresh - 1
    /\ UNCHANGED <<exists, owner, marker, maker, pc, aborted, overtaken, crashes>>

-----------------------------------------------------------------------------
AcquireStep(p) ==
    \/ MakeLock(p)
    \/ WriteOwner(p)
    \/ WriteOwnerFails(p)
    \/ Inspect(p)
    \/ Retry(p)
    \/ GiveUp(p)
    \/ MarkStale(p)
    \/ Recheck(p)
    \/ MoveAside(p)
    \/ Unmark(p)

RenewEnds(p) ==
    \/ RenewCheck(p)
    \/ RenewWrite(p)
    \/ RenewWriteFails(p)
    \/ RenewUnmark(p)

RenewStep(p) == RenewMark(p) \/ RenewEnds(p)

ReleaseStep(p) ==
    \/ ReleaseMark(p)
    \/ ReleaseCheck(p)
    \/ ReleaseUnlink(p)
    \/ ReleaseUnmark(p)
    \/ ReleaseFail(p)
    \/ ReleaseRemove(p)

Next ==
    \/ \E p \in Process :
         \/ Begin(p)
         \/ AcquireStep(p)
         \/ RenewStep(p)
         \/ ReleaseStep(p)
         \/ Crash(p)
         \/ Restart(p)
    \/ Tick

Spec == Init /\ [][Next]_vars

(* A process that is up finishes what it has begun: the calls return, the  *)
(* callback ends, and time passes.  Nobody has to begin.                   *)
Fairness ==
    /\ \A p \in Process :
         /\ WF_vars(AcquireStep(p))
         /\ WF_vars(RenewEnds(p))
         /\ SF_vars(ReleaseStep(p))
    /\ WF_vars(Tick)

FairSpec == Spec /\ Fairness

-----------------------------------------------------------------------------
(* Properties                                                              *)

(* No two callbacks run at once: what makes every operation of the queue   *)
(* one step for the others (withPrimaryQueueLock; test "the waiter must    *)
(* not enter while the lock is held").                                     *)
MutualExclusion ==
    \A p, q \in Process : InCallback(p) /\ InCallback(q) => p = q

(* A caller whose lock was taken over inside its callback never gets past  *)
(* the ownership check of its release, so its operation is reported as     *)
(* failed (renew, release; test "lock ownership loss aborts the callback   *)
(* and fails closed").  The one exception is a takeover that falls between *)
(* the read of owner.json in a renewal and the write that follows it.      *)
OvertakenIsReported ==
    \A p \in overtaken : pc[p] \notin {"unlinking", "unlinked", "emptied"}

(* A lock whose holder is gone is taken over: unless a process died inside *)
(* the marker and left it there, the lock is not left in place with nobody *)
(* holding it while callers keep coming for it (acquireQueueLock; test "a  *)
(* lock whose holder stops renewing is taken over once the stale interval  *)
(* passes").                                                               *)
MarkerLeft == marker /\ \A p \in Process : pc[p] \notin Marked
Abandoned == exists /\ ~MarkerLeft /\ \A p \in Process : pc[p] \notin Holding
Quiet == \A p \in Process : pc[p] \in {"idle", "down"}
LockIsRecovered == <>[]Abandoned => <>[]Quiet
=============================================================================
