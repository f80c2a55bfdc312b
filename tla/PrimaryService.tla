--------------------------- MODULE PrimaryService ---------------------------
(***************************************************************************)
(* The primary worker and its runners, composed with the queue they share. *)
(*                                                                         *)
(* primary-worker.mjs claims a job for each free slot and starts one       *)
(* run-job.mjs for the claim; the runner starts one child process after    *)
(* another (the download, one or two captions runs, the engine), each      *)
(* fenced by runFencedProcess: a heartbeat that renews the lease, a lease  *)
(* check that reads it without the lock, SIGTERM when either finds it      *)
(* gone, and SIGKILL after a grace.  A fenced update comes before each     *)
(* child but the second captions run.  A runner is named by the token of   *)
(* its claim.                                                              *)
(*                                                                         *)
(* Every step here that touches a file of the queue is a step of           *)
(* PrimaryQueue: this module adds who takes it and when.                   *)
(***************************************************************************)
EXTENDS PrimaryQueue

CONSTANTS
    Concurrency,  \* PRIMARY_WORKER_CONCURRENCY
    HeartbeatMs,  \* heartbeatMs of run-job: a third of the lease, in ticks
    CheckMs,      \* LEASE_CHECK_MS, in ticks
    KillMs,       \* the longest a child outlives its SIGTERM, in ticks
    Mishap        \* which of Mishaps may happen to the processes

(* Mishaps:                                                                *)
(*   container  the worker's container dies with every process in it       *)
(*   runner     a runner is killed alone, and its child goes on            *)
(*   update     a heartbeat's fencedUpdateJob fails, e.g. on the lock      *)
Mishaps == {"container", "runner", "update"}

ASSUME ServiceAssumption ==
    /\ Concurrency \in Nat \ {0}
    /\ HeartbeatMs \in Nat \ {0}
    /\ CheckMs \in Nat \ {0}
    /\ KillMs \in Nat \ {0}
    /\ Mishap \subseteq Mishaps

VARIABLES
    phase,    \* where the runner of each claim stands
    captions, \* captions runs in a row, the running one included; 0 when
              \* the runner's child is another
    orphans,  \* claims whose child goes on although the runner is dead
    beat,     \* time until the runner's next heartbeat is due
    check,    \* time until its next lease check is due
    grace     \* time until a stopped child is certainly gone

procVars == <<phase, captions, orphans, beat, check, grace>>
serviceVars == <<vars, procVars>>

-----------------------------------------------------------------------------
(* none      no claim made with this token                                 *)
(* claimed   the worker starts the runner                                  *)
(* working   the runner's child runs                                       *)
(* stopping  the child was sent SIGTERM                                    *)
(* between   the child ended well: the next one, or the publication        *)
(* failing   the child failed or was stopped: the job is marked failed     *)
(* exited    the runner ended, the worker has not noticed                  *)
(* gone      the worker is done with the claim                             *)
Phase == {"none", "claimed", "working", "stopping", "between", "failing",
          "exited", "gone"}

Running == {"claimed", "working", "stopping", "between", "failing"}

ChildAlive(t) == phase[t] \in {"working", "stopping"} \/ t \in orphans
FreeSlot == Cardinality({t \in Token : phase[t] \notin {"none", "gone"}})
              < Concurrency

ServiceTypeOK ==
    /\ phase \in [Token -> Phase]
    /\ captions \in [Token -> 0..2]
    /\ orphans \in SUBSET Token
    /\ beat \in [Token -> 0..HeartbeatMs]
    /\ check \in [Token -> 0..CheckMs]
    /\ grace \in [Token -> 0..KillMs]

ServiceInit ==
    /\ Init
    /\ phase = [t \in Token |-> "none"]
    /\ captions = [t \in Token |-> 0]
    /\ orphans = {}
    /\ beat = [t \in Token |-> 0]
    /\ check = [t \in Token |-> 0]
    /\ grace = [t \in Token |-> 0]

Enter(t, next) == phase' = [phase EXCEPT ![t] = next]
RewindLate(timer, t, period) == timer' = [timer EXCEPT ![t] = period + 1]
                                                                 \* seeded fault
Rewind(timer, t, period) == timer' = [timer EXCEPT ![t] = period]

Held(t) == issued[t] # None /\ LeaseHeld(issued[t], t)

-----------------------------------------------------------------------------
(* The worker's slots                                                      *)

(* A free slot claims, and runClaim starts the runner.                     *)
SlotClaims(t) ==
    /\ FreeSlot
    /\ ClaimNextJob(t)
    /\ Enter(t, "claimed")
    /\ Rewind(beat, t, HeartbeatMs)
    /\ UNCHANGED <<captions, orphans, check, grace>>

SlotFindsNothing ==
    /\ FreeSlot
    /\ ClaimFindsNothing
    /\ UNCHANGED procVars

(* The runner could not be started, or its claim is no longer valid.       *)
StartFails(t) ==
    /\ phase[t] = "claimed"
    /\ Enter(t, "exited")
    /\ UNCHANGED <<vars, captions, orphans, beat, check, grace>>

SettleUnfenced(t) ==                                             \* seeded fault
    /\ phase[t] = "exited"
    /\ IF issued[t] # None /\ job[issued[t]].status # "none"
         THEN /\ job' = [job EXCEPT ![issued[t]] = Failed(@)]
              /\ UNCHANGED <<dir, publishedBy, reserved, resvLeft, tombstone,
                             safeLeft, request, issued, historyVars>>
         ELSE UNCHANGED vars
    /\ Enter(t, "gone")
    /\ UNCHANGED <<captions, orphans, beat, check, grace>>

(* The runner closed: failClaimedJob, which does nothing to a job whose    *)
(* lease the claim no longer holds.                                        *)
SlotSettles(t) ==
    /\ phase[t] = "exited"
    /\ IF Held(t) THEN FencedFail(issued[t], t) ELSE UNCHANGED vars
    /\ Enter(t, "gone")
    /\ UNCHANGED <<captions, orphans, beat, check, grace>>

-----------------------------------------------------------------------------
(* The runner and its child                                                *)

CaptionsLeft(t, n) == captions' = [captions EXCEPT ![t] = n]

(* The first child, or the next one, after a fenced update.  Two captions  *)
(* runs, or one where only automatic captions are asked for, come later    *)
(* than the download.                                                      *)
StartChild(t) ==
    /\ phase[t] \in {"claimed", "between"}
    /\ IF Held(t)
         THEN /\ FencedUpdate(issued[t], t)
              /\ Enter(t, "working")
              /\ \E n \in 0..2 : /\ phase[t] = "claimed" => n = 0
                                 /\ CaptionsLeft(t, n)
              /\ Rewind(beat, t, HeartbeatMs)
              /\ Rewind(check, t, CheckMs)
         ELSE /\ Enter(t, "exited")
              /\ UNCHANGED <<vars, captions, beat, check>>
    /\ UNCHANGED <<orphans, grace>>

(* terminate: SIGTERM, and the escalation is set.                          *)
Terminate(t) ==
    /\ Enter(t, "stopping")
    /\ Rewind(grace, t, KillMs)

(* terminate with a LeaseLostError, which fetchYouTubeCaptions rethrows.   *)
LoseLease(t) == Terminate(t) /\ CaptionsLeft(t, 0)

HeartbeatKept(t) ==                                              \* seeded fault
    /\ phase[t] \in {"working", "stopping"}
    /\ Rewind(beat, t, HeartbeatMs)
    /\ UNCHANGED <<vars, phase, captions, orphans, check, grace>>

(* The heartbeat goes on while the child is being stopped, and the first   *)
(* reason to stop it is the one that counts.                               *)
Heartbeat(t) ==
    /\ phase[t] \in {"working", "stopping"}
    /\ Rewind(beat, t, HeartbeatMs)
    /\ IF Held(t)
         THEN FencedUpdate(issued[t], t) /\ UNCHANGED <<phase, captions, grace>>
         ELSE /\ UNCHANGED vars
              /\ IF phase[t] = "working"
                   THEN LoseLease(t)
                   ELSE UNCHANGED <<phase, captions, grace>>
    /\ UNCHANGED <<orphans, check>>

HeartbeatFails(t) ==
    /\ "update" \in Mishap
    /\ phase[t] = "working"
    /\ Rewind(beat, t, HeartbeatMs)
    /\ Terminate(t)
    /\ UNCHANGED <<vars, captions, orphans, check>>

LeaseCheck(t) ==
    /\ phase[t] = "working"
    /\ Rewind(check, t, CheckMs)
    /\ IF Held(t) THEN UNCHANGED <<phase, captions, grace>> ELSE LoseLease(t)
    /\ UNCHANGED <<vars, orphans, beat>>

(* The download monitor's stall verdict, or a captions run's time limit.   *)
StopChild(t) ==
    /\ phase[t] = "working"
    /\ Terminate(t)
    /\ UNCHANGED <<vars, captions, orphans, beat, check>>

(* A captions run is over, however it ended: the other one follows with a  *)
(* heartbeat of its own and no update before it.                           *)
CaptionsRunOver(t) ==
    /\ CaptionsLeft(t, captions[t] - 1)
    /\ IF captions[t] = 2
         THEN /\ Enter(t, "working")
              /\ Rewind(beat, t, HeartbeatMs)
              /\ Rewind(check, t, CheckMs)
         ELSE /\ Enter(t, "between")
              /\ UNCHANGED <<beat, check>>

ChildEnds(t) ==
    /\ phase[t] = "working"
    /\ IF captions[t] > 0
         THEN CaptionsRunOver(t)
         ELSE /\ \E next \in {"between", "failing"} : Enter(t, next)
              /\ UNCHANGED <<captions, beat, check>>
    /\ UNCHANGED <<vars, orphans, grace>>

(* The stopped child ends by itself, or by SIGKILL.                        *)
StoppedChildEnds(t) ==
    /\ phase[t] = "stopping"
    /\ IF captions[t] > 0
         THEN CaptionsRunOver(t)
         ELSE Enter(t, "failing") /\ UNCHANGED <<captions, beat, check>>
    /\ UNCHANGED <<vars, orphans, grace>>

(* The child writes into its attempt's directory.                          *)
ChildWrites(t) ==
    /\ ChildAlive(t)
    /\ \E j \in Job : AttemptWrites(j, t)
    /\ UNCHANGED procVars

(* The runner publishes and completes the job, or finds its lease lost.    *)
RunnerPublishes(t) ==
    /\ phase[t] = "between"
    /\ IF Held(t) THEN PublishAttemptAndComplete(issued[t], t)
                  ELSE UNCHANGED vars
    /\ Enter(t, "exited")
    /\ UNCHANGED <<captions, orphans, beat, check, grace>>

RunnerFails(t) ==
    /\ phase[t] = "failing"
    /\ IF Held(t) THEN FencedFail(issued[t], t) ELSE UNCHANGED vars
    /\ Enter(t, "exited")
    /\ UNCHANGED <<captions, orphans, beat, check, grace>>

-----------------------------------------------------------------------------
(* Deaths                                                                  *)

RunnerDies(t) ==
    /\ "runner" \in Mishap
    /\ phase[t] \in Running
    /\ orphans' = IF ChildAlive(t) THEN orphans \union {t} ELSE orphans
    /\ Enter(t, "exited")
    /\ CaptionsLeft(t, 0)
    /\ UNCHANGED <<vars, beat, check, grace>>

RunnerDiesPublishing(t) ==
    /\ phase[t] = "between"
    /\ Held(t)
    /\ PublishAttemptTorn(issued[t], t)
    /\ Enter(t, "exited")
    /\ UNCHANGED <<captions, orphans, beat, check, grace>>

OrphanEnds(t) ==
    /\ t \in orphans
    /\ orphans' = orphans \ {t}
    /\ UNCHANGED <<vars, phase, captions, beat, check, grace>>

ContainerDies ==
    /\ "container" \in Mishap
    /\ \E t \in Token : phase[t] \notin {"none", "gone"}
    /\ phase' = [t \in Token |-> IF phase[t] = "none" THEN "none" ELSE "gone"]
    /\ orphans' = {}
    /\ captions' = [t \in Token |-> 0]
    /\ UNCHANGED <<vars, beat, check, grace>>

-----------------------------------------------------------------------------
(* Time passes while no timer is due: a live runner serves its timers, and *)
(* what it does between two children takes less than a heartbeat.  From an *)
(* update to the start of the child it reads small files only, no time.    *)
TimersServed ==
    \A t \in Token :
      /\ phase[t] \in {"claimed", "working", "stopping", "between"} => beat[t] > 0
      /\ phase[t] = "working" => check[t] > 0
      /\ phase[t] = "stopping" => grace[t] > 0

ServiceTick ==
    /\ TimersServed
    /\ Tick
    /\ beat' = CountDown(beat)
    /\ check' = CountDown(check)
    /\ grace' = CountDown(grace)
    /\ UNCHANGED <<phase, captions, orphans>>

RunnerStep(t) ==
    \/ StartChild(t)
    \/ Heartbeat(t)
    \/ HeartbeatFails(t)
    \/ LeaseCheck(t)
    \/ StopChild(t)
    \/ ChildEnds(t)
    \/ ChildWrites(t)
    \/ StoppedChildEnds(t)
    \/ RunnerPublishes(t)
    \/ RunnerFails(t)
    \/ RunnerDies(t)
    \/ RunnerDiesPublishing(t)
    \/ OrphanEnds(t)

WorkerStep(t) ==
    \/ SlotClaims(t)
    \/ StartFails(t)
    \/ SlotSettles(t)

(* Requests and people, in the web app.                                    *)
WebStep ==
    /\ \/ SweepReservations
       \/ \E j \in Job : RequestStep(j)
       \/ \E j \in Job : PersonStep(j)
    /\ UNCHANGED procVars

ServiceNext ==
    \/ WebStep
    \/ \E t \in Token : WorkerStep(t) \/ RunnerStep(t)
    \/ SlotFindsNothing
    \/ ContainerDies
    \/ ServiceTick

ServiceSpec == ServiceInit /\ [][ServiceNext]_serviceVars

(* The worker polls, its processes make progress, every child ends at last *)
(* (there is no limit on the engine's time), a runner has few children and *)
(* so publishes at last, and time passes.                                  *)
ServiceFairness ==
    /\ WF_serviceVars(SlotFindsNothing)
    /\ WF_serviceVars(\E t \in Token : SlotClaims(t))
    /\ \A t \in Token :
         /\ WF_serviceVars(StartChild(t))
         /\ WF_serviceVars(SlotSettles(t))
         /\ WF_serviceVars(ChildEnds(t) \/ StoppedChildEnds(t))
         /\ WF_serviceVars(RunnerFails(t))
         /\ SF_serviceVars(RunnerPublishes(t))
    /\ WF_serviceVars(ServiceTick)

FairServiceSpec == ServiceSpec /\ ServiceFairness

-----------------------------------------------------------------------------
(* Properties                                                              *)

(* At most one child works on a job at any time, over lease expiry,        *)
(* crashes and reclaims: two engines never process the same video          *)
(* (claimNextJob, the heartbeat of runFencedProcess).                      *)
OneChildPerJob ==
    \A t, u \in Token :
      ChildAlive(t) /\ ChildAlive(u) /\ issued[t] = issued[u] => t = u

(* "bytes are never removed from under a live writer": a purge never takes *)
(* the directory of a job whose child process is still alive               *)
(* (requestJobDeletion, cancelPrimaryJob, runFencedProcess).               *)
PurgeSparesLiveChild ==
    [][\A t \in Token :
         ChildAlive(t) /\ dir[issued[t]] # "absent"
           => dir'[issued[t]] # "absent"]_serviceVars

(* The worker, its runners and the web app do to the queue only what the   *)
(* queue's own specification lets the holder of a claim, a request or a    *)
(* person do, so its properties carry over (runClaim, run-job main).       *)
ImplementsQueue == Spec

(* Every job that is queued is settled at last: completed, failed,         *)
(* cancelled or deleted.  No crash, expiry or lost claim leaves it queued  *)
(* or running for ever (claimNextJob, failClaimedJob, PRIMARY_MAX_ATTEMPTS).*)
JobsSettle ==
    \A j \in Job : job[j].status \in Active ~> job[j].status \notin Active
=============================================================================
