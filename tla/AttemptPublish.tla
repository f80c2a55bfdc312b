--------------------------- MODULE AttemptPublish ---------------------------
(***************************************************************************)
(* publishAttemptAndComplete, one file operation at a time.                *)
(*                                                                         *)
(*   <id>/.attempts/<hash of t>/<e>     staged[t][e]                       *)
(*   <id>/<e> with its owner marker     published[j][e]                    *)
(*   <id>/.attempts/orphan.<e>.<uuid>   <<e, t>> in orphaned               *)
(*   job.json, sourcePath               source[j]                          *)
(*                                                                         *)
(* An attempt stages its directories without any lock; under the lock they *)
(* are stamped, those of another attempt are moved aside, its own renamed  *)
(* into place, and job.json commits.  The publication may stop between any *)
(* two of these, by a death or by an error, and may be called again.       *)
(*                                                                         *)
(* PrimaryQueue does all this in one step, or torn; here `Queue' is that   *)
(* module with publishedBy read off the published output.  The operations  *)
(* taken over from it wait for the lock, which a publication holds.        *)
(*                                                                         *)
(* An empty directory counts as an absent one: retirePublished removes it. *)
(***************************************************************************)
EXTENDS Naturals, FiniteSets

CONSTANTS
    Job, Token, None, MaxAttempts, MaxActiveJobs, LeaseMs, ReservationMs,
    CreatedAt, Env,     \* as in PrimaryQueue
    Published           \* a sourcePath below <id>/input/

VARIABLES
    job, dir, reserved, resvLeft, tombstone, safeLeft, request, issued,
    lastClaim, revokedLeft,   \* as in PrimaryQueue
    fetched,      \* jobs whose source is a YouTube link
    staged,       \* the directories of each attempt
    published,    \* the attempt whose marker each served directory carries
    orphaned,     \* the directories that were moved aside
    source,       \* the attempt whose download sourcePath names
    publishing    \* the attempt whose publication holds the lock

ServedBy == [j \in Job |-> published[j]["output"]]

Queue == INSTANCE PrimaryQueue WITH publishedBy <- ServedBy

(* The assumptions of PrimaryQueue, of which a torn publication is one.    *)
ASSUME PublishAssumption ==
    /\ IsFiniteSet(Job) /\ IsFiniteSet(Token)
    /\ None \notin Job /\ None \notin Token
    /\ Published \notin Token \union {None}
    /\ MaxAttempts \in Nat \ {0} /\ MaxActiveJobs \in Nat \ {0}
    /\ LeaseMs \in Nat \ {0} /\ ReservationMs \in Nat \ {0}
    /\ CreatedAt \subseteq Nat
    /\ Env \subseteq Queue!Faults /\ "publish" \in Env

recordVars == <<job, dir, reserved, resvLeft, tombstone, safeLeft, request,
                issued, lastClaim, revokedLeft>>
artifactVars == <<fetched, staged, published, orphaned, source>>
publishVars == <<recordVars, artifactVars, publishing>>

Directory == {"analysis", "input", "output"}
Rank == [analysis |-> 1, input |-> 2, output |-> 3]
NoStaged == [e \in Directory |-> "none"]
NothingPublished == [e \in Directory |-> None]

PublishTypeOK ==
    /\ Queue!TypeOK
    /\ fetched \in SUBSET Job
    /\ staged \in [Token -> [Directory -> {"none", "bare", "stamped"}]]
    /\ published \in [Job -> [Directory -> Token \union {None}]]
    /\ orphaned \in SUBSET (Directory \X Token)
    /\ source \in [Job -> Token \union {None, Published}]
    /\ publishing \in Token \union {None}

PublishInit ==
    /\ fetched \in SUBSET Job
    /\ staged = [t \in Token |-> NoStaged]
    /\ published = [j \in Job |-> NothingPublished]
    /\ orphaned = {}
    /\ source = [j \in Job |-> None]
    /\ publishing = None
    /\ Queue!Init

-----------------------------------------------------------------------------
(* What an attempt publishes, in the order of the code: the input only if  *)
(* sourcePath lies in its own download, analysis only if there is one.     *)
Entries(t) ==
    LET j == issued[t]
    IN {"analysis", "output"}
         \union (IF j \in fetched /\ source[j] = t THEN {"input"} ELSE {})

Required(t) == Entries(t) \ {"analysis"}

OursIfStaged(t, e) == published[issued[t]][e] = t /\ staged[t][e] # "none"
                                                                 \* seeded fault
Ours(t, e) == published[issued[t]][e] = t

Ready(t) == \A e \in Required(t) : staged[t][e] # "none" \/ Ours(t, e)

Unstamped(t) == {e \in Entries(t) : staged[t][e] = "bare" /\ ~Ours(t, e)}

ForeignIfStaged(t) ==                                            \* seeded fault
    {e \in Entries(t) : /\ published[issued[t]][e] # None /\ ~Ours(t, e)
                        /\ staged[t][e] # "none"}
ForeignOrAbsent(t) == {e \in Entries(t) : ~Ours(t, e)}           \* seeded fault
Foreign(t) ==
    {e \in Entries(t) : published[issued[t]][e] # None /\ ~Ours(t, e)}

Movable(t) == {e \in Entries(t) : staged[t][e] # "none" /\ ~Ours(t, e)}

Earliest(S) == CHOOSE e \in S : \A f \in S : Rank[e] <= Rank[f]

-----------------------------------------------------------------------------
(* The attempt                                                             *)

(* The download, then the engine, write below the attempt's directory.     *)
StageDirectory(t, e) ==
    /\ publishing # t
    /\ \E j \in Job :
         /\ e = "input" => j \in fetched
         /\ e # "input" /\ j \in fetched => source[j] = t
         /\ staged[t][e] = "none" /\ published[j][e] # t
         /\ <<e, t>> \notin orphaned
         /\ staged' = [staged EXCEPT ![t][e] = "bare"]
         /\ UNCHANGED <<fetched, published, orphaned, source, publishing>>
         /\ Queue!AttemptWrites(j, t)

(* After the download, sourcePath is set by a fenced update.               *)
RecordSource(j, t) ==
    /\ publishing = None
    /\ j \in fetched
    /\ staged[t]["input"] # "none"
    /\ source' = [source EXCEPT ![j] = t]
    /\ UNCHANGED <<fetched, staged, published, orphaned, publishing>>
    /\ Queue!FencedUpdate(j, t)

(* The runner of a cancelled job deletes its attempt's directory.          *)
DiscardAttempt(j, t) ==
    /\ issued[t] = j
    /\ job[j].status = "cancelled"
    /\ staged' = [staged EXCEPT ![t] = NoStaged]
    /\ UNCHANGED <<recordVars, fetched, published, orphaned, source,
                   publishing>>

-----------------------------------------------------------------------------
(* The publication                                                         *)

BeginPublication(j, t) ==
    /\ publishing = None
    /\ issued[t] = j
    /\ Queue!LeaseHeld(j, t)
    /\ Ready(t)
    /\ publishing' = t
    /\ UNCHANGED <<recordVars, artifactVars>>

Stamp(t) ==
    /\ publishing = t
    /\ Unstamped(t) # {}
    /\ staged' = [staged EXCEPT ![t][Earliest(Unstamped(t))] = "stamped"]
    /\ UNCHANGED <<recordVars, fetched, published, orphaned, source,
                   publishing>>

(* The loop over the entries: each is retired, then renamed, before the    *)
(* next one.                                                               *)
NextEntry(t) == Earliest(Foreign(t) \union Movable(t))

RetireDeletes(t) ==                                              \* seeded fault
    /\ publishing = t
    /\ Unstamped(t) = {}
    /\ Foreign(t) # {} /\ NextEntry(t) \in Foreign(t)
    /\ published' = [published EXCEPT ![issued[t]][NextEntry(t)] = None]
    /\ UNCHANGED <<recordVars, fetched, staged, orphaned, source, publishing>>

RetirePublished(t) ==
    /\ publishing = t
    /\ Unstamped(t) = {}
    /\ Foreign(t) # {} /\ NextEntry(t) \in Foreign(t)
    /\ LET j == issued[t]
           e == NextEntry(t)
       IN /\ orphaned' = orphaned \union {<<e, published[j][e]>>}
          /\ published' = [published EXCEPT ![j][e] = None]
    /\ UNCHANGED <<recordVars, fetched, staged, source, publishing>>

RenameIntoPlace(t) ==
    /\ publishing = t
    /\ Unstamped(t) = {}
    /\ Movable(t) # {} /\ NextEntry(t) \notin Foreign(t)
    /\ published' = [published EXCEPT ![issued[t]][NextEntry(t)] = t]
    /\ staged' = [staged EXCEPT ![t][NextEntry(t)] = "none"]
    /\ UNCHANGED <<recordVars, fetched, orphaned, source, publishing>>

CommittedSource(t) ==
    [source EXCEPT ![issued[t]] = IF "input" \in Entries(t) THEN Published
                                                            ELSE @]

(* job.json is written last.                                               *)
CommitFirst(t) ==                                                \* seeded fault
    /\ publishing = t
    /\ Unstamped(t) = {}
    /\ job' = [job EXCEPT ![issued[t]] =
                 [@ EXCEPT !.status = "completed", !.lease = None,
                           !.leaseLeft = 0]]
    /\ source' = CommittedSource(t)
    /\ publishing' = None
    /\ UNCHANGED <<dir, reserved, resvLeft, tombstone, safeLeft, request,
                   issued, lastClaim, revokedLeft, fetched, staged,
                   published, orphaned>>

Commit(t) ==
    /\ publishing = t
    /\ Unstamped(t) = {} /\ Foreign(t) = {} /\ Movable(t) = {}
    /\ job' = [job EXCEPT ![issued[t]] =
                 [@ EXCEPT !.status = "completed", !.lease = None,
                           !.leaseLeft = 0]]
    /\ source' = CommittedSource(t)
    /\ publishing' = None
    /\ UNCHANGED <<dir, reserved, resvLeft, tombstone, safeLeft, request,
                   issued, lastClaim, revokedLeft, fetched, staged,
                   published, orphaned>>

(* The process dies, or a file operation fails and the error is thrown.    *)
StopPublication ==
    /\ publishing # None
    /\ publishing' = None
    /\ UNCHANGED <<recordVars, artifactVars>>

-----------------------------------------------------------------------------
(* The rest of the queue                                                   *)

(* A purge removes the job directory with all that is in it.               *)
Purge(j) ==
    /\ publishing = None
    /\ published' = [published EXCEPT ![j] = NothingPublished]
    /\ staged' = [t \in Token |-> IF issued[t] = j THEN NoStaged
                                                   ELSE staged[t]]
    /\ orphaned' = {o \in orphaned : issued[o[2]] # j}
    /\ source' = [source EXCEPT ![j] = None]
    /\ UNCHANGED <<fetched, publishing>>
    /\ Queue!PurgeOne(j)

OtherOperation ==
    /\ publishing = None
    /\ UNCHANGED <<artifactVars, publishing>>
    /\ \/ Queue!SweepReservations
       \/ \E j \in Job : Queue!RequestStep(j)
       \/ \E t \in Token : Queue!ClaimNextJob(t)
       \/ Queue!ClaimFindsNothing
       \/ \E j \in Job, t \in Token :
            Queue!FencedUpdate(j, t) \/ Queue!FencedFail(j, t)
       \/ \E j \in Job :
            Queue!CancelPrimaryJob(j) \/ Queue!RequestJobDeletion(j)

(* What takes no lock may happen at any time.                              *)
UnlockedStep ==
    /\ UNCHANGED <<artifactVars, publishing>>
    /\ \/ \E j \in Job : \/ Queue!OpenStaging(j)
                         \/ Queue!ReceiveBytes(j)
                         \/ Queue!RequestEnds(j)
       \/ Queue!Tick

AttemptStep(j, t) ==
    \/ \E e \in Directory : StageDirectory(t, e)
    \/ RecordSource(j, t)
    \/ DiscardAttempt(j, t)
    \/ BeginPublication(j, t)

PublicationStep(t) ==
    \/ Stamp(t)
    \/ RetirePublished(t)
    \/ RenameIntoPlace(t)
    \/ Commit(t)

PublishNext ==
    \/ \E j \in Job, t \in Token : AttemptStep(j, t)
    \/ \E t \in Token : PublicationStep(t)
    \/ StopPublication
    \/ \E j \in Job : Purge(j)
    \/ OtherOperation
    \/ UnlockedStep

PublishSpec == PublishInit /\ [][PublishNext]_publishVars

-----------------------------------------------------------------------------
(* Properties                                                              *)

(* "Every published artifact comes from the attempt that completes the     *)
(* job": whatever attempts died half way before, a completed job serves no *)
(* directory of another attempt than its last, and no output but that      *)
(* one's; and the sourcePath of a completed download names a file in the   *)
(* input directory that attempt published, not in the staging directory it *)
(* was renamed away from (publishAttemptAndComplete, retirePublished).     *)
ServedTogether ==
    \A j \in Job :
      job[j].status = "completed" =>
        /\ published[j]["output"] = lastClaim[j]
        /\ \A e \in Directory : published[j][e] \in {None, lastClaim[j]}
        /\ j \in fetched => source[j] = Published /\ published[j]["input"] = lastClaim[j]

(* "Foreign bytes are moved aside, never deleted": what an attempt staged  *)
(* stays staged, served or moved aside until the job is purged, or the     *)
(* attempt of a cancelled job discards its own (retirePublished).          *)
Kept(t, e) ==
    \/ staged[t][e] # "none"
    \/ issued[t] # None /\ published[issued[t]][e] = t
    \/ <<e, t>> \in orphaned

BytesKept ==
    [][\A t \in Token, e \in Directory :
         Kept(t, e) /\ ~Kept(t, e)' =>
           \/ job'[issued[t]].status = "none"
           \/ job[issued[t]].status = "cancelled" /\ staged[t][e] # "none"]_publishVars

(* "Re-publication after a crash is idempotent": an attempt that could     *)
(* publish once, and still holds its lease, can publish again after its    *)
(* publication stopped anywhere (publishAttemptAndComplete).               *)
Republishable ==
    [][\A t \in Token :
         (issued[t] # None /\ Ready(t) /\ job[issued[t]].lease = t
            /\ job'[issued[t]].lease = t) => Ready(t)']_publishVars

(* The renames and the commit together do what PrimaryQueue says they do   *)
(* in one step, and what stops half way is one of its torn publications.   *)
PublishesAtOnce == Queue!Spec
=============================================================================
