------------------------ MODULE AttemptPublishProofs ------------------------
(* Theorems about AttemptPublish for any number of jobs, attempts and      *)
(* publications that stop half way.                                        *)
EXTENDS AttemptPublish, TLAPS

(* What is proved of the queue, for the artifacts that are served here.    *)
Proved == INSTANCE PrimaryQueueProofs WITH publishedBy <- ServedBy

-----------------------------------------------------------------------------
(* The theorems about the queue, brought here                              *)

(* The operations of the queue that neither publish nor purge.             *)
Ordinary ==
    \/ Queue!SweepReservations
    \/ \E j \in Job : Queue!RequestStep(j)
    \/ \E t \in Token : Queue!ClaimNextJob(t)
    \/ Queue!ClaimFindsNothing
    \/ \E j \in Job, t \in Token :
         \/ Queue!FencedUpdate(j, t)
         \/ Queue!FencedFail(j, t)
         \/ Queue!AttemptWrites(j, t)
    \/ \E j \in Job : Queue!CancelPrimaryJob(j) \/ Queue!RequestJobDeletion(j)
    \/ Queue!Tick

LEMMA Configured == Proved!ConfigAssumption
BY PublishAssumption DEF Proved!ConfigAssumption, Proved!IsFiniteSet,
   IsFiniteSet, Proved!Faults, Queue!Faults

LEMMA SameType ==
    (Queue!TypeOK <=> Proved!TypeOK) /\ (Queue!TypeOK' <=> Proved!TypeOK')
BY DEF Queue!TypeOK, Proved!TypeOK, Queue!JobRecord, Proved!JobRecord,
   Queue!RequestPhase, Proved!RequestPhase, Queue!Status, Proved!Status,
   Queue!Active, Proved!Active, Queue!Settled, Proved!Settled

(* Both instances of PrimaryQueue take the same steps.                     *)
LEMMA SameSteps ==
    /\ [Queue!Next]_Queue!vars => [Proved!Next]_Proved!vars
    /\ Ordinary => Proved!Ordinary /\ Proved!Next
BY DEF Ordinary, Proved!Ordinary, Queue!Next, Proved!Next,
   Queue!RequestStep, Proved!RequestStep, Queue!HolderStep, Proved!HolderStep,
   Queue!PersonStep, Proved!PersonStep,
   Queue!SweepReservations, Proved!SweepReservations,
   Queue!ReserveAdmission, Proved!ReserveAdmission,
   Queue!OpenStaging, Proved!OpenStaging,
   Queue!ReceiveBytes, Proved!ReceiveBytes,
   Queue!RecheckAdmission, Proved!RecheckAdmission,
   Queue!RecheckRefused, Proved!RecheckRefused,
   Queue!PublishReservedQueuedJob, Proved!PublishReservedQueuedJob,
   Queue!PublishFindsRecord, Proved!PublishFindsRecord,
   Queue!PublishFindsReservationLost, Proved!PublishFindsReservationLost,
   Queue!PublishFailedAdmissionJob, Proved!PublishFailedAdmissionJob,
   Queue!AbortAdmissionStaging, Proved!AbortAdmissionStaging,
   Queue!RequestEnds, Proved!RequestEnds,
   Queue!ClaimNextJob, Proved!ClaimNextJob,
   Queue!ClaimFindsNothing, Proved!ClaimFindsNothing,
   Queue!FencedUpdate, Proved!FencedUpdate,
   Queue!FencedFail, Proved!FencedFail,
   Queue!AttemptWrites, Proved!AttemptWrites,
   Queue!PublishAttemptAndComplete, Proved!PublishAttemptAndComplete,
   Queue!PublishAttemptTorn, Proved!PublishAttemptTorn,
   Queue!CancelPrimaryJob, Proved!CancelPrimaryJob,
   Queue!RequestJobDeletion, Proved!RequestJobDeletion,
   Queue!RequestJobDeletionTorn, Proved!RequestJobDeletionTorn,
   Queue!PurgeOne, Proved!PurgeOne, Queue!PurgeTorn, Proved!PurgeTorn,
   Queue!Tick, Proved!Tick, Queue!vars, Proved!vars,
   Queue!fileVars, Proved!fileVars, Queue!historyVars, Proved!historyVars,
   Queue!Active, Proved!Active, Queue!IsActive, Proved!IsActive,
   Queue!ActiveJobs, Proved!ActiveJobs,
   Queue!StagedBytesExist, Proved!StagedBytesExist,
   Queue!Expired, Proved!Expired, Queue!Orphaned, Proved!Orphaned,
   Queue!Recovered, Proved!Recovered,
   Queue!LiveReservations, Proved!LiveReservations,
   Queue!AtCapacity, Proved!AtCapacity,
   Queue!Cardinality, Proved!Cardinality,
   Queue!IsFiniteSet, Proved!IsFiniteSet,
   Queue!RecoverFailures, Proved!RecoverFailures,
   Queue!DropReservation, Proved!DropReservation,
   Queue!NoJob, Proved!NoJob,
   Queue!FailedAdmissionRecord, Proved!FailedAdmissionRecord,
   Queue!LeaseIsLive, Proved!LeaseIsLive, Queue!LeaseHeld, Proved!LeaseHeld,
   Queue!Claimable, Proved!Claimable, Queue!Exhausted, Proved!Exhausted,
   Queue!Failed, Proved!Failed, Queue!Claimed, Proved!Claimed,
   Queue!Revoke, Proved!Revoke, Queue!Cancelled, Proved!Cancelled,
   Queue!MayDelete, Proved!MayDelete,
   Queue!WriteTombstone, Proved!WriteTombstone,
   Queue!Deleting, Proved!Deleting,
   Queue!PurgeAllowed, Proved!PurgeAllowed,
   Queue!Down, Proved!Down, Queue!CountDown, Proved!CountDown

(* What the queue keeps: the types, who may write, and how often a job was *)
(* started.                                                                *)
QueueInv == Queue!TypeOK /\ Proved!ClaimInv /\ Proved!StartInv

LEMMA QueueInvInductive ==
    ASSUME QueueInv, [Queue!Next]_Queue!vars
    PROVE  QueueInv'
BY Configured, SameType, SameSteps, Proved!TypeInductive,
   Proved!ClaimInvInductive, Proved!StartInvInductive DEF QueueInv

LEMMA HolderRuns ==
    ASSUME QueueInv, NEW j \in Job, NEW t \in Token, job[j].lease = t
    PROVE  /\ job[j].status = "running" /\ lastClaim[j] = t
           /\ issued[t] = j
BY PublishAssumption
DEF QueueInv, Proved!ClaimInv, Proved!OnlyLatestClaimHolds

LEMMA OrdinaryFacts ==
    ASSUME QueueInv, Ordinary
    PROVE  /\ \A j \in Job, t \in Token :
                job'[j].lease = t => job[j].lease = t \/ issued[t] = None
           /\ \A j \in Job :
                job'[j].status = "completed" =>
                  job[j].status = "completed" /\ lastClaim'[j] = lastClaim[j]
           /\ \A t \in Token :
                issued[t] \in Job =>
                  /\ issued'[t] = issued[t]
                  /\ dir[issued[t]] = "bytes" => dir'[issued[t]] = "bytes"
<1>1. Proved!TypeOK /\ Proved!StartInv /\ Proved!Ordinary
  BY SameType, SameSteps DEF QueueInv
<1>2. QED
  BY <1>1, Configured, Proved!OrdinaryLeases, Proved!OrdinaryCompletes,
     Proved!OrdinaryKeepsBytes

-----------------------------------------------------------------------------
(* What a publication relies on                                            *)

(* What is staged or served comes from an attempt of the job, whose        *)
(* directory is there, and a download only from a job that has a link.     *)
StagedAt(t, e) ==
    staged[t][e] # "none" =>
      /\ issued[t] \in Job /\ dir[issued[t]] = "bytes"
      /\ e = "input" => issued[t] \in fetched

ServedAt(j, e) ==
    published[j][e] # None =>
      /\ issued[published[j][e]] = j /\ dir[j] = "bytes"
      /\ e = "input" => j \in fetched

(* The holder of a downloaded job made what it made from its own download. *)
SourcedFor(j, t, e) ==
    /\ job[j].lease = t /\ j \in fetched /\ e # "input"
    /\ staged[t][e] # "none" \/ published[j][e] = t
    => source[j] = t

(* Who publishes holds the lease and has what it must publish.             *)
Held(t) ==
    publishing = t =>
      issued[t] \in Job /\ job[issued[t]].lease = t /\ Ready(t)

(* What ServedTogether says of one job.                                    *)
ServedFor(j) ==
    job[j].status = "completed" =>
      /\ published[j]["output"] = lastClaim[j]
      /\ \A e \in Directory : published[j][e] \in {None, lastClaim[j]}
      /\ j \in fetched =>
           source[j] = Published /\ published[j]["input"] = lastClaim[j]

ArtifactInv ==
    /\ \A t \in Token, e \in Directory : StagedAt(t, e)
    /\ \A j \in Job, e \in Directory : ServedAt(j, e)
    /\ \A j \in Job, t \in Token, e \in Directory : SourcedFor(j, t, e)
    /\ \A t \in Token : Held(t)

PublishInv ==
    PublishTypeOK /\ QueueInv /\ ArtifactInv /\ ServedTogether

LEMMA ServedPerJob == ServedTogether <=> \A j \in Job : ServedFor(j)
BY DEF ServedTogether, ServedFor

LEMMA ArtifactTypes ==
    ASSUME PublishTypeOK
    PROVE  /\ fetched \in SUBSET Job
           /\ staged \in [Token -> [Directory -> {"none", "bare", "stamped"}]]
           /\ published \in [Job -> [Directory -> Token \union {None}]]
           /\ orphaned \in SUBSET (Directory \X Token)
           /\ source \in [Job -> Token \union {None, Published}]
           /\ publishing \in Token \union {None}
BY DEF PublishTypeOK

LEMMA RecordTypes ==
    ASSUME PublishTypeOK
    PROVE  /\ job \in [Job -> Queue!JobRecord]
           /\ dir \in [Job -> {"absent", "empty", "bytes"}]
           /\ issued \in [Token -> Job \union {None}]
BY DEF PublishTypeOK, Queue!TypeOK

-----------------------------------------------------------------------------
(* The operators of a publication                                          *)

LEMMA EarliestIsMember ==
    ASSUME NEW S \in SUBSET Directory, S # {}
    PROVE  Earliest(S) \in S
<1>1. \E e \in S : \A f \in S : Rank[e] <= Rank[f]
  <2>1. /\ Rank["analysis"] = 1 /\ Rank["input"] = 2 /\ Rank["output"] = 3
    BY DEF Rank
  <2>2. CASE "analysis" \in S
    BY <2>1, <2>2 DEF Directory
  <2>3. CASE "analysis" \notin S /\ "input" \in S
    BY <2>1, <2>3 DEF Directory
  <2>4. CASE "analysis" \notin S /\ "input" \notin S
    <3>1. "output" \in S /\ \A f \in S : f = "output"
      BY <2>4 DEF Directory
    <3>2. QED
      BY <2>1, <3>1
  <2>5. QED
    BY <2>2, <2>3, <2>4
<1>2. QED
  BY <1>1 DEF Earliest

LEMMA EntryTypes ==
    ASSUME NEW t \in Token
    PROVE  /\ Entries(t) \subseteq Directory
           /\ {"analysis", "output"} \subseteq Entries(t)
           /\ Foreign(t) \subseteq Entries(t) /\ Movable(t) \subseteq Entries(t)
           /\ Unstamped(t) \subseteq Entries(t)
           /\ Required(t) \subseteq Entries(t) /\ "output" \in Required(t)
           /\ "input" \in Entries(t) => "input" \in Required(t)
BY DEF Entries, Foreign, Movable, Unstamped, Required, Directory

LEMMA NextEntryIs ==
    ASSUME NEW t \in Token, Foreign(t) \union Movable(t) # {}
    PROVE  /\ NextEntry(t) \in Directory /\ NextEntry(t) \in Entries(t)
           /\ NextEntry(t) \in Foreign(t) \union Movable(t)
<1>1. Foreign(t) \union Movable(t) \in SUBSET Directory
  BY EntryTypes
<1>2. QED
  BY <1>1, EarliestIsMember, EntryTypes DEF NextEntry

(* What an attempt can publish it still can when nothing of it is lost.    *)
LEMMA ReadyKept ==
    ASSUME NEW t \in Token, Ready(t), issued'[t] = issued[t],
           fetched' = fetched, source'[issued[t]] = source[issued[t]],
           \A e \in Directory :
             staged[t][e] # "none" \/ Ours(t, e)
               => staged'[t][e] # "none" \/ published'[issued[t]][e] = t
    PROVE  Ready(t)'
<1>1. Required(t)' = Required(t)
  BY DEF Required, Entries
<1>2. QED
  BY <1>1, EntryTypes DEF Ready, Ours

(* Each step of a publication in the terms of what it changes.             *)
LEMMA Stamps ==
    ASSUME PublishTypeOK, NEW t \in Token, Stamp(t)
    PROVE  /\ publishing = t /\ published' = published
           /\ \A u \in Token, e \in Directory :
                staged'[u][e] # "none" <=> staged[u][e] # "none"
           /\ staged' \in [Token -> [Directory -> {"none", "bare", "stamped"}]]
           /\ UNCHANGED <<recordVars, fetched, orphaned, source, publishing>>
<1> DEFINE e0 == Earliest(Unstamped(t))
<1>1. /\ staged' = [staged EXCEPT ![t][e0] = "stamped"]
      /\ UNCHANGED <<recordVars, fetched, published, orphaned, source,
                     publishing>>
      /\ publishing = t
  BY DEF Stamp
<1>2. e0 \in Directory /\ e0 \in Unstamped(t)
  BY EarliestIsMember, EntryTypes DEF Stamp
<1>3. staged[t][e0] = "bare"
  BY <1>2 DEF Unstamped
<1> HIDE DEF e0
<1>4. QED
  BY <1>1, <1>2, <1>3, ArtifactTypes

LEMMA Retires ==
    ASSUME PublishTypeOK, NEW t \in Token, RetirePublished(t),
           issued[t] \in Job
    PROVE  \E e \in Directory :
             LET j == issued[t]
             IN /\ published[j][e] # None /\ published[j][e] # t
                /\ published[j][e] \in Token
                /\ orphaned' = orphaned \union {<<e, published[j][e]>>}
                /\ published' = [published EXCEPT ![j][e] = None]
                /\ publishing = t
                /\ UNCHANGED <<recordVars, fetched, staged, source, publishing>>
<1> DEFINE e == NextEntry(t)
<1>1. e \in Directory /\ e \in Foreign(t)
  BY NextEntryIs DEF RetirePublished
<1>2. published[issued[t]][e] # None /\ published[issued[t]][e] # t
  BY <1>1 DEF Foreign, Ours
<1>3. published[issued[t]][e] \in Token
  BY <1>1, <1>2, ArtifactTypes
<1>4. QED
  BY <1>1, <1>2, <1>3 DEF RetirePublished

LEMMA Renames ==
    ASSUME PublishTypeOK, NEW t \in Token, RenameIntoPlace(t),
           issued[t] \in Job
    PROVE  \E e \in Directory :
             LET j == issued[t]
             IN /\ staged[t][e] # "none" /\ published[j][e] = None
                /\ published' = [published EXCEPT ![j][e] = t]
                /\ staged' = [staged EXCEPT ![t][e] = "none"]
                /\ publishing = t
                /\ UNCHANGED <<recordVars, fetched, orphaned, source,
                               publishing>>
<1> DEFINE e == NextEntry(t)
<1>1. /\ e \in Directory /\ e \in Entries(t)
      /\ e \in Movable(t) /\ e \notin Foreign(t)
  BY NextEntryIs DEF RenameIntoPlace
<1>2. staged[t][e] # "none" /\ published[issued[t]][e] # t
  BY <1>1 DEF Movable, Ours
<1>3. published[issued[t]][e] = None
  BY <1>1, <1>2 DEF Foreign, Ours
<1>4. QED
  BY <1>1, <1>2, <1>3 DEF RenameIntoPlace

(* When job.json commits, the job serves what its attempt made, and a      *)
(* downloaded source is among it.                                          *)
LEMMA CommitServes ==
    ASSUME PublishInv, NEW t \in Token, Commit(t)
    PROVE  LET j == issued[t]
           IN /\ j \in Job /\ job[j].lease = t /\ lastClaim[j] = t
              /\ published[j]["output"] = t /\ dir[j] = "bytes"
              /\ \A e \in Directory : published[j][e] \in {None, t}
              /\ j \in fetched =>
                   source'[j] = Published /\ published[j]["input"] = t
<1> DEFINE j == issued[t]
<1>1. /\ publishing = t /\ Unstamped(t) = {} /\ Foreign(t) = {}
      /\ Movable(t) = {} /\ source' = CommittedSource(t)
  BY DEF Commit
<1>2. j \in Job /\ job[j].lease = t /\ Ready(t)
  BY <1>1 DEF PublishInv, ArtifactInv, Held
<1>3. lastClaim[j] = t
  BY <1>2, HolderRuns DEF PublishInv
<1>4. \A e \in Required(t) : published[j][e] = t
  BY <1>1, <1>2, EntryTypes DEF Ready, Movable, Ours
<1>5. published[j]["output"] = t
  BY <1>4, EntryTypes
<1>6. dir[j] = "bytes"
  BY <1>2, <1>5, PublishAssumption
  DEF PublishInv, ArtifactInv, ServedAt, Directory
<1>7. j \in fetched => source[j] = t
  BY <1>2, <1>5 DEF PublishInv, ArtifactInv, SourcedFor, Directory
<1>8. j \in fetched => "input" \in Entries(t)
  BY <1>7 DEF Entries
<1>9. \A e \in Directory : published[j][e] \in {None, t}
  <2> SUFFICES ASSUME NEW e \in Directory PROVE published[j][e] \in {None, t}
    OBVIOUS
  <2>1. CASE e \in Entries(t)
    BY <1>1, <2>1 DEF Foreign, Ours
  <2>2. CASE e \notin Entries(t)
    <3>1. e = "input" /\ j \notin fetched
      BY <1>8, <2>2, EntryTypes DEF Directory
    <3>2. QED
      BY <1>2, <3>1 DEF PublishInv, ArtifactInv, ServedAt
  <2>3. QED
    BY <2>1, <2>2
<1>10. j \in fetched => source'[j] = Published /\ published[j]["input"] = t
  BY <1>1, <1>2, <1>4, <1>8, EntryTypes, ArtifactTypes
  DEF PublishInv, CommittedSource
<1>11. QED
  BY <1>2, <1>3, <1>5, <1>6, <1>9, <1>10

-----------------------------------------------------------------------------
(* Every step is a step of the queue, or none: the renames of the output   *)
(* are its torn publications, the commit is its publication.               *)

LEMMA SameServed ==
    ASSUME PublishTypeOK, NEW j \in Job, NEW e \in Directory,
           NEW w, published' = [published EXCEPT ![j][e] = w]
    PROVE  ServedBy' = IF e = "output" THEN [ServedBy EXCEPT ![j] = w]
                                       ELSE ServedBy
BY ArtifactTypes DEF ServedBy, Directory

LEMMA RenamesAreTorn ==
    ASSUME PublishInv, NEW t \in Token, NEW e \in Directory,
           NEW w \in {None, t}, publishing = t, dir[issued[t]] = "bytes",
           published' = [published EXCEPT ![issued[t]][e] = w],
           UNCHANGED recordVars
    PROVE  [Queue!Next]_Queue!vars
<1> DEFINE j == issued[t]
<1>1. j \in Job /\ job[j].lease = t
  BY DEF PublishInv, ArtifactInv, Held
<1>2. CASE e = "output"
  <2>1. ServedBy' = [ServedBy EXCEPT ![j] = w]
    BY <1>1, <1>2, SameServed DEF PublishInv
  <2>2. dir' = [dir EXCEPT ![j] = "bytes"]
    BY RecordTypes DEF recordVars, PublishInv
  <2>3. Queue!PublishAttemptTorn(j, t)
    BY <1>1, <2>1, <2>2, PublishAssumption
    DEF Queue!PublishAttemptTorn, Queue!LeaseHeld, Queue!historyVars,
        recordVars
  <2>4. QED
    BY <1>1, <2>3 DEF Queue!Next, Queue!HolderStep
<1>3. CASE e # "output"
  <2>1. ServedBy' = ServedBy
    BY <1>1, <1>3, SameServed DEF PublishInv
  <2>2. QED
    BY <2>1 DEF Queue!vars, Queue!fileVars, Queue!historyVars, recordVars
<1>4. QED
  BY <1>2, <1>3

LEMMA CommitIsPublication ==
    ASSUME PublishInv, NEW t \in Token, Commit(t)
    PROVE  [Queue!Next]_Queue!vars
<1> DEFINE j == issued[t]
<1>1. /\ j \in Job /\ job[j].lease = t
      /\ published[j]["output"] = t /\ dir[j] = "bytes"
  BY CommitServes
<1>2. ServedBy' = [ServedBy EXCEPT ![j] = t]
  BY <1>1 DEF Commit, ServedBy
<1>3. dir' = [dir EXCEPT ![j] = "bytes"]
  BY <1>1, RecordTypes DEF Commit, PublishInv
<1>4. Queue!PublishAttemptAndComplete(j, t)
  BY <1>1, <1>2, <1>3
  DEF Queue!PublishAttemptAndComplete, Queue!LeaseHeld, Queue!historyVars,
      Commit
<1>5. QED
  BY <1>1, <1>4 DEF Queue!Next, Queue!HolderStep

LEMMA StutterSteps ==
    ASSUME UNCHANGED <<recordVars, published>>
    PROVE  UNCHANGED Queue!vars
BY DEF recordVars, ServedBy, Queue!vars, Queue!fileVars, Queue!historyVars

LEMMA OrdinaryIsQueueStep == Ordinary => Queue!Next
BY DEF Ordinary, Queue!Next, Queue!HolderStep, Queue!PersonStep

LEMMA OrdinarySteps ==
    /\ \A t \in Token, e \in Directory : StageDirectory(t, e) => Ordinary
    /\ \A j \in Job, t \in Token : RecordSource(j, t) => Ordinary
    /\ OtherOperation => Ordinary
    /\ UnlockedStep => Ordinary
BY DEF Ordinary, StageDirectory, RecordSource, OtherOperation, UnlockedStep,
   Queue!RequestStep

LEMMA PublishStepIsQueueStep ==
    ASSUME PublishInv, [PublishNext]_publishVars
    PROVE  [Queue!Next]_Queue!vars
<1>0. PublishTypeOK
  BY DEF PublishInv
<1>1. ASSUME NEW t \in Token, publishing = t
      PROVE  issued[t] \in Job
  BY <1>1 DEF PublishInv, ArtifactInv, Held
<1>2. ASSUME NEW j \in Job, NEW t \in Token, AttemptStep(j, t)
      PROVE  [Queue!Next]_Queue!vars
  BY <1>2, OrdinarySteps, OrdinaryIsQueueStep, StutterSteps
  DEF AttemptStep, DiscardAttempt, BeginPublication, artifactVars
<1>3. ASSUME NEW t \in Token, Stamp(t) PROVE [Queue!Next]_Queue!vars
  BY <1>3, StutterSteps DEF Stamp
<1>4. ASSUME NEW t \in Token, RetirePublished(t) PROVE [Queue!Next]_Queue!vars
  <2>0. issued[t] \in Job
    BY <1>1, <1>4 DEF RetirePublished
  <2>1. PICK e \in Directory :
          /\ published[issued[t]][e] # None
          /\ published' = [published EXCEPT ![issued[t]][e] = None]
          /\ publishing = t /\ UNCHANGED recordVars
    BY <1>0, <1>4, <2>0, Retires
  <2>2. dir[issued[t]] = "bytes"
    BY <2>0, <2>1 DEF PublishInv, ArtifactInv, ServedAt
  <2>3. QED
    BY <2>1, <2>2, RenamesAreTorn
<1>5. ASSUME NEW t \in Token, RenameIntoPlace(t) PROVE [Queue!Next]_Queue!vars
  <2>0. issued[t] \in Job
    BY <1>1, <1>5 DEF RenameIntoPlace
  <2>1. PICK e \in Directory :
          /\ staged[t][e] # "none"
          /\ published' = [published EXCEPT ![issued[t]][e] = t]
          /\ publishing = t /\ UNCHANGED recordVars
    BY <1>0, <1>5, <2>0, Renames
  <2>2. dir[issued[t]] = "bytes"
    BY <2>1 DEF PublishInv, ArtifactInv, StagedAt
  <2>3. QED
    BY <2>1, <2>2, RenamesAreTorn
<1>6. ASSUME NEW t \in Token, Commit(t) PROVE [Queue!Next]_Queue!vars
  BY <1>6, CommitIsPublication
<1>7. CASE StopPublication
  BY <1>7, StutterSteps DEF StopPublication, artifactVars
<1>8. ASSUME NEW j \in Job, Purge(j) PROVE [Queue!Next]_Queue!vars
  BY <1>8 DEF Purge, Queue!Next, Queue!PersonStep
<1>9. CASE OtherOperation \/ UnlockedStep
  BY <1>9, OrdinarySteps, OrdinaryIsQueueStep
<1>10. CASE UNCHANGED publishVars
  BY <1>10, StutterSteps DEF publishVars, artifactVars
<1>11. QED
  BY <1>2, <1>3, <1>4, <1>5, <1>6, <1>7, <1>8, <1>9, <1>10
  DEF PublishNext, PublicationStep

-----------------------------------------------------------------------------
(* Typing                                                                  *)

LEMMA PublishTypeInductive ==
    ASSUME PublishInv, [PublishNext]_publishVars
    PROVE  PublishTypeOK'
<1>0. PublishTypeOK
  BY DEF PublishInv
<1>1. Queue!TypeOK'
  BY PublishStepIsQueueStep, QueueInvInductive DEF PublishInv, QueueInv
<1>2. SUFFICES /\ fetched' \in SUBSET Job
               /\ staged' \in [Token -> [Directory -> {"none", "bare", "stamped"}]]
               /\ published' \in [Job -> [Directory -> Token \union {None}]]
               /\ orphaned' \in SUBSET (Directory \X Token)
               /\ source' \in [Job -> Token \union {None, Published}]
               /\ publishing' \in Token \union {None}
  BY <1>1 DEF PublishTypeOK
<1> USE DEF artifactVars
<1>3. ASSUME NEW t \in Token, publishing = t
      PROVE  issued[t] \in Job
  BY <1>3 DEF PublishInv, ArtifactInv, Held
<1>4. ASSUME NEW t \in Token, NEW e \in Directory, StageDirectory(t, e)
      PROVE  /\ UNCHANGED <<fetched, published, orphaned, source, publishing>>
             /\ staged' \in [Token -> [Directory -> {"none", "bare", "stamped"}]]
  BY <1>0, <1>4, ArtifactTypes DEF StageDirectory
<1>5. ASSUME NEW j \in Job, NEW t \in Token, RecordSource(j, t)
      PROVE  /\ UNCHANGED <<fetched, staged, published, orphaned, publishing>>
             /\ source' \in [Job -> Token \union {None, Published}]
  BY <1>0, <1>5, ArtifactTypes DEF RecordSource
<1>6. ASSUME NEW j \in Job, NEW t \in Token, DiscardAttempt(j, t)
      PROVE  /\ UNCHANGED <<fetched, published, orphaned, source, publishing>>
             /\ staged' \in [Token -> [Directory -> {"none", "bare", "stamped"}]]
  BY <1>0, <1>6, ArtifactTypes DEF DiscardAttempt, NoStaged
<1>7. ASSUME NEW t \in Token, Commit(t)
      PROVE  /\ UNCHANGED <<fetched, staged, published, orphaned>>
             /\ source' \in [Job -> Token \union {None, Published}]
             /\ publishing' = None
  <2>1. source' = CommittedSource(t) /\ issued[t] \in Job
    BY <1>3, <1>7 DEF Commit
  <2>2. QED
    BY <1>0, <1>7, <2>1, ArtifactTypes DEF Commit, CommittedSource
<1>8. ASSUME NEW t \in Token, RetirePublished(t)
      PROVE  /\ UNCHANGED <<fetched, staged, source, publishing>>
             /\ published' \in [Job -> [Directory -> Token \union {None}]]
             /\ orphaned' \in SUBSET (Directory \X Token)
  <2>1. issued[t] \in Job
    BY <1>3, <1>8 DEF RetirePublished
  <2>2. PICK e \in Directory :
          LET j == issued[t]
          IN /\ published[j][e] \in Token
             /\ orphaned' = orphaned \union {<<e, published[j][e]>>}
             /\ published' = [published EXCEPT ![j][e] = None]
             /\ UNCHANGED <<fetched, staged, source, publishing>>
    BY <1>0, <1>8, <2>1, Retires
  <2>3. QED
    BY <1>0, <2>1, <2>2, ArtifactTypes
<1>9. ASSUME NEW t \in Token, RenameIntoPlace(t)
      PROVE  /\ UNCHANGED <<fetched, orphaned, source, publishing>>
             /\ published' \in [Job -> [Directory -> Token \union {None}]]
             /\ staged' \in [Token -> [Directory -> {"none", "bare", "stamped"}]]
  <2>1. issued[t] \in Job
    BY <1>3, <1>9 DEF RenameIntoPlace
  <2>2. PICK e \in Directory :
          /\ published' = [published EXCEPT ![issued[t]][e] = t]
          /\ staged' = [staged EXCEPT ![t][e] = "none"]
          /\ UNCHANGED <<fetched, orphaned, source, publishing>>
    BY <1>0, <1>9, <2>1, Renames
  <2>3. QED
    BY <1>0, <2>1, <2>2, ArtifactTypes
<1>10. ASSUME NEW j \in Job, Purge(j)
       PROVE  /\ UNCHANGED <<fetched, publishing>>
              /\ published' \in [Job -> [Directory -> Token \union {None}]]
              /\ staged' \in [Token -> [Directory -> {"none", "bare", "stamped"}]]
              /\ orphaned' \subseteq orphaned
              /\ source' \in [Job -> Token \union {None, Published}]
  BY <1>0, <1>10, ArtifactTypes DEF Purge, NoStaged, NothingPublished
<1>11. CASE \E t \in Token : Stamp(t)
  BY <1>0, <1>11, Stamps, ArtifactTypes
<1>12. CASE \E j \in Job, t \in Token : BeginPublication(j, t)
  BY <1>0, <1>12, ArtifactTypes DEF BeginPublication
<1>13. CASE \/ StopPublication \/ OtherOperation \/ UnlockedStep
            \/ UNCHANGED publishVars
  BY <1>0, <1>13, ArtifactTypes
  DEF StopPublication, OtherOperation, UnlockedStep, publishVars
<1>14. QED
  BY <1>0, <1>4, <1>5, <1>6, <1>7, <1>8, <1>9, <1>10, <1>11, <1>12, <1>13,
     ArtifactTypes DEF PublishNext, AttemptStep, PublicationStep

-----------------------------------------------------------------------------
(* What is staged and what is served keeps its attempt and its directory   *)

LEMMA OrdinaryKeepsArtifacts ==
    ASSUME PublishInv, Ordinary, UNCHANGED <<fetched, published>>,
           NEW e \in Directory
    PROVE  /\ \A t \in Token : staged'[t][e] = staged[t][e] => StagedAt(t, e)'
           /\ \A j \in Job : ServedAt(j, e)'
<1>0. QueueInv /\ PublishTypeOK
  BY DEF PublishInv
<1>1. ASSUME NEW t \in Token, staged'[t][e] = staged[t][e]
      PROVE  StagedAt(t, e)'
  BY <1>0, <1>1, OrdinaryFacts DEF PublishInv, ArtifactInv, StagedAt
<1>2. ASSUME NEW j \in Job PROVE ServedAt(j, e)'
  <2> SUFFICES ASSUME published[j][e] # None PROVE ServedAt(j, e)'
    BY DEF ServedAt
  <2> DEFINE t == published[j][e]
  <2>1. t \in Token
    BY <1>0, ArtifactTypes
  <2>2. issued[t] = j /\ dir[j] = "bytes" /\ (e = "input" => j \in fetched)
    BY DEF PublishInv, ArtifactInv, ServedAt
  <2>3. issued'[t] = j /\ dir'[j] = "bytes"
    BY <1>0, <2>1, <2>2, OrdinaryFacts
  <2>4. QED
    BY <2>2, <2>3 DEF ServedAt
<1>3. QED
  BY <1>1, <1>2

LEMMA ArtifactsStay ==
    ASSUME PublishInv, [PublishNext]_publishVars, NEW e \in Directory
    PROVE  /\ \A u \in Token : StagedAt(u, e)'
           /\ \A k \in Job : ServedAt(k, e)'
<1>0. /\ PublishTypeOK
      /\ \A u \in Token : StagedAt(u, e)
      /\ \A k \in Job : ServedAt(k, e)
  BY DEF PublishInv, ArtifactInv
<1>1. ASSUME UNCHANGED <<recordVars, fetched, published>>,
             \A u \in Token : staged'[u][e] # "none" => staged[u][e] # "none"
      PROVE  /\ \A u \in Token : StagedAt(u, e)'
             /\ \A k \in Job : ServedAt(k, e)'
  BY <1>0, <1>1 DEF StagedAt, ServedAt, recordVars
<1>2. ASSUME NEW t \in Token, publishing = t
      PROVE  issued[t] \in Job
  BY <1>2 DEF PublishInv, ArtifactInv, Held
<1>3. ASSUME NEW t \in Token, NEW f \in Directory, StageDirectory(t, f)
      PROVE  /\ \A u \in Token : StagedAt(u, e)'
             /\ \A k \in Job : ServedAt(k, e)'
  <2>1. PICK j \in Job :
          /\ f = "input" => j \in fetched
          /\ staged' = [staged EXCEPT ![t][f] = "bare"]
          /\ UNCHANGED <<fetched, published>>
          /\ Queue!AttemptWrites(j, t)
    BY <1>3 DEF StageDirectory
  <2>2. /\ issued[t] = j /\ issued' = issued
        /\ dir' = [dir EXCEPT ![j] = "bytes"]
    BY <2>1 DEF Queue!AttemptWrites
  <2>3. e = f => StagedAt(t, e)'
    BY <1>0, <2>1, <2>2, RecordTypes DEF StagedAt
  <2>4. \A u \in Token : u # t \/ e # f => staged'[u][e] = staged[u][e]
    BY <1>0, <2>1, ArtifactTypes
  <2>5. QED
    BY <1>3, <2>1, <2>3, <2>4, OrdinarySteps, OrdinaryKeepsArtifacts
<1>4. ASSUME NEW j \in Job, NEW t \in Token, DiscardAttempt(j, t)
      PROVE  /\ \A u \in Token : StagedAt(u, e)'
             /\ \A k \in Job : ServedAt(k, e)'
  <2>1. \A u \in Token : staged'[u][e] # "none" => staged[u][e] # "none"
    BY <1>0, <1>4, ArtifactTypes DEF DiscardAttempt, NoStaged
  <2>2. QED
    BY <1>1, <1>4, <2>1 DEF DiscardAttempt
<1>5. CASE \E t \in Token : Stamp(t)
  BY <1>0, <1>1, <1>5, Stamps
<1>6. ASSUME NEW t \in Token, RetirePublished(t)
      PROVE  /\ \A u \in Token : StagedAt(u, e)'
             /\ \A k \in Job : ServedAt(k, e)'
  <2>1. issued[t] \in Job
    BY <1>2, <1>6 DEF RetirePublished
  <2>2. PICK f \in Directory :
          /\ published' = [published EXCEPT ![issued[t]][f] = None]
          /\ UNCHANGED <<recordVars, fetched, staged>>
    BY <1>0, <1>6, <2>1, Retires
  <2>3. \A k \in Job : published'[k][e] \in {None, published[k][e]}
    BY <1>0, <2>1, <2>2, ArtifactTypes
  <2>4. QED
    BY <1>0, <2>2, <2>3 DEF StagedAt, ServedAt, recordVars
<1>7. ASSUME NEW t \in Token, RenameIntoPlace(t)
      PROVE  /\ \A u \in Token : StagedAt(u, e)'
             /\ \A k \in Job : ServedAt(k, e)'
  <2>1. issued[t] \in Job
    BY <1>2, <1>7 DEF RenameIntoPlace
  <2>2. PICK f \in Directory :
          /\ staged[t][f] # "none"
          /\ published' = [published EXCEPT ![issued[t]][f] = t]
          /\ staged' = [staged EXCEPT ![t][f] = "none"]
          /\ UNCHANGED <<recordVars, fetched>>
    BY <1>0, <1>7, <2>1, Renames
  <2>3. \A u \in Token : staged'[u][e] # "none" => staged[u][e] # "none"
    BY <1>0, <2>2, ArtifactTypes
  <2>4. \A k \in Job : \/ published'[k][e] = published[k][e]
                       \/ k = issued[t] /\ e = f /\ published'[k][e] = t
    BY <1>0, <2>1, <2>2, ArtifactTypes
  <2>5. dir[issued[t]] = "bytes" /\ (f = "input" => issued[t] \in fetched)
    BY <2>2 DEF PublishInv, ArtifactInv, StagedAt
  <2>6. QED
    BY <1>0, <2>2, <2>3, <2>4, <2>5 DEF StagedAt, ServedAt, recordVars
<1>8. ASSUME NEW t \in Token, Commit(t)
      PROVE  /\ \A u \in Token : StagedAt(u, e)'
             /\ \A k \in Job : ServedAt(k, e)'
  BY <1>0, <1>8 DEF Commit, StagedAt, ServedAt
<1>9. ASSUME NEW j \in Job, Purge(j)
      PROVE  /\ \A u \in Token : StagedAt(u, e)'
             /\ \A k \in Job : ServedAt(k, e)'
  <2>1. /\ issued' = issued /\ fetched' = fetched
        /\ \A k \in Job : k # j => dir'[k] = dir[k]
    BY <1>0, <1>9, RecordTypes DEF Purge, Queue!PurgeOne
  <2>2. \A k \in Job : /\ k = j => published'[k][e] = None
                       /\ k # j => published'[k][e] = published[k][e]
    BY <1>0, <1>9, ArtifactTypes DEF Purge, NothingPublished
  <2>3. \A u \in Token : /\ issued[u] = j => staged'[u][e] = "none"
                         /\ issued[u] # j => staged'[u][e] = staged[u][e]
    BY <1>0, <1>9, ArtifactTypes DEF Purge, NoStaged
  <2>4. QED
    BY <1>0, <2>1, <2>2, <2>3 DEF StagedAt, ServedAt
<1>10. CASE \E j \in Job, t \in Token : RecordSource(j, t)
  BY <1>10, OrdinarySteps, OrdinaryKeepsArtifacts DEF RecordSource
<1>11. CASE OtherOperation \/ UnlockedStep
  BY <1>11, OrdinarySteps, OrdinaryKeepsArtifacts
  DEF OtherOperation, UnlockedStep, artifactVars
<1>12. CASE \/ \E j \in Job, t \in Token : BeginPublication(j, t)
            \/ StopPublication \/ UNCHANGED publishVars
  BY <1>1, <1>12 DEF BeginPublication, StopPublication, publishVars,
     artifactVars
<1>13. QED
  BY <1>3, <1>4, <1>5, <1>6, <1>7, <1>8, <1>9, <1>10, <1>11, <1>12
  DEF PublishNext, AttemptStep, PublicationStep

-----------------------------------------------------------------------------
(* The holder of a downloaded job works from its own download              *)

(* Where neither the claim nor what was made from it is new.               *)
LEMMA SourceStays ==
    ASSUME PublishInv, NEW k \in Job, NEW u \in Token, NEW e \in Directory,
           job'[k].lease = u => job[k].lease = u \/ issued[u] = None,
           fetched' = fetched, source'[k] = source[k],
           staged'[u][e] # "none" => staged[u][e] # "none",
           published'[k][e] = u => published[k][e] = u
    PROVE  SourcedFor(k, u, e)'
<1>1. SourcedFor(k, u, e) /\ StagedAt(u, e) /\ ServedAt(k, e)
  BY DEF PublishInv, ArtifactInv
<1>2. issued[u] = None => staged[u][e] = "none" /\ published[k][e] # u
  BY <1>1, PublishAssumption DEF StagedAt, ServedAt
<1>3. QED
  BY <1>1, <1>2 DEF SourcedFor

LEMMA SourcesStay ==
    ASSUME PublishInv, [PublishNext]_publishVars,
           NEW k \in Job, NEW u \in Token, NEW e \in Directory
    PROVE  SourcedFor(k, u, e)'
<1>0. /\ PublishTypeOK /\ QueueInv
      /\ SourcedFor(k, u, e) /\ StagedAt(u, e) /\ ServedAt(k, e)
  BY DEF PublishInv, ArtifactInv
<1>1. Ordinary => (job'[k].lease = u => job[k].lease = u \/ issued[u] = None)
  BY <1>0, OrdinaryFacts
<1>2. ASSUME NEW t \in Token, publishing = t
      PROVE  issued[t] \in Job
  BY <1>2 DEF PublishInv, ArtifactInv, Held
<1>3. ASSUME NEW t \in Token, NEW f \in Directory, StageDirectory(t, f)
      PROVE  SourcedFor(k, u, e)'
  <2>1. PICK j \in Job :
          /\ f # "input" /\ j \in fetched => source[j] = t
          /\ staged' = [staged EXCEPT ![t][f] = "bare"]
          /\ UNCHANGED <<fetched, published, source>>
          /\ Queue!AttemptWrites(j, t)
    BY <1>3 DEF StageDirectory
  <2>2. issued[t] = j /\ job' = job
    BY <2>1 DEF Queue!AttemptWrites
  <2>3. CASE u = t /\ e = f
    <3>1. job[k].lease = u => k = j
      BY <1>0, <2>2, <2>3, HolderRuns
    <3>2. QED
      BY <2>1, <2>2, <2>3, <3>1 DEF SourcedFor
  <2>4. CASE u # t \/ e # f
    <3>1. staged'[u][e] = staged[u][e]
      BY <1>0, <2>1, <2>4, ArtifactTypes
    <3>2. QED
      BY <2>1, <2>2, <3>1, SourceStays
  <2>5. QED
    BY <2>3, <2>4
<1>4. ASSUME NEW j \in Job, NEW t \in Token, RecordSource(j, t)
      PROVE  SourcedFor(k, u, e)'
  <2>1. /\ source' = [source EXCEPT ![j] = t] /\ Queue!FencedUpdate(j, t)
        /\ UNCHANGED <<fetched, staged, published>>
    BY <1>4 DEF RecordSource
  <2>2. CASE k = j
    <3>1. job[k].lease = t /\ job'[k].lease = job[k].lease
      BY <1>0, <2>1, <2>2, RecordTypes
      DEF Queue!FencedUpdate, Queue!LeaseHeld, Queue!JobRecord
    <3>2. source'[k] = t
      BY <1>0, <2>1, <2>2, ArtifactTypes
    <3>3. QED
      BY <3>1, <3>2 DEF SourcedFor
  <2>3. CASE k # j
    <3>1. source'[k] = source[k]
      BY <1>0, <2>1, <2>3, ArtifactTypes
    <3>2. QED
      BY <1>1, <1>4, <2>1, <3>1, OrdinarySteps, SourceStays
  <2>4. QED
    BY <2>2, <2>3
<1>5. ASSUME NEW j \in Job, NEW t \in Token, DiscardAttempt(j, t)
      PROVE  SourcedFor(k, u, e)'
  <2>1. staged'[u][e] # "none" => staged[u][e] # "none"
    BY <1>0, <1>5, ArtifactTypes DEF DiscardAttempt, NoStaged
  <2>2. QED
    BY <1>5, <2>1, SourceStays DEF DiscardAttempt, recordVars
<1>6. CASE \E t \in Token : Stamp(t)
  BY <1>0, <1>6, Stamps, SourceStays DEF recordVars
<1>7. ASSUME NEW t \in Token, RetirePublished(t) PROVE SourcedFor(k, u, e)'
  <2>1. issued[t] \in Job
    BY <1>2, <1>7 DEF RetirePublished
  <2>2. PICK f \in Directory :
          /\ published' = [published EXCEPT ![issued[t]][f] = None]
          /\ UNCHANGED <<recordVars, fetched, staged, source>>
    BY <1>0, <1>7, <2>1, Retires
  <2>3. published'[k][e] = u => published[k][e] = u
    BY <1>0, <2>1, <2>2, ArtifactTypes, PublishAssumption
  <2>4. QED
    BY <2>2, <2>3, SourceStays DEF recordVars
<1>8. ASSUME NEW t \in Token, RenameIntoPlace(t) PROVE SourcedFor(k, u, e)'
  <2>1. issued[t] \in Job
    BY <1>2, <1>8 DEF RenameIntoPlace
  <2>2. PICK f \in Directory :
          /\ staged[t][f] # "none"
          /\ published' = [published EXCEPT ![issued[t]][f] = t]
          /\ staged' = [staged EXCEPT ![t][f] = "none"]
          /\ UNCHANGED <<recordVars, fetched, source>>
    BY <1>0, <1>8, <2>1, Renames
  <2>3. staged'[u][e] # "none" => staged[u][e] # "none"
    BY <1>0, <2>2, ArtifactTypes
  <2>4. published'[k][e] = u => published[k][e] = u \/ (u = t /\ e = f)
    BY <1>0, <2>1, <2>2, ArtifactTypes
  <2>5. QED
    BY <1>0, <2>2, <2>3, <2>4 DEF SourcedFor, recordVars
<1>9. ASSUME NEW t \in Token, Commit(t) PROVE SourcedFor(k, u, e)'
  <2>1. issued[t] \in Job /\ UNCHANGED <<fetched, staged, published>>
    BY <1>2, <1>9 DEF Commit
  <2>2. CASE k = issued[t]
    <3>1. job'[k].lease = None
      BY <1>0, <1>9, <2>2, RecordTypes DEF Commit, Queue!JobRecord
    <3>2. QED
      BY <3>1, PublishAssumption DEF SourcedFor
  <2>3. CASE k # issued[t]
    <3>1. job'[k] = job[k] /\ source'[k] = source[k]
      BY <1>0, <1>9, <2>3, RecordTypes, ArtifactTypes
      DEF Commit, CommittedSource
    <3>2. QED
      BY <2>1, <3>1, SourceStays
  <2>4. QED
    BY <2>2, <2>3
<1>10. ASSUME NEW j \in Job, Purge(j) PROVE SourcedFor(k, u, e)'
  <2>1. job' = [job EXCEPT ![j] = Queue!NoJob]
    BY <1>10 DEF Purge, Queue!PurgeOne
  <2>2. CASE k = j
    <3>1. job'[k].lease = None
      BY <1>0, <2>1, <2>2, RecordTypes DEF Queue!NoJob
    <3>2. QED
      BY <3>1, PublishAssumption DEF SourcedFor
  <2>3. CASE k # j
    <3>1. /\ job'[k] = job[k] /\ source'[k] = source[k]
          /\ published'[k] = published[k] /\ fetched' = fetched
      BY <1>0, <1>10, <2>1, <2>3, RecordTypes, ArtifactTypes DEF Purge
    <3>2. staged'[u][e] # "none" => staged[u][e] # "none"
      BY <1>0, <1>10, ArtifactTypes DEF Purge, NoStaged
    <3>3. QED
      BY <3>1, <3>2, SourceStays
  <2>4. QED
    BY <2>2, <2>3
<1>11. CASE OtherOperation \/ UnlockedStep
  BY <1>1, <1>11, OrdinarySteps, SourceStays
  DEF OtherOperation, UnlockedStep, artifactVars
<1>12. CASE \/ \E j \in Job, t \in Token : BeginPublication(j, t)
            \/ StopPublication \/ UNCHANGED publishVars
  BY <1>12, SourceStays DEF BeginPublication, StopPublication, publishVars,
     artifactVars, recordVars
<1>13. QED
  BY <1>3, <1>4, <1>5, <1>6, <1>7, <1>8, <1>9, <1>10, <1>11, <1>12
  DEF PublishNext, AttemptStep, PublicationStep

-----------------------------------------------------------------------------
(* The steps of a publication leave its attempt able to publish            *)

LEMMA PublicationKeepsReady ==
    ASSUME PublishInv, NEW t \in Token, Ready(t), publishing = t,
           Stamp(t) \/ RetirePublished(t) \/ RenameIntoPlace(t)
    PROVE  Ready(t)' /\ UNCHANGED <<recordVars, publishing>>
<1>0. PublishTypeOK /\ issued[t] \in Job
  BY DEF PublishInv, ArtifactInv, Held
<1>1. CASE Stamp(t)
  BY <1>0, <1>1, Stamps, ReadyKept DEF recordVars, Ours
<1>2. CASE RetirePublished(t)
  <2>1. PICK f \in Directory :
          /\ published[issued[t]][f] # t
          /\ published' = [published EXCEPT ![issued[t]][f] = None]
          /\ UNCHANGED <<recordVars, fetched, staged, source, publishing>>
    BY <1>0, <1>2, Retires
  <2>2. \A e \in Directory :
          published[issued[t]][e] = t => published'[issued[t]][e] = t
    BY <1>0, <2>1, ArtifactTypes
  <2>3. QED
    BY <2>1, <2>2, ReadyKept DEF recordVars, Ours
<1>3. CASE RenameIntoPlace(t)
  <2>1. PICK f \in Directory :
          /\ published' = [published EXCEPT ![issued[t]][f] = t]
          /\ staged' = [staged EXCEPT ![t][f] = "none"]
          /\ UNCHANGED <<recordVars, fetched, source, publishing>>
    BY <1>0, <1>3, Renames
  <2>2. \A e \in Directory :
          /\ e = f => published'[issued[t]][e] = t
          /\ e # f => /\ published'[issued[t]][e] = published[issued[t]][e]
                      /\ staged'[t][e] = staged[t][e]
    BY <1>0, <2>1, ArtifactTypes
  <2>3. QED
    BY <2>1, <2>2, ReadyKept DEF recordVars, Ours
<1>4. QED
  BY <1>1, <1>2, <1>3

LEMMA HeldStays ==
    ASSUME PublishInv, [PublishNext]_publishVars, NEW u \in Token
    PROVE  Held(u)'
<1>0. PublishTypeOK /\ QueueInv /\ Held(u) /\ u # None
  BY PublishAssumption DEF PublishInv, ArtifactInv
<1>1. ASSUME UNCHANGED <<recordVars, artifactVars>>, Ready(u)
      PROVE  Ready(u)'
  BY <1>1, ReadyKept DEF recordVars, artifactVars, Ours
<1>2. ASSUME NEW t \in Token, NEW f \in Directory, StageDirectory(t, f)
      PROVE  Held(u)'
  <2> SUFFICES ASSUME publishing = u PROVE Held(u)'
    BY <1>2 DEF StageDirectory, Held
  <2>1. /\ u # t /\ UNCHANGED <<fetched, published, source, job, issued>>
        /\ staged'[u] = staged[u]
    BY <1>0, <1>2, ArtifactTypes DEF StageDirectory, Queue!AttemptWrites
  <2>2. Ready(u)'
    BY <1>0, <2>1, ReadyKept DEF Held, Ours
  <2>3. QED
    BY <1>0, <2>1, <2>2 DEF Held
<1>3. ASSUME NEW j \in Job, NEW t \in Token, DiscardAttempt(j, t)
      PROVE  Held(u)'
  <2> SUFFICES ASSUME publishing = u PROVE Held(u)'
    BY <1>3 DEF DiscardAttempt, Held
  <2>1. u # t
    BY <1>0, <1>3, HolderRuns DEF DiscardAttempt, Held
  <2>2. staged'[u] = staged[u]
    BY <1>0, <1>3, <2>1, ArtifactTypes DEF DiscardAttempt
  <2>3. Ready(u)'
    BY <1>0, <1>3, <2>2, ReadyKept DEF DiscardAttempt, recordVars, Held, Ours
  <2>4. QED
    BY <1>0, <1>3, <2>3 DEF DiscardAttempt, recordVars, Held
<1>4. ASSUME NEW j \in Job, NEW t \in Token, BeginPublication(j, t)
      PROVE  Held(u)'
  BY <1>1, <1>4
  DEF BeginPublication, Queue!LeaseHeld, Held, recordVars, artifactVars
<1>5. ASSUME NEW t \in Token,
             Stamp(t) \/ RetirePublished(t) \/ RenameIntoPlace(t)
      PROVE  Held(u)'
  <2>1. publishing = t
    BY <1>5 DEF Stamp, RetirePublished, RenameIntoPlace
  <2>2. Held(t)
    BY DEF PublishInv, ArtifactInv
  <2>3. Ready(t)' /\ UNCHANGED <<recordVars, publishing>>
    BY <1>5, <2>1, <2>2, PublicationKeepsReady DEF Held
  <2>4. QED
    BY <2>1, <2>2, <2>3 DEF Held, recordVars
<1>6. CASE StopPublication \/ \E t \in Token : Commit(t)
  BY <1>0, <1>6 DEF StopPublication, Commit, Held
<1>7. CASE \/ OtherOperation \/ \E j \in Job : Purge(j)
           \/ \E j \in Job, t \in Token : RecordSource(j, t)
  BY <1>0, <1>7 DEF OtherOperation, Purge, RecordSource, Held
<1>8. CASE UnlockedStep
  <2> SUFFICES ASSUME publishing = u PROVE Held(u)'
    BY <1>8 DEF UnlockedStep, Held
  <2>1. issued' = issued /\ UNCHANGED artifactVars
    BY <1>8 DEF UnlockedStep, Queue!OpenStaging, Queue!ReceiveBytes,
       Queue!RequestEnds, Queue!Tick
  <2>2. job'[issued[u]].lease = job[issued[u]].lease
    <3>1. CASE job' = job
      BY <3>1
    <3>2. CASE Queue!Tick
      <4>1. issued[u] \in Job
        BY <1>0 DEF Held
      <4>2. job[issued[u]] \in Queue!JobRecord
        BY <1>0, <4>1, RecordTypes
      <4>3. job'[issued[u]] =
              [job[issued[u]] EXCEPT !.leaseLeft = Queue!Down(@),
                                     !.cancelLeft = Queue!Down(@)]
        BY <3>2, <4>1 DEF Queue!Tick
      <4>4. QED
        BY <4>2, <4>3 DEF Queue!JobRecord
    <3>3. QED
      BY <1>8, <3>1, <3>2
      DEF UnlockedStep, Queue!OpenStaging, Queue!ReceiveBytes,
          Queue!RequestEnds, Queue!fileVars
  <2>3. Ready(u)'
    BY <1>0, <2>1, ReadyKept DEF Held, artifactVars, Ours
  <2>4. QED
    BY <1>0, <2>1, <2>2, <2>3 DEF Held
<1>9. CASE UNCHANGED publishVars
  BY <1>0, <1>1, <1>9 DEF publishVars, recordVars, Held
<1>10. QED
  BY <1>2, <1>3, <1>4, <1>5, <1>6, <1>7, <1>8, <1>9
  DEF PublishNext, AttemptStep, PublicationStep

-----------------------------------------------------------------------------
(* A completed job keeps serving what its last attempt made                *)

LEMMA ServedStays ==
    ASSUME PublishInv, NEW k \in Job, fetched' = fetched,
           job'[k].status = "completed" =>
             /\ job[k].status = "completed" /\ lastClaim'[k] = lastClaim[k]
             /\ published'[k] = published[k] /\ source'[k] = source[k]
    PROVE  ServedFor(k)'
<1>1. ServedFor(k)
  BY ServedPerJob DEF PublishInv
<1>2. QED
  BY <1>1 DEF ServedFor

LEMMA ServedInductive ==
    ASSUME PublishInv, [PublishNext]_publishVars, NEW k \in Job
    PROVE  ServedFor(k)'
<1>0. PublishTypeOK /\ QueueInv
  BY DEF PublishInv
<1>1. Ordinary => (job'[k].status = "completed" =>
                     /\ job[k].status = "completed"
                     /\ lastClaim'[k] = lastClaim[k])
  BY <1>0, OrdinaryFacts
<1>2. ASSUME NEW t \in Token, publishing = t
      PROVE  issued[t] \in Job /\ job[issued[t]].status = "running"
  BY <1>0, <1>2, HolderRuns DEF PublishInv, ArtifactInv, Held
<1>3. CASE \/ OtherOperation \/ UnlockedStep
           \/ \E t \in Token, f \in Directory : StageDirectory(t, f)
  BY <1>1, <1>3, OrdinarySteps, ServedStays
  DEF OtherOperation, UnlockedStep, StageDirectory, artifactVars
<1>4. ASSUME NEW j \in Job, NEW t \in Token, RecordSource(j, t)
      PROVE  ServedFor(k)'
  <2>1. job[j].status = "running"
    BY <1>0, <1>4, HolderRuns
    DEF RecordSource, Queue!FencedUpdate, Queue!LeaseHeld
  <2>2. k # j => source'[k] = source[k]
    BY <1>0, <1>4, ArtifactTypes DEF RecordSource
  <2>3. QED
    BY <1>1, <1>4, <2>1, <2>2, OrdinarySteps, ServedStays DEF RecordSource
<1>5. CASE \/ \E j \in Job, t \in Token :
                DiscardAttempt(j, t) \/ BeginPublication(j, t)
           \/ StopPublication \/ UNCHANGED publishVars
  BY <1>5, ServedStays DEF DiscardAttempt, BeginPublication, StopPublication,
     publishVars, recordVars, artifactVars
<1>6. CASE \E t \in Token : Stamp(t)
  BY <1>0, <1>6, Stamps, ServedStays DEF recordVars
<1>7. ASSUME NEW t \in Token, RetirePublished(t) \/ RenameIntoPlace(t)
      PROVE  ServedFor(k)'
  <2>1. issued[t] \in Job /\ job[issued[t]].status = "running"
    BY <1>2, <1>7 DEF RetirePublished, RenameIntoPlace
  <2>2. PICK e \in Directory, w \in {None, t} :
          /\ published' = [published EXCEPT ![issued[t]][e] = w]
          /\ UNCHANGED <<recordVars, fetched, source>>
    BY <1>0, <1>7, <2>1, Retires, Renames
  <2>3. k # issued[t] => published'[k] = published[k]
    BY <1>0, <2>2, ArtifactTypes
  <2>4. QED
    BY <2>1, <2>2, <2>3, ServedStays DEF recordVars
<1>8. ASSUME NEW t \in Token, Commit(t) PROVE ServedFor(k)'
  <2>1. UNCHANGED <<lastClaim, fetched, published>>
    BY <1>8 DEF Commit
  <2>2. CASE k = issued[t]
    BY <1>8, <2>1, <2>2, CommitServes DEF ServedFor
  <2>3. CASE k # issued[t]
    <3>1. job'[k] = job[k] /\ source'[k] = source[k]
      BY <1>0, <1>8, <2>3, RecordTypes, ArtifactTypes
      DEF Commit, CommittedSource
    <3>2. QED
      BY <2>1, <3>1, ServedStays
  <2>4. QED
    BY <2>2, <2>3
<1>9. ASSUME NEW j \in Job, Purge(j) PROVE ServedFor(k)'
  <2>1. /\ job' = [job EXCEPT ![j] = Queue!NoJob]
        /\ UNCHANGED <<lastClaim, fetched>>
    BY <1>9 DEF Purge, Queue!PurgeOne, Queue!historyVars
  <2>2. k = j => job'[k].status = "none"
    BY <1>0, <2>1, RecordTypes DEF Queue!NoJob
  <2>3. k # j => /\ job'[k] = job[k] /\ published'[k] = published[k]
                 /\ source'[k] = source[k]
    BY <1>0, <1>9, <2>1, RecordTypes, ArtifactTypes DEF Purge
  <2>4. QED
    BY <2>1, <2>2, <2>3, ServedStays
<1>10. QED
  BY <1>3, <1>4, <1>5, <1>6, <1>7, <1>8, <1>9
  DEF PublishNext, AttemptStep, PublicationStep

-----------------------------------------------------------------------------
(* No bytes are lost                                                       *)

LEMMA KeptStays ==
    ASSUME PublishInv, NEW t \in Token, NEW e \in Directory, Kept(t, e),
           issued[t] \in Job => issued'[t] = issued[t],
           staged[t][e] # "none" => staged'[t][e] # "none",
           published' = published, orphaned' = orphaned
    PROVE  Kept(t, e)'
<1>1. issued[t] # None => issued[t] \in Job
  BY RecordTypes DEF PublishInv
<1>2. QED
  BY <1>1 DEF Kept

LEMMA BytesStay ==
    ASSUME PublishInv, [PublishNext]_publishVars,
           NEW t \in Token, NEW e \in Directory, Kept(t, e), ~Kept(t, e)'
    PROVE  \/ job'[issued[t]].status = "none"
           \/ job[issued[t]].status = "cancelled" /\ staged[t][e] # "none"
<1>0. PublishTypeOK /\ QueueInv
  BY DEF PublishInv
<1>1. Ordinary => (issued[t] \in Job => issued'[t] = issued[t])
  BY <1>0, OrdinaryFacts
<1>2. ASSUME NEW u \in Token, publishing = u
      PROVE  issued[u] \in Job
  BY <1>2 DEF PublishInv, ArtifactInv, Held
<1>3. ASSUME NEW u \in Token, NEW f \in Directory, StageDirectory(u, f)
      PROVE  FALSE
  <2>1. staged[t][e] # "none" => staged'[t][e] # "none"
    BY <1>0, <1>3, ArtifactTypes DEF StageDirectory
  <2>2. QED
    BY <1>1, <1>3, <2>1, OrdinarySteps, KeptStays DEF StageDirectory
<1>4. ASSUME NEW j \in Job, NEW u \in Token, DiscardAttempt(j, u)
      PROVE  job[issued[t]].status = "cancelled" /\ staged[t][e] # "none"
  <2>1. u # t \/ staged[t][e] = "none"
          => (staged[t][e] # "none" => staged'[t][e] # "none")
    BY <1>0, <1>4, ArtifactTypes DEF DiscardAttempt
  <2>2. ~(u # t \/ staged[t][e] = "none")
    BY <1>4, <2>1, KeptStays DEF DiscardAttempt, recordVars
  <2>3. QED
    BY <1>4, <2>2 DEF DiscardAttempt
<1>5. ASSUME NEW u \in Token, RetirePublished(u)
      PROVE  FALSE
  <2>0. issued[u] \in Job
    BY <1>2, <1>5 DEF RetirePublished
  <2>1. PICK f \in Directory :
          LET j == issued[u]
          IN /\ orphaned' = orphaned \union {<<f, published[j][f]>>}
             /\ published' = [published EXCEPT ![j][f] = None]
             /\ UNCHANGED <<recordVars, staged>>
    BY <1>0, <1>5, <2>0, Retires
  <2>2. issued' = issued /\ staged' = staged /\ orphaned \subseteq orphaned'
    BY <2>1 DEF recordVars
  <2>3. issued[t] # None => issued[t] \in Job
    BY <1>0, RecordTypes
  <2>4. ASSUME issued[t] # None, published[issued[t]][e] = t
        PROVE  published'[issued[t]][e] = t \/ <<e, t>> \in orphaned'
    BY <1>0, <2>0, <2>1, <2>3, <2>4, ArtifactTypes
  <2>5. QED
    BY <2>2, <2>4 DEF Kept
<1>6. ASSUME NEW u \in Token, RenameIntoPlace(u)
      PROVE  FALSE
  <2>0. issued[u] \in Job /\ t # None
    BY <1>2, <1>6, PublishAssumption DEF RenameIntoPlace
  <2>1. PICK f \in Directory :
          LET j == issued[u]
          IN /\ published[j][f] = None
             /\ published' = [published EXCEPT ![j][f] = u]
             /\ staged' = [staged EXCEPT ![u][f] = "none"]
             /\ UNCHANGED <<recordVars, orphaned>>
    BY <1>0, <1>6, <2>0, Renames
  <2>2. issued' = issued /\ orphaned' = orphaned
    BY <2>1 DEF recordVars
  <2>3. issued[t] # None => issued[t] \in Job
    BY <1>0, RecordTypes
  <2>4. ASSUME issued[t] # None, published[issued[t]][e] = t
        PROVE  published'[issued[t]][e] = t
    BY <1>0, <2>0, <2>1, <2>3, <2>4, ArtifactTypes
  <2>5. CASE t = u /\ e = f
    <3>1. published'[issued[t]][e] = t
      BY <1>0, <2>0, <2>1, <2>5, ArtifactTypes
    <3>2. issued[t] # None
      BY <2>0, <2>5, PublishAssumption
    <3>3. QED
      BY <2>2, <3>1, <3>2 DEF Kept
  <2>6. CASE t # u \/ e # f
    <3>1. staged'[t][e] = staged[t][e]
      BY <1>0, <2>1, <2>6, ArtifactTypes
    <3>2. QED
      BY <2>2, <2>4, <3>1 DEF Kept
  <2>7. QED
    BY <2>5, <2>6
<1>7. ASSUME NEW j \in Job, Purge(j)
      PROVE  job'[issued[t]].status = "none"
  <2>1. job' = [job EXCEPT ![j] = Queue!NoJob] /\ issued' = issued
    BY <1>7 DEF Purge, Queue!PurgeOne
  <2>2. CASE issued[t] = j
    BY <1>0, <2>1, <2>2, RecordTypes DEF Queue!NoJob
  <2>3. CASE issued[t] # j
    <3>1. staged'[t] = staged[t]
      BY <1>0, <1>7, <2>3, ArtifactTypes DEF Purge
    <3>2. issued[t] \in Job => published'[issued[t]] = published[issued[t]]
      BY <1>0, <1>7, <2>3, ArtifactTypes DEF Purge
    <3>3. <<e, t>> \in orphaned => <<e, t>> \in orphaned'
      BY <1>7, <2>3 DEF Purge
    <3>4. issued[t] # None => issued[t] \in Job
      BY <1>0, RecordTypes
    <3>5. QED
      BY <2>1, <3>1, <3>2, <3>3, <3>4 DEF Kept
  <2>4. QED
    BY <2>2, <2>3
<1>8. CASE \E u \in Token : Stamp(u)
  BY <1>0, <1>8, Stamps, KeptStays DEF recordVars
<1>9. CASE \/ \E j \in Job, u \in Token :
                BeginPublication(j, u)
           \/ \E u \in Token : Commit(u)
           \/ StopPublication \/ UNCHANGED publishVars
  BY <1>9, KeptStays DEF BeginPublication, Commit, StopPublication,
     publishVars, recordVars, artifactVars
<1>10. CASE \/ \E j \in Job, u \in Token : RecordSource(j, u)
            \/ OtherOperation \/ UnlockedStep
  BY <1>1, <1>10, OrdinarySteps, KeptStays
  DEF RecordSource, OtherOperation, UnlockedStep, artifactVars
<1>11. QED
  BY <1>3, <1>4, <1>5, <1>6, <1>7, <1>8, <1>9, <1>10
  DEF PublishNext, AttemptStep, PublicationStep

-----------------------------------------------------------------------------
(* What an attempt could publish it can publish again                      *)

LEMMA ReadyStays ==
    ASSUME PublishInv, [PublishNext]_publishVars,
           NEW t \in Token, issued[t] # None, Ready(t),
           job[issued[t]].lease = t, job'[issued[t]].lease = t
    PROVE  Ready(t)'
<1> DEFINE k == issued[t]
<1>0. /\ PublishTypeOK /\ QueueInv /\ k \in Job /\ t # None
      /\ job[k].status = "running"
  <2>1. PublishTypeOK /\ QueueInv /\ t # None
    BY PublishAssumption DEF PublishInv
  <2>2. k \in Job
    BY <2>1, RecordTypes
  <2>3. QED
    BY <2>1, <2>2, HolderRuns
<1>1. Ordinary => issued'[t] = issued[t]
  BY <1>0, OrdinaryFacts
<1>2. ASSUME NEW u \in Token, publishing = u, u # t
      PROVE  issued[u] \in Job /\ issued[u] # k
  BY <1>2 DEF PublishInv, ArtifactInv, Held
<1>3. ASSUME NEW u \in Token, NEW f \in Directory, StageDirectory(u, f)
      PROVE  Ready(t)'
  <2>1. \A e \in Directory : staged[t][e] # "none" => staged'[t][e] # "none"
    BY <1>0, <1>3, ArtifactTypes DEF StageDirectory
  <2>2. QED
    BY <1>1, <1>3, <2>1, OrdinarySteps, ReadyKept DEF StageDirectory, Ours
<1>4. ASSUME NEW j \in Job, NEW u \in Token, RecordSource(j, u)
      PROVE  Ready(t)'
  <2>1. /\ source' = [source EXCEPT ![j] = u] /\ job[j].lease = u
        /\ UNCHANGED <<fetched, staged, published>> /\ issued'[t] = issued[t]
        /\ staged[u]["input"] # "none"
    BY <1>1, <1>4, OrdinarySteps
    DEF RecordSource, Queue!FencedUpdate, Queue!LeaseHeld
  <2>2. CASE j = k
    <3>1. u = t
      BY <2>1, <2>2
    <3>2. Entries(t)' \subseteq Entries(t) \union {"input"}
      BY <2>1, <3>1 DEF Entries
    <3>3. \A e \in Required(t)' : e = "input" \/ e \in Required(t)
      BY <3>2 DEF Required
    <3>4. QED
      BY <2>1, <3>1, <3>3 DEF Ready, Ours
  <2>3. CASE j # k
    <3>1. source'[k] = source[k]
      BY <1>0, <2>1, <2>3, ArtifactTypes
    <3>2. QED
      BY <2>1, <3>1, ReadyKept DEF Ours
  <2>4. QED
    BY <2>2, <2>3
<1>5. ASSUME NEW j \in Job, NEW u \in Token, DiscardAttempt(j, u)
      PROVE  Ready(t)'
  <2>1. u # t
    BY <1>0, <1>5 DEF DiscardAttempt
  <2>2. staged'[t] = staged[t]
    BY <1>0, <1>5, <2>1, ArtifactTypes DEF DiscardAttempt
  <2>3. QED
    BY <1>5, <2>2, ReadyKept DEF DiscardAttempt, recordVars, Ours
<1>6. ASSUME NEW u \in Token,
             Stamp(u) \/ RetirePublished(u) \/ RenameIntoPlace(u)
      PROVE  Ready(t)'
  <2>1. publishing = u
    BY <1>6 DEF Stamp, RetirePublished, RenameIntoPlace
  <2>2. CASE u = t
    BY <1>6, <2>1, <2>2, PublicationKeepsReady
  <2>3. CASE u # t
    <3>0. issued[u] \in Job /\ issued[u] # k
      BY <1>2, <2>1, <2>3
    <3>1. CASE Stamp(u)
      BY <1>0, <3>1, Stamps, ReadyKept DEF recordVars, Ours
    <3>2. CASE RetirePublished(u)
      <4>1. PICK f \in Directory :
              /\ published' = [published EXCEPT ![issued[u]][f] = None]
              /\ UNCHANGED <<recordVars, fetched, staged, source>>
        BY <1>0, <3>0, <3>2, Retires
      <4>2. published'[k] = published[k]
        BY <1>0, <3>0, <4>1, ArtifactTypes
      <4>3. QED
        BY <4>1, <4>2, ReadyKept DEF recordVars, Ours
    <3>3. CASE RenameIntoPlace(u)
      <4>1. PICK f \in Directory :
              /\ published' = [published EXCEPT ![issued[u]][f] = u]
              /\ staged' = [staged EXCEPT ![u][f] = "none"]
              /\ UNCHANGED <<recordVars, fetched, source>>
        BY <1>0, <3>0, <3>3, Renames
      <4>2. published'[k] = published[k] /\ staged'[t] = staged[t]
        BY <1>0, <2>3, <3>0, <4>1, ArtifactTypes
      <4>3. QED
        BY <4>1, <4>2, ReadyKept DEF recordVars, Ours
    <3>4. QED
      BY <1>6, <3>1, <3>2, <3>3
  <2>4. QED
    BY <2>2, <2>3
<1>7. ASSUME NEW u \in Token, Commit(u) PROVE Ready(t)'
  <2>1. u # t
    <3> SUFFICES ASSUME u = t PROVE FALSE
      OBVIOUS
    <3>1. job'[k].lease = None
      BY <1>0, <1>7, RecordTypes DEF Commit, Queue!JobRecord
    <3>2. QED
      BY <1>0, <3>1
  <2>2. issued[u] # k
    BY <1>2, <1>7, <2>1 DEF Commit
  <2>3. source'[k] = source[k]
    BY <1>0, <1>7, <2>2, ArtifactTypes DEF Commit, CommittedSource
  <2>4. QED
    BY <1>7, <2>3, ReadyKept DEF Commit, Ours
<1>8. ASSUME NEW j \in Job, Purge(j) PROVE Ready(t)'
  <2>1. job' = [job EXCEPT ![j] = Queue!NoJob] /\ issued' = issued
    BY <1>8 DEF Purge, Queue!PurgeOne
  <2>2. j # k
    BY <1>0, <2>1, RecordTypes DEF Queue!NoJob
  <2>3. /\ published'[k] = published[k] /\ source'[k] = source[k]
        /\ staged'[t] = staged[t] /\ fetched' = fetched
    BY <1>0, <1>8, <2>2, ArtifactTypes DEF Purge
  <2>4. QED
    BY <2>1, <2>3, ReadyKept DEF Ours
<1>9. CASE \/ \E j \in Job, u \in Token : BeginPublication(j, u)
           \/ StopPublication \/ UNCHANGED publishVars
  BY <1>9, ReadyKept DEF BeginPublication, StopPublication, publishVars,
     recordVars, artifactVars, Ours
<1>10. CASE OtherOperation \/ UnlockedStep
  BY <1>1, <1>10, OrdinarySteps, ReadyKept
  DEF OtherOperation, UnlockedStep, artifactVars, Ours
<1>11. QED
  BY <1>3, <1>4, <1>5, <1>6, <1>7, <1>8, <1>9, <1>10
  DEF PublishNext, AttemptStep, PublicationStep

-----------------------------------------------------------------------------
(* The invariant, and what follows from it                                 *)

LEMMA PublishInvInductive == PublishInv /\ [PublishNext]_publishVars => PublishInv'
<1> SUFFICES ASSUME PublishInv, [PublishNext]_publishVars
             PROVE  PublishInv'
  OBVIOUS
<1>1. QueueInv'
  BY PublishStepIsQueueStep, QueueInvInductive DEF PublishInv
<1>2. ArtifactInv'
  BY ArtifactsStay, SourcesStay, HeldStays DEF ArtifactInv
<1>3. ServedTogether'
  BY ServedInductive DEF ServedFor, ServedTogether
<1>4. QED
  BY <1>1, <1>2, <1>3, PublishTypeInductive DEF PublishInv

LEMMA PublishInvAlways == PublishSpec => []PublishInv
<1>1. PublishInit => PublishInv
  <2> SUFFICES ASSUME PublishInit PROVE PublishInv
    OBVIOUS
  <2>1. /\ Queue!Init /\ fetched \in SUBSET Job
        /\ staged = [t \in Token |-> NoStaged]
        /\ published = [j \in Job |-> NothingPublished]
        /\ orphaned = {} /\ source = [j \in Job |-> None]
        /\ publishing = None
    BY DEF PublishInit
  <2>2. /\ \A j \in Job : job[j].status = "none" /\ job[j].lease = None
        /\ \A t \in Token : issued[t] = None
    BY <2>1 DEF Queue!Init, Queue!NoJob
  <2>3. Proved!Init
    BY <2>1 DEF Queue!Init, Proved!Init, Queue!NoJob, Proved!NoJob
  <2>4. QueueInv
    BY <2>3, Configured, SameType, Proved!InitHolds DEF QueueInv
  <2>5. PublishTypeOK
    BY <2>1, <2>4
    DEF PublishTypeOK, QueueInv, NoStaged, NothingPublished
  <2>6. ArtifactInv
    BY <2>1, <2>2, PublishAssumption
    DEF ArtifactInv, StagedAt, ServedAt, SourcedFor, Held, NoStaged,
        NothingPublished
  <2>7. ServedTogether
    BY <2>2 DEF ServedTogether
  <2>8. QED
    BY <2>4, <2>5, <2>6, <2>7 DEF PublishInv
<1>2. QED
  BY <1>1, PublishInvInductive, PTL DEF PublishSpec

(* The types of the records, the staged and the served directories, for    *)
(* every publication that stops anywhere and is called again.              *)
THEOREM PublishTypeCorrect == PublishSpec => []PublishTypeOK
BY PublishInvAlways, PTL DEF PublishInv

(* A completed job serves the directories of one attempt, its last, and    *)
(* its sourcePath names a file that was published with them, for any       *)
(* number of attempts that died between two renames                        *)
(* (publishAttemptAndComplete, retirePublished).                           *)
THEOREM ServedAreOneAttempts == PublishSpec => []ServedTogether
BY PublishInvAlways, PTL DEF PublishInv

(* Until the job is purged, what an attempt staged stays staged, served or *)
(* moved aside, however often publications die half way; only the attempt  *)
(* of a cancelled job discards what it staged (retirePublished).           *)
THEOREM BytesAreKept == PublishSpec => BytesKept
<1>1. ASSUME PublishInv, [PublishNext]_publishVars
      PROVE  [\A t \in Token, e \in Directory :
                Kept(t, e) /\ ~Kept(t, e)' =>
                  \/ job'[issued[t]].status = "none"
                  \/ job[issued[t]].status = "cancelled" /\ staged[t][e] # "none"]_publishVars
  BY <1>1, BytesStay
<1>2. QED
  BY <1>1, PublishInvAlways, PTL DEF PublishSpec, BytesKept

(* An attempt that could publish and still holds its lease can publish,    *)
(* wherever its publication stopped and whatever the others did since      *)
(* (publishAttemptAndComplete).                                            *)
THEOREM CanPublishAgain == PublishSpec => Republishable
<1>1. ASSUME PublishInv, [PublishNext]_publishVars
      PROVE  [\A t \in Token :
                (issued[t] # None /\ Ready(t) /\ job[issued[t]].lease = t
                   /\ job'[issued[t]].lease = t) => Ready(t)']_publishVars
  BY <1>1, ReadyStays
<1>2. QED
  BY <1>1, PublishInvAlways, PTL DEF PublishSpec, Republishable

(* Rename by rename, with a death between any two, a publication does what *)
(* PrimaryQueue says it does in one step or torn: the fence that was       *)
(* checked before the first rename holds until the commit, because nothing *)
(* that could take the lease runs while the lock is held.                  *)
THEOREM PublicationImplementsQueue == PublishSpec => PublishesAtOnce
<1>1. PublishInit => Queue!Init
  BY DEF PublishInit
<1>2. PublishInv /\ [PublishNext]_publishVars => [Queue!Next]_Queue!vars
  BY PublishStepIsQueueStep
<1>3. QED
  BY <1>1, <1>2, PublishInvAlways, PTL
  DEF PublishSpec, PublishesAtOnce, Queue!Spec
=============================================================================
