------------------------------ MODULE DocStore ------------------------------
(***************************************************************************)
(* The document store of one clip (edit_v2/store.py): the files edit/      *)
(* doc.json, edit/archive and edit/receipts, and the operations that write *)
(* them under the clip's flock.  The lock is exclusive and the kernel      *)
(* frees it when its holder dies, so at most one save is under way; it is  *)
(* the variable put, and each rename of a save is a step, because the      *)
(* process may be killed (the API kills it at its deadline) or the power   *)
(* may fail between two of them.                                           *)
(*                                                                         *)
(* A rename is durable only once its directory was fsynced.  Next to each  *)
(* file stands what a power loss may leave in its place: docDisk and       *)
(* receiptDisk are the possible contents, archiveDisk the archives that    *)
(* are certain to survive, archiveBack the removed ones that may come      *)
(* back.  Every file is fsynced before it is renamed, so *)
(* a name that survives has its full content -- except the rewrite of a    *)
(* receipt as committed, which is never fsynced and may come back as the   *)
(* pending receipt or as an empty file, read as absent.                    *)
(***************************************************************************)
EXTENDS Integers, Sequences, FiniteSets

CONSTANTS Key, Body, None,
          Ahead,         \* bound: how far the clock may be ahead of the previous stamp
          MaxRevision,   \* bound on the number of revisions
          MaxPowerLosses,\* bound on the number of power losses
          ReceiptsKeep,  \* RECEIPTS_KEEP: how many committed receipts are kept
          ArchiveKeep,   \* ARCHIVE_KEEP: how many archived revisions are kept
          Env            \* the faults of this instance

Faults == {"kill", "power"}
ASSUME BoundAssumption ==
    /\ Ahead \in Nat /\ MaxPowerLosses \in Nat
    /\ ReceiptsKeep \in Nat \ {0} /\ ArchiveKeep \in Nat \ {0}

VARIABLES doc,          \* the etag of edit/doc.json, Seed when there is none
          archive,      \* the etags of the files in edit/archive
          receipts,     \* edit/receipts: None or the receipt of each key
          put,          \* the save that holds the lock, or None
          docDisk, archiveDisk, archiveBack, receiptDisk,
          written,      \* history: the saves whose document was renamed into place
          told,         \* history: the revisions whose PUT was answered
          acked,        \* history: those answered by the save, after its fsyncs
          powerLosses

files == <<doc, archive, receipts>>
disk == <<docDisk, archiveDisk, archiveBack, receiptDisk>>
answers == <<told, acked>>
vars == <<files, put, disk, written, answers, powerLosses>>

Register == INSTANCE EditRegister WITH
    value <- doc, answered <- told, lasting <- acked

Seed == Register!Seed
At(e) == Register!At(e)
Precedes(e, f) == Register!Precedes(e, f)
Ancestor(e, n) == SubSeq(e, 1, n)

States == {"pending", "committed"}
Receipt == [payload: Register!Payload, state: States, result: Register!Etag]
Phases == {"staged", "pending", "linked", "renamed", "committed"}
Save == [key: Key, payload: Register!Payload, result: Register!Etag,
         phase: Phases, links: BOOLEAN]
ASSUME NoneAssumption == None \notin Receipt

Init ==
    /\ doc = Seed /\ archive = {} /\ receipts = [k \in Key |-> None]
    /\ put = None
    /\ docDisk = {Seed} /\ archiveDisk = {} /\ archiveBack = {}
    /\ receiptDisk = [k \in Key |-> {None}]
    /\ written = {} /\ told = {} /\ acked = {} /\ powerLosses = 0

\* The revision is the current one or archived (_current, _find_archive).
Published(e) == e = doc \/ e \in archive

(***************************************************************************)
(* _prune_locked: the newest ReceiptsKeep committed receipts by their      *)
(* stamp stay, and every pending one.  Stamps may be equal after a save    *)
(* was lost and made again; the file names decide then.                    *)
(***************************************************************************)
Committed(r) == {k \in Key: r[k] # None /\ r[k].state = "committed"}
\* seeded fault: pending receipts count among those kept
KeptWithPending(r, K) ==
    LET P == {k \in Key: r[k] # None} \ Committed(r) IN
    /\ K \subseteq Committed(r)
    /\ \/ K = Committed(r) /\ Cardinality(K \union P) <= ReceiptsKeep
       \/ Cardinality(K) = ReceiptsKeep - Cardinality(P)
       \/ K = {} /\ Cardinality(P) >= ReceiptsKeep
    /\ \A k \in K, j \in Committed(r) \ K: At(r[k].result) >= At(r[j].result)
Kept(r, K) ==
    /\ K \subseteq Committed(r)
    /\ \/ K = Committed(r) /\ Cardinality(K) <= ReceiptsKeep
       \/ Cardinality(K) = ReceiptsKeep
    /\ \A k \in K, j \in Committed(r) \ K: At(r[k].result) >= At(r[j].result)

Prune(r, d) ==
    \E K \in SUBSET Committed(r):
        /\ Kept(r, K)
        /\ receipts' = [k \in Key |-> IF k \in Committed(r) \ K THEN None ELSE r[k]]
        /\ receiptDisk' = [k \in Key |-> IF k \in Committed(r) \ K THEN d[k] \union {None}
                                                                   ELSE d[k]]

\* The rewrite as committed, not fsynced, and the pruning after every commit.
Commit(k) ==
    LET r == [receipts[k] EXCEPT !.state = "committed"] IN
    Prune([receipts EXCEPT ![k] = r],
          [receiptDisk EXCEPT ![k] = @ \union {r, None}])

(***************************************************************************)
(* put, under the lock.  A save starts in one of two ways: the key is new  *)
(* and If-Match names the current revision, or its pending receipt proves  *)
(* that an earlier try published nothing and the revision it started from  *)
(* is still current (_reconcile).  Everything else is an error that writes *)
(* nothing.  Validation happens before the first rename; a rejected        *)
(* document leaves nothing behind and is no step here.                     *)
(***************************************************************************)
Starts(k, p, result) ==
    put' = [key |-> k, payload |-> p, result |-> result, phase |-> "staged", links |-> FALSE]

\* A client draws a key per payload and sends no other payload under it.
FreshKey(k, p) == \A w \in written: w.key = k => w.payload = p

BeginSave(k, b, at) ==
    /\ put = None
    /\ receipts[k] = None
    /\ FreshKey(k, [expected |-> doc, body |-> b])
    /\ Len(doc) < MaxRevision
    /\ at \in At(doc)+1..At(doc)+Ahead
    /\ Starts(k, [expected |-> doc, body |-> b], Append(doc, [body |-> b, at |-> at]))
    /\ UNCHANGED <<files, disk, written, answers, powerLosses>>

\* seeded fault: the interrupted save is finished whatever the stored revision is
ResumeAnyway(k) ==
    /\ put = None
    /\ receipts[k] # None /\ receipts[k].state = "pending"
    /\ ~Published(receipts[k].result)
    /\ Starts(k, receipts[k].payload, receipts[k].result)
    /\ UNCHANGED <<files, disk, written, answers, powerLosses>>
ResumeSave(k) ==
    /\ put = None
    /\ receipts[k] # None /\ receipts[k].state = "pending"
    /\ ~Published(receipts[k].result)
    /\ doc = receipts[k].payload.expected
    /\ Starts(k, receipts[k].payload, receipts[k].result)
    /\ UNCHANGED <<files, disk, written, answers, powerLosses>>

RenamePending ==
    /\ put # None /\ put.phase = "staged"
    /\ LET r == [payload |-> put.payload, state |-> "pending", result |-> put.result] IN
       /\ receipts' = [receipts EXCEPT ![put.key] = r]
       /\ receiptDisk' = [receiptDisk EXCEPT ![put.key] = @ \union {r}]
    /\ put' = [put EXCEPT !.phase = "pending"]
    /\ UNCHANGED <<doc, archive, docDisk, archiveDisk, archiveBack, written, answers,
                   powerLosses>>

\* The superseded revision; revision 0 is the seed file, and an archive that
\* exists is not written again.
LinkArchive ==
    /\ put # None /\ put.phase = "pending"
    /\ LET new == {doc} \ (archive \union {Seed}) IN
       /\ archive' = archive \union new
       /\ put' = [put EXCEPT !.phase = "linked", !.links = (new # {})]
    /\ UNCHANGED <<doc, receipts, disk, written, answers, powerLosses>>

RenameDoc ==
    /\ put # None /\ put.phase = "linked"
    /\ doc' = put.result
    /\ docDisk' = docDisk \union {put.result}
    /\ written' = written \union {[key |-> put.key, payload |-> put.payload, result |-> put.result]}
    /\ put' = [put EXCEPT !.phase = "renamed"]
    /\ UNCHANGED <<archive, receipts, archiveDisk, archiveBack, receiptDisk, answers,
                   powerLosses>>

CommitReceipt ==
    /\ put # None /\ put.phase = "renamed"
    /\ Commit(put.key)
    /\ put' = [put EXCEPT !.phase = "committed"]
    /\ UNCHANGED <<doc, archive, docDisk, archiveDisk, archiveBack, written, answers,
                   powerLosses>>

Answered ==
    /\ told' = told \union {put.result}
    /\ acked' = acked \union {put.result}
    /\ put' = None

\* seeded fault: the caller is answered while the fsyncs still run
ReturnEarly ==
    /\ put # None /\ put.phase = "committed"
    /\ Answered
    /\ UNCHANGED <<files, disk, written, powerLosses>>
\* seeded fault: the caller is answered before the document is in place
ReturnUnpublished ==
    /\ put # None /\ put.phase = "linked"
    /\ Answered
    /\ UNCHANGED <<files, disk, written, powerLosses>>
\* The directories of the three renames are fsynced before the caller is answered.
Return ==
    /\ put # None /\ put.phase = "committed"
    /\ docDisk' = {doc}
    /\ IF put.links THEN archiveDisk' = archive /\ archiveBack' = {}
                    ELSE UNCHANGED <<archiveDisk, archiveBack>>
    /\ receiptDisk' = [k \in Key |->
          IF receipts[k] # None /\ receipts[k].state = "pending" THEN {receipts[k]}
                                                                 ELSE receiptDisk[k]]
    /\ Answered
    /\ UNCHANGED <<files, written, powerLosses>>

(***************************************************************************)
(* Two retries are answered without a save of their own, and without an    *)
(* fsync: of a save that was published before its process died, and of one *)
(* whose receipt is committed.  If the revision of the latter is neither   *)
(* current nor archived, its answer is a conflict, and no step here.       *)
(***************************************************************************)
Tell(k) == told' = told \union {receipts[k].result} /\ UNCHANGED acked

Reconcile(k) ==
    /\ put = None
    /\ receipts[k] # None /\ receipts[k].state = "pending"
    /\ Published(receipts[k].result)
    /\ Commit(k)
    /\ Tell(k)
    /\ UNCHANGED <<doc, archive, put, docDisk, archiveDisk, archiveBack, written,
                   powerLosses>>

Replay(k) ==
    /\ put = None
    /\ receipts[k] # None /\ receipts[k].state = "committed"
    /\ Published(receipts[k].result)
    /\ Tell(k)
    /\ UNCHANGED <<files, put, disk, written, powerLosses>>

(***************************************************************************)
(* archive_for_render of the current revision: written and fsynced, unless *)
(* the file exists.  An older revision is only looked up.                  *)
(***************************************************************************)
ArchiveForRender ==
    /\ put = None
    /\ doc \notin archive \union {Seed}
    /\ archive' = archive \union {doc}
    /\ archiveDisk' = archive' /\ archiveBack' = {}
    /\ UNCHANGED <<doc, receipts, put, docDisk, receiptDisk, written, answers, powerLosses>>

(***************************************************************************)
(* The janitor's _prune_archives: the newest ArchiveKeep revisions and     *)
(* revision 1 stay.  It takes the lock, removes any of the others (a       *)
(* render may name one, or the janitor dies between two) and syncs         *)
(* nothing.                                                                *)
(***************************************************************************)
Revisions(A) == {Len(e): e \in A}
\* seeded fault: the oldest archives are the ones that stay
OldestArchived(N) ==
    /\ N \subseteq Revisions(archive)
    /\ N = Revisions(archive) \/ Cardinality(N) = ArchiveKeep
    /\ \A n \in N, m \in Revisions(archive) \ N: n < m
NewestArchived(N) ==
    /\ N \subseteq Revisions(archive)
    /\ N = Revisions(archive) \/ Cardinality(N) = ArchiveKeep
    /\ \A n \in N, m \in Revisions(archive) \ N: n > m

PruneArchives ==
    /\ put = None
    /\ \E N \in SUBSET Revisions(archive):
        \E gone \in SUBSET {e \in archive: Len(e) \notin N \union {1}}:
            /\ NewestArchived(N)
            /\ archive' = archive \ gone
            /\ archiveDisk' = archiveDisk \ gone
            /\ archiveBack' = archiveBack \union gone
    /\ UNCHANGED <<doc, receipts, put, docDisk, receiptDisk, written, answers, powerLosses>>

\* The process is killed (a timeout of the API, a crash) or an fsync fails.
Kill ==
    /\ "kill" \in Env
    /\ put # None
    /\ put' = None
    /\ UNCHANGED <<files, disk, written, answers, powerLosses>>

PowerLoss ==
    /\ "power" \in Env
    /\ powerLosses < MaxPowerLosses
    /\ powerLosses' = powerLosses + 1
    /\ doc' \in docDisk
    /\ \E lost \in SUBSET (archive \ archiveDisk), back \in SUBSET archiveBack:
          archive' = (archive \ lost) \union back
    /\ receipts' \in {r \in [Key -> UNION {receiptDisk[k]: k \in Key}]:
                         \A k \in Key: r[k] \in receiptDisk[k]}
    /\ docDisk' = {doc'} /\ archiveDisk' = archive' /\ archiveBack' = {}
    /\ receiptDisk' = [k \in Key |-> {receipts'[k]}]
    /\ put' = None
    /\ UNCHANGED <<written, answers>>

SaveStep == RenamePending \/ LinkArchive \/ RenameDoc \/ CommitReceipt \/ Return

Next ==
    \/ \E k \in Key, b \in Body, at \in At(doc)+1..At(doc)+Ahead: BeginSave(k, b, at)
    \/ \E k \in Key: ResumeSave(k) \/ Reconcile(k) \/ Replay(k)
    \/ SaveStep
    \/ ArchiveForRender
    \/ PruneArchives
    \/ Kill
    \/ PowerLoss

Spec == Init /\ [][Next]_vars
-----------------------------------------------------------------------------
(* The types of the files, of the save under way and of what a power loss  *)
(* may leave (put, _Staged, _write_receipt).                               *)
DocTypeOK ==
    /\ doc \in Register!Etag /\ archive \subseteq Register!Etag
    /\ receipts \in [Key -> Receipt \union {None}]
    /\ put \in Save \union {None}
    /\ docDisk \subseteq Register!Etag /\ doc \in docDisk
    /\ archiveDisk \subseteq archive /\ archiveBack \subseteq Register!Etag
    /\ receiptDisk \in [Key -> SUBSET (Receipt \union {None})]
    /\ \A k \in Key: receipts[k] \in receiptDisk[k]
    /\ written \subseteq Register!Written
    /\ told \subseteq {w.result: w \in written} /\ acked \subseteq told
    /\ powerLosses \in 0..MaxPowerLosses

(* A save that answered its PUT is the current revision or an ancestor of  *)
(* it, whatever was killed, retried or lost with the power since: the      *)
(* directories are fsynced before it returns, and no retry of an older     *)
(* save ever replaces a newer document.  As long as the power stays on,    *)
(* that is true of a save that only a retry was told of, too.              *)
AckedInLineage ==
    /\ \A e \in acked: Precedes(e, doc)
    /\ powerLosses = 0 => \A e \in told: Precedes(e, doc)

(* What the module's text says of every PUT: the directories "are fsynced  *)
(* together after the document is renamed, before PUT returns".  A retry   *)
(* that finds its save published (_reconcile, _replay) returns without.    *)
ToldInLineage == \A e \in told: Precedes(e, doc)

(* The retry of a save finds its own revision: as long as the power stays  *)
(* on, every save of the lineage has its receipt, or there are             *)
(* ReceiptsKeep others at least as new; and the revision the receipt names *)
(* is current or archived, or it is not the first and the archive holds    *)
(* ArchiveKeep newer ones.  So a client whose answer was lost is told of a *)
(* conflict only when so many saves followed its own that the janitor may  *)
(* have removed it (_replay, _reconcile, _prune_locked, _prune_archives).  *)
AsNew(w) == {k \in Committed(receipts) \ {w.key}: At(receipts[k].result) >= At(w.result)}
Newer(e) == {n \in Revisions(archive): n > Len(e)}
StillThere(e) == Published(e) \/ (Len(e) # 1 /\ Cardinality(Newer(e)) >= ArchiveKeep)
RetryFindsItsRevision ==
    powerLosses = 0 =>
        \A w \in written:
            Precedes(w.result, doc) /\ Cardinality(AsNew(w)) < ReceiptsKeep =>
                /\ receipts[w.key] # None
                /\ receipts[w.key].payload = w.payload
                /\ receipts[w.key].result = w.result
                /\ StillThere(w.result)

(* Under kills and power losses alike the store implements the register:   *)
(* saves apply one at a time and only on the revision they name, and what  *)
(* the save itself answered is never taken back.                           *)
ImplementsRegister == Register!Spec
=============================================================================
