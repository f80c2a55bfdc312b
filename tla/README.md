# A verification project for the AI video clipper

This directory models the concurrent core of the program in `src/` with TLA+,
checks it with TLC and proves theorems about it with TLAPS. The code is the
reference: each definition names, in `PROJECT.json` under `map`, the lines it
stands for.

Run `tlc -config MCX_y.cfg MCX` to repeat a check and `tlapm M.tla` to repeat a
proof.

## 1. The system

The program turns long videos into short clips. A web application (Next.js)
accepts uploads and YouTube links; a *primary worker* downloads, transcribes,
selects and renders; a *render worker* renders what people edit; everything is
kept in files under `JOBS_ROOT`, and only accounts, sessions and settings are in
a database. The processes share nothing but these files.

| component | state it keeps | operations | talks to |
|---|---|---|---|
| queue lock (`primary-job-queue.mjs`) | directory `.primary-queue.lock`, `owner.json`, `.reclaim` | acquire, renew, release, take over | every operation of the queue |
| primary queue (`primary-job-queue.mjs`) | `<id>/job.json`, `.primary-reservations/` | reserve, recheck, publish, recover, claim, fenced update, publish attempt, cancel | web app, worker, runner |
| deletion (`job-deletion.mjs`) | `.deletions/<id>.json` | request, purge | web app, worker slot 0 |
| upload (`api/jobs/route.js`) | bytes under `<id>/input` | reserve, stream, publish or abort | queue |
| primary worker (`primary-worker.mjs`) | slots, in memory | claim, start a runner, settle, purge, janitor | queue, runner |
| job runner (`run-job.mjs`) | one child process, timers | start, heartbeat, lease check, terminate, publish, fail | queue, engine |
| storage admission (`storage-admission.mjs`, `shared-storage-accounting.mjs`) | byte counts in reservations | evaluate, charge, release | queue, render queue |
| render queue and worker (`render_queue.py`, `render_worker.py`) | `render-requests/`, `.render-reservations/` | enqueue, claim, heartbeat, publish, cancel | web app, purge |
| edit documents (`edit_v2/store.py`) | revisions, receipts, archives | put, restore, migrate | editor, render worker |
| editor client (`lib/editor/*`) | draft, history, save state | edit, undo, autosave, rebase, upload | edit documents |
| apply to all (`edit_v2/apply_all.py`) | batch lock, `analysis/apply-all/<batchId>.json` | apply, undo | edit documents, editor |
| janitor (`edit_v2/janitor.py`) | cursor | sweep by age and size | worker slot 0 |
| LLM clients (`llm.py`) | cooldowns, learned parameters, in memory | one JSON completion with failover | the providers' servers |
| clip selection (`llm_selection.py`, `selection_v3.py`, `pipeline.py`) | one session in memory | propose, retry, top-up, rerank, rank, give up | LLM clients, heuristic |
| preview lane, rate limits, sessions, engine, captions, pages | | | |

What is hard here is that any process may die between two file operations, that
a worker may stall for longer than its lease and wake up, that a person may
cancel, delete or repeat a request at any moment, that the power may fail before
a directory reached the disk, that a server may never answer, and that time
limits are kept by instants in files. For each component the properties that make it correct:

* **queue lock** - no two callbacks at once; a release removes its own lock and
  no successor's; who lost the lock is told; a dead holder's lock is taken over.
* **primary queue** - admission never exceeds its bound; only the latest claim
  of a job can write it; attempts are bounded for the whole life of a job; a
  completed job shows the artifacts of the attempt that completed it; a settled
  job stays settled.
* **deletion** - bytes go only when no lease covers them and the revoked one
  has run out.
* **worker and runner** - one child per job; no purge under a live child; every
  job settles; nothing is done to the queue but by its rules.
* **storage admission** - the bytes promised never exceed the quota, and every
  promise is returned once.
* **render queue** - as the primary queue, and the purge respects its leases.
* **edit documents and editor** - what a save answered is never lost, a retried save is
  applied once, an undo after a rebase undoes the person's own edit.
* **apply to all** - a batch replaces nothing a person chose by hand, its report
  is true however often it was killed and repeated, its undo takes back only its
  own revisions.
* **LLM clients and clip selection** - every provider is asked before a
  completion fails; the budget of requests is kept and shared as planned; the
  clips never overlap and the heuristic only fills; a job never waits for a
  server without end.

`PROJECT.json` lists under `hazards` the lines where this can go wrong.

## 2. The modules

```
QueueLock            the lock, one file system call per action
  QueueLockProofs      its theorems
  MCQueueLock          model values for TLC
PrimaryQueue         the queue's files, one operation per action
  PrimaryQueueProofs   typing, admission, who may write, starts, settling, purges
  MCPrimaryQueue
PrimaryService       EXTENDS PrimaryQueue: worker slots, runners, children, timers
  PrimaryServiceProofs implements PrimaryQueue; one child per job, no purge under it
  MCPrimaryService
AttemptPublish       a publication rename by rename; implements PrimaryQueue
  AttemptPublishProofs one attempt served, no bytes lost, the refinement
  MCAttemptPublish
RenderQueue          the exports of one job: requests, reservations, workers
  RenderQueueProofs    one request per key, leases, charged writers
  MCRenderQueue
EditRegister         the promise of the document store: compare-and-set
DocStore             one clip's files rename by rename; implements EditRegister
  DocStoreProofs       what a save answered is kept, retries are found, the refinement
  MCDocStore
ApplyAll             batches and undos over the documents of a job's clips
  ApplyAllProofs       typing, hand edits, reports, undos
  MCApplyAll
LlmClient            one completion: providers, models, posts
ClipRanking          how candidates become clips (operators)
MomentSelection      EXTENDS both: the session, its deadline, the wait for it
  MomentSelectionProofs  typing, failover, posts, budget, and that slots are filled
  MCMomentSelection
```

The lock and the queue are separate modules on purpose. `PrimaryQueue` takes
each operation as one step because it runs under the lock; `QueueLock` shows
when that is justified (`MutualExclusion`) and when it is not (the two findings
about it). Where an operation writes several files, `PrimaryQueue` also has the
action that stops in between, so the atomicity it assumes is that of other
holders of the lock, not of the file system. `AttemptPublish` opens the one
operation where that matters most, and refines it.

A definition marked `seeded fault` is a plausible bug of the definition next to
it. `PROJECT.json` names under `mutants` the property that must fail when it
takes that definition's place.

### 2.1 QueueLock

`exists`, `owner`, `marker` are the lock directory, the token in `owner.json`
and `.reclaim`; `fresh` is the time left until `now - heartbeat > staleMs`, with
the directory's mtime as heartbeat while there is no `owner.json`. `pc` tells
which call of `acquireQueueLock`, its `renew` or its `release` a process makes
next. A waiter remembers of the heartbeat it read only whether it was stale,
which is all that line 180 uses. The reads of `owner.json` are steps apart from
the rename (105) and the unlink (142) that follow them, so another caller may come
in between; `overtaken` remembers who lost the lock in its callback, except in that
window of a renewal. `Crash` may strike at any point. `Tick` respects
`Prompt` unless `stall` is allowed: a holder renews every `staleMs / 3`, so
unless its event loop stalls, its lock is not seen stale. `durableWriteJson`
makes the directory again when it is gone, as its `mkdir` with `recursive` does,
or fails because its pending file was moved aside with the old one.

### 2.2 PrimaryQueue

`job[j]` is `job.json`; the three active statuses after `queued` are one value,
`running`, because no code of the queue distinguishes them. Instants are kept as
time left. `dir`, `publishedBy` are the job directory and the marker in the
published artifacts; `reserved`, `resvLeft`, `tombstone`, `safeLeft` the two
kinds of small files; `request` follows one `POST /api/jobs`; `issued` maps a
lease token to the job it was drawn for. `lastClaim` and `revokedLeft` are
history. The environment is the most general one that holds the tokens: a
request or the holder of a claim may call the queue at any time.

The constant `Env` selects faults, so that each run says which ones its
properties survive:

| fault | what happens |
|---|---|
| `unlink` | the reservation stays after `job.json` was written |
| `publish` | the runner dies after renaming its artifacts into place |
| `tombstone` | a deletion stops after its first write |
| `purge` | a purge stops when `job.json` is gone and bytes remain |
| `redelete` | `DELETE` is repeated on a job being deleted |

The runner writes its artifacts before it publishes them without the lock and
without a check of its lease (`AttemptWrites`): an overtaken attempt goes on
filling its own directories, which is why publication must tell them apart.

### 2.3 PrimaryService

Adds who takes the queue's steps and when: `phase[t]` is where the runner of
claim `t` stands, `beat`, `check` and `grace` are its heartbeat, lease check and
SIGKILL timers, and `ServiceTick` lets time pass only when no timer of a live
runner is due. `Mishap` selects deaths: `container` takes every process at
once (the image runs the worker as its only service), `runner` one runner alone,
whose detached child goes on, `update` a heartbeat that fails on the lock.
`ChildWrites` is the child at work; it writes for as long as it is alive,
whatever became of its lease, and only its death stops it. Every child comes after
a fenced update, except the second of two captions runs (`captions`): it follows the
first however that ended, unless a lost lease ended it, and starts a heartbeat
interval of its own, so two heartbeats and two kill graces may lie between two
renewals.

### 2.4 AttemptPublish

`staged[t]`, `published[j]` and `orphaned` are the directories of an attempt, the
ones the job serves with the attempt their markers name, and those moved aside;
`source[j]` is `sourcePath` of a download. `Stamp`, `RetirePublished`,
`RenameIntoPlace` and `Commit` are the file operations of
`publishAttemptAndComplete` in the order of its loops; `publishing` is the
attempt that holds the lock meanwhile, so operations of the queue wait.
`StopPublication` ends it between any two of them, by a death or an error; it
may be called again as long as its lease lasts. `Queue` is PrimaryQueue with
`publishedBy <- ServedBy`, the marker on the served output, and `PublishesAtOnce`
says that the steps together are its one step (or its torn one).

### 2.5 RenderQueue

A POST to `/renders` is followed call by call: `ReserveRenderStorage` under the
queue lock, `CheckKey` under the `flock` of the request directory, `Prepare`
without any, `CreateRequest` under the `flock` again, then `BindRenderStorage` or
`ReleaseUnused`. Requests (`queue[p]`) and reservations (`reservation[p]`) are
kept under different locks by different programs, so nothing makes two of these
steps one. A claim `<<p, n>>` has a worker of its own, with the phases of
`_run_v3` and the two timers of its monitor: `beat` for the lease, `recheck` for
the reservation. `late` records that a worker once missed one of them. A late
worker goes on; what it can still do is the point. `drawn` counts claims apart
from the record's own `attempts`. Ids are random in the code; that the first
POST has the smaller one or the larger one is covered because either may come
first.

Faults: `post` and `worker` are deaths, `stall` lets timers be missed, `reply`
is a create whose answer comes too late. The abstractions: one job; an export
stands for the clip, its document and its render key; whether the automatic clip
can be linked is a free choice; `RETENTION_DAYS` pass at once, and only while no
POST and no render is under way; a worker that stops its renderer is taken to
send no more heartbeats, while the code's monitor still does; the purge is one
step and needs no tombstone.

### 2.6 EditRegister and DocStore

`EditRegister` is what callers are promised: a register that is written only on
the revision a write names, and that forgets, after a power loss, only newest
writes whose answer was not `lasting`: those that nobody was told of, and those
that only a retry was told of. An etag is a hash of a document that names its
parent's etag, so the value of an etag is the whole lineage: the sequence of the
revisions with their bodies and stamps.

`DocStore` has the files: `doc`, `archive`, `receipts`, and `put`, the save that
holds the clip's `flock`. `BeginSave` and `ResumeSave` are the two ways
`put` gets past its checks (a new key, or `_reconcile` of a pending receipt whose
revision was never published); then `RenamePending`, `LinkArchive`, `RenameDoc`,
`CommitReceipt` and `Return` are the renames and the final fsyncs in the code's
order, and `Kill` may come between any two. `Reconcile` is the retry of a save
that had been published, `Replay` one with a committed receipt. `told` holds every
revision whose PUT was answered with success, `acked` those that the save itself
answered, after its fsyncs. A request that the store answers with an error writes
nothing and is no step. The pruning of receipts (`Kept`) is part of every commit;
`PruneArchives` is the janitor's of archives, which may remove a revision that a
kept receipt names: the retry is then told of a conflict.

Next to each file stands what a power loss may leave of it (`docDisk`,
`archiveDisk`, `archiveBack`, `receiptDisk`): a rename stays in doubt until its directory was
fsynced, each directory by itself. The rewrite of a receipt as committed is never
fsynced, as in the code, so it may come back pending or empty.

Left out: what makes a document valid, the words and assets beside it, the HTTP
layers. A client is taken to use a key for one payload only, as the editor does.

### 2.7 ApplyAll

`history[c]` is the lineage of clip `c` with the author of each revision;
`saved[kind][b][c]` the receipt of the key that `_key` derives from kind, batch
and clip; `record[b]` the batch's file; `op` the request that holds the batch
lock. A put of the document store is one step here, because `DocStore` shows that
it happens whole or not at all and that its retry finds it while its receipt and
its revision are kept. `Classify`,
`WriteRecord`, `WriteClip` and `FinishApply` follow `apply`, `RestoreClip` and
`FinishUndo` follow `undo`; `Edit` is a person at any instant, `Kill` the API's
deadline, `ResumeApply` and `BeginUndo` the repeated request. `_classify` and
`_write` see a clip at different instants and are different steps.

Left out: the keyframes of the layout group, clips without a seed or with other
words (skipped like edited ones), the pruning of old records, and the pruning of
receipts and archived revisions, which `DocStore` models: a batch is repeated and
undone before 200 later saves have pushed its receipts out or 50 later revisions
its archives.

### 2.8 LlmClient, ClipRanking, MomentSelection

`LlmClient`: `call` is the completion under way: which position of the failover
order is asked, how many retries it had, which parameters it adapted. Every answer
a server may give is an action (`Answer`, `RefuseParameter`, `Transient`, `BadJSON`,
`QuotaExhausted`, `Rejected`); `GiveUp` moves on along the chain, past the whole
provider when the key was refused.

`ClipRanking` holds the pure part: `Rank` is `_rank` group after group, `Groups`
the order of `_ordered`, `Extras` every sequence of windows `_focus_extras` may add.
`InTyped` is the set of candidates that share more than half a second with a typed
range (`_in_typed_range`), a set of its own because a range may share seconds with
a candidate and no unit, or a unit and hardly any time.
A loop of the code is a `Walk` over a list, a recursive function given what one
element does: `Look` and `Again` are the two loops of `_rank`, `Where` is a filter.

`MomentSelection` composes them: the stages of `session` are those of
`propose_with_llm`, each request a completion; `Select` is what follows it;
`elapsed` is the clock against `LLM_DEADLINE_SECONDS` (`Deadline`) and
`LLM_WAIT_SECONDS` (`Wait`); `Abandon` is the thread of the pipeline that stops
waiting.

Abstractions: an answer is a set of valid moments; scores are not computed, the
order of the moments, the set too weak to be moved up and the reranked order are
choices; the weakest chunk is the one with fewest moments, the chunks being
taken as equally long; retry, top-up and rerank are switched on; whether the LLM
is required is chosen only where it matters, in `Select`; what a client learned
about a model's parameters is any choice. Waits of the rate limiter and of the
backoff take time only; the response cache, prompts and their sizes, trends and
cold opens are left out.

## 3. The runs

| run | instance | shows |
|---|---|---|
| `queue_faults` | 2 jobs, 4 claims, 2 attempts, room for 1 active job, every fault | typing, fencing, attempts, artifacts, `CapacityBound` |
| `publish_steps` | 1 job, 3 attempts, stops between renames | one attempt served whole, no bytes lost, refinement |
| `lock_faults` | 3 callers, 1 crash, every fault, fair | typing; an overtaken caller is told; recovery of the lock |
| `service_safety` | 1 job, 4 claims, 2 slots, lease 9, heartbeat 2, kill grace 2, container deaths, torn publications and purges | one child; no purge under it; settled is final; the purge waits |
| `service_settle` | 1 job, 3 claims, every mishap, fair | jobs settle; refinement |
| `render_safety` | 2 POSTs that race with one key or follow each other with two, room for 2 requests, 2 attempts, 2 workers, every fault | one request per key, leases, reservations, the end of a request is final |
| `documents` | 3 keys, 3 revisions, kills, 1 power loss, 2 receipts and 1 archive kept | what a save answered stays; a retry finds its revision; refinement |
| `apply_all` | 3 clips, 2 batches, 3 settings, 2 hand edits, kills | hand edits survive; reports and undos are true |
| `selection` | 3 models of 2 providers, 5 moments, 6 windows, 1 typed range, 1 or 2 chunks, 3 requests | failover, budget, slots; the job goes on |

and the runs that are expected to find a violation:

| run | what the code does |
|---|---|
| `queue_reservation_left` | a leftover reservation that expires after completion turns the completed job into a failed one |
| `lock_race` | a waiter takes a new lock by the heartbeat of the old one |
| `documents_told` | a retry is told that its save succeeded, and a power loss takes the save back |

**What the properties leave out.** Some properties are checked without one
fault, because with it they fail. The comments of `job-deletion.mjs` (8-15: the
deletion "waits out the window in which those two are guaranteed to have noticed";
63-66: the runner "is long gone by then") hold within the limits of this paragraph
only. A deletion torn between its tombstone and `job.json` lets the purge
take a running job, and a repeated `DELETE` finds the revoked lease gone and puts
a shorter `safeAfter` in the place of the longer one, so `service_safety` has
neither `tombstone` nor `redelete`. A reservation left behind that expires after a
cancellation has the sweep replace `job.json` by a failed record, which no longer
says how long the cancelled lease may still run: a deletion after it is purged at
once. `service_safety` has no `unlink` either. A death inside the marker leaves a `.reclaim`
that nothing removes, and with it a lock that nobody can take: `LockIsRecovered`
excepts a marker that nobody will remove (`MarkerLeft`). A holder that stalls
between a renewal's check of `owner.json` (104) and its write (105) puts its token
back over that of whoever took the lock meanwhile, and its release then succeeds:
two callbacks ran and neither is told; `OvertakenIsReported` excepts the takeover
in that window. A releaser that stalls after its check (140) unlinks a successor's
`owner.json`, and one that stalls before its `rmdir` (145) removes a successor's
new, still empty directory, so no property says that a release removes only its own
lock. Each of these takes a stall of more than `staleMs` inside one renewal or
release. `PRIMARY_LEASE_MS` may
be configured from 5000 ms up, which is less than a heartbeat interval and the
5 s until SIGKILL together; with such a lease a second child may start beside
the first. Because two captions runs need one update only, the lease must exceed two
heartbeats and two kill graces; with the heartbeat a third of the lease, that is six
kill graces (the 60 s of the tests are enough, 30 s are not). With lease 8 in the
place of 9, `service_safety` finds a purge under a live child. The child of a runner that is killed alone lives on although the
worker settles its job at once. The last two are the assumption `LeaseOutlasts`
of the safety theorems and of `service_safety`. In `RenderQueue`, `RenderIsCharged`
excepts the render whose own POST released its reservation because the answer of
create was lost.

In `DocStore` an answer is not always durable: a retry after a kill that
`_reconcile` or `_replay` answers does no fsync, so a power loss right after it
may take the save back. `documents_told` shows it against the docstring of the
module, which has the directories fsynced "before PUT returns"; `AckedInLineage`
and the register therefore promise such an answer only while the power stays on.
After a power loss a retry may even be told of a revision that survives as an
archive although it is no ancestor of the current one. And an archive that a killed save had linked exists, so
neither a later save nor `archive_for_render` fsyncs its directory, while the
docstring of `_archive` (`store.py:493`) says "durably". `RetryFindsItsRevision`
does not promise a save that the janitor's 50 archives no longer hold while one of
the 200 receipts names it: its retry gets a conflict, as `store.py:45-46` says. A batch that was killed and never repeated stays
`running`: `_earlier_values` does not count it, and a later batch takes its clips
for edited by hand and skips them, which loses nothing. `next_model_client` makes
a client of its own, which neither knows of cooldowns nor leaves any, and starts
the rate limiter's spacing anew (`own` in `LlmClient`).

**Bounds.** Two jobs are enough for a claim to pass over one and take the other,
and for the order by `createdAt`; with room for one active job the second
exceeds the bound. Four tokens let one job be claimed twice and exhausted while
the other is running. A publication needs three attempts: one that stopped, one
that completes, and one whose directories neither may touch. Times are small
numbers in the same order as the real ones (check < heartbeat < lease,
2 (heartbeat + grace) < lease in `service_safety`, storage recheck < grace and < admission); a counter
never grows beyond its constant, because instants count down. The lock needs
three callers for its race, and for a takeover, a successor and the one overtaken
to meet; `MaxCrashes` bounds the crashes of its callers. The runs with `ServiceSpec` have one or two tokens more
than attempts allowed, so that a claim too many would be seen; `MaxClaims` of
`render_safety` does the same. `render_safety` has
room for two requests, so that only the second look for the key keeps a second
request of one key out; `RetentionKeep` 0 lets the first be pruned under the
second. The state constraint `Bound` of `MCRenderQueue` keeps the run small: two
POSTs with one key interleave without a limit, and two with different keys come
one after the other and their requests are claimed twice between them, which is
one claimed again beside the other, or both claimed, the second once the first has
ended: a stale or cancelled request lies before another in the walk of
`claim_next`, and the walk ends or stops half way. The limit `MaxRequests` is out of reach of two POSTs;
that, three claims on two requests, two requests worked on at once, POSTs of two
keys that overlap and
a conflict of one key with two exports are left to the theorems, which know no bound. `Workers` bounds how many renders go on at
once: two, the one that has the lease and one that lost it.
`documents` has one key more than receipts are kept, so that pruning meets a
receipt that somebody may still ask for, and `Ahead` 2 gives a save that was lost
and made again an older, the same or a newer stamp; the state constraint `Clock`
stops the clock at stamp 3, which leaves two stamps for the first revision, three
lineages of two revisions and one of three. `ArchiveKeep` 1 lets the janitor remove revision 2
under revision 3, which is the first it may remove, while the receipt of the save
is kept. One power loss takes back any
number of unsynced renames. `apply_all` needs a batch after an undone batch and
an edit on either side of it: two of each; one clip has a seed of its own, one
rejects a setting. `selection` has fewer requests than the longest session wants
(two chunks, retry, top-up, rerank), a provider with two models, and an episode in
which moments, windows and the typed range overlap in every way the ranking
distinguishes (a moment and a window around a mention begin in the range and share
no unit with it; a heuristic window shares a unit with it and hardly any time); `Deadline` 1 and `Wait` 2 separate "no new request" from "given
up".

**Fairness.** `QueueLock!Fairness`: calls of a live process return, callbacks
end, time passes; a release is strongly fair because a renewal may come between
its tries. `ServiceFairness`: the worker polls (`slot` loops), its processes
proceed, every child ends at last, time passes. The last but one is an
assumption about the engine, which has no time limit; it is listed as a hazard.
`MomentSelection!Fairness` asks only that time passes and the waiting thread runs:
no server and no thread that talks to one is assumed to proceed.
`RunnerPublishes` is strongly fair because the code starts only finitely many
children, while the model lets it start another each time.

`CHECK_DEADLOCK FALSE` appears where a bound (tokens, requests, crashes) really
lets the instance run out of steps.

## 4. The proofs

All are for every value of the constants. A hypothesis beyond `Spec` stands in the
theorem, and the instance of the run that checks the property satisfies it.

### 4.1 The queue (PrimaryQueueProofs)

* `TypeCorrect`, `CapacityKept`: for every `Env`. The admission bound is
  inductive once it is stated of the *set* of ids that are active or have a
  reservation: only `ReserveAdmission` adds one, and what it counts after its
  sweep is that set.
* `OnlyLatestClaimWrites`, `CompletedIsLatest`: for every `Env`. `ClaimInv` says
  of each job that a lease belongs to the latest claim, which was issued for that
  job, and that artifacts of a completed job carry its token; it is inductive with
  typing.
* `StartsAreBounded`: for every `Env`. `StartInv` says that the tokens issued for
  an active job are as many as its `attempts`, that a job with a token has an ended
  request, and that there are never more than `MaxAttempts`. The part about the
  request is what the bound needs: after the record was settled, swept or purged
  nothing counts the tokens any more, but only the request makes a record active,
  and it does so once.
* `SettledStaysSettled`: for `"unlink" \notin Env`; with a reservation left
  behind it is false (run `queue_reservation_left`). `FilesInv` relates the files
  of one job: a reservation exists only before its record, a tombstone only
  without a reservation, and a request that was not made yet has left no files. So
  the sweep finds nothing to turn into a failed record, and no request publishes
  over a settled one.
* `PurgeAwaitsLease`: without `unlink`, `tombstone` and `redelete`. `RevokeInv`
  says that the time for which a revoked lease could still run (`revokedLeft`, a
  history variable) never exceeds what the files have the purge wait for
  (`Awaited`): the cancellation's instant, and after a deletion the tombstone's
  `safeAfter`. `FilesInv` gives the rest: where deletions are not torn, a job with
  a tombstone has no lease. With any of the three in `Env` the property is
  false (section 3).
* `PurgeSparesHolders`: that a purge takes no record whose lease is held needs
  less, only that `tombstone` is not in `Env`. `DoomedInv` says that a job with a
  tombstone is not active and, once its record is gone, has no reservation, so
  neither a claim nor a publication can bring it back.

### 4.2 A publication, rename by rename (AttemptPublishProofs)

* `PublicationImplementsQueue`: stamps, renames and the commit, with a stop between
  any two, are the one step, or the torn publication, of `PrimaryQueue`.
  `Proved` is PrimaryQueueProofs with `publishedBy <- ServedBy`, so the lemmas of
  4.1 about each operation are cited here and proved once. They hold under the
  assumptions of `PrimaryQueue`, which `PublishAssumption` therefore repeats; it
  adds that `"publish"` is among the faults, as a torn publication is one.
* `PublishTypeCorrect`, `ServedAreOneAttempts`, `BytesAreKept`, `CanPublishAgain`:
  for any number of jobs and attempts. `PublishInv` is inductive: typing, `QueueInv`
  (typing, `ClaimInv` and `StartInv` of the queue), `ArtifactInv`
  and `ServedTogether` itself. `ArtifactInv` says of each directory
  of each attempt where it can be: staged only for a token that was issued
  (`StagedAt`), served only under the marker of an attempt of that job
  (`ServedAt`), both only while the job's directory is there; that the holder of
  a downloaded job made its output from its own download (`SourcedFor`); and that
  who is publishing holds the lease and has what it must publish (`Held`). A
  rename keeps bytes because of `ServedAt`: what it moves aside is known to be of
  this job and of another attempt.

### 4.3 The lock (QueueLockProofs)

* `LockTypeCorrect`, `LostLockIsReported`: for every `Env`; an overtaken process
  is not between a check that it passed and the write or unlink after it
  (`OvertakenInv`), so `owner.json` will never name it again, and whoever reaches the
  second half of a release has found its own token there.
* `CallbacksExclude`: under `FewTakeOver`, that is, any
  number of callers of which none dies, or two of which some die. That is as far as
  it goes: with a third caller run `lock_race` refutes it. `PromptInv`
  says that at most one process holds (`HolderOwns`: the directory is its own,
  fresh, and the marker there exactly while it put it there), and that a process
  that takes over is the only one alive (`Alone`). With a second waiter alive, it
  could make a new lock between the first one's check and its rename.

### 4.4 The service (PrimaryServiceProofs)

* `ServiceImplementsQueue`: every step of the service is a step of the queue or
  leaves it alone, so the queue's theorems carry over, `SettledStaysSettled` and
  `PurgeAwaitsLease` among them, which `service_safety` checks here.
* `ServiceTypeCorrect`: no timer beyond its period.
* `OneChild`, `PurgeIsSafe`: assume `LeaseOutlasts` (the lease exceeds two
  heartbeats and two kill graces together; no runner dies alone; no torn or repeated deletion,
  no reservation left behind). The inductive invariant is the *shield*: while a
  child lives, some clock of its job - the lease, or after a cancellation or
  deletion the `safeAfter` that inherited it - has more time left than the child,
  and the captions run that may follow it without an update, can still live (`Due`). It needs `FilesInv` to know that nothing else can settle
  the job meanwhile. Section 3 says what happens without each assumption.

### 4.5 Renders (RenderQueueProofs)

For any number of POSTs, keys, exports, claims and workers and every `Env`:

* `RenderTypeCorrect`, `OneRequestForEachKey`: `RequestInv`, the part of `QueueInv`
  about each POST, says that a request exists only once its POST created it, that it
  counts its claims truly, and that it grows old only when its POST is over.
  Uniqueness is then inductive, since only `CreateRequest` adds a request. The code
  looks for the key twice; the proof uses only the second look, under the `flock`.
* `EndedStaysEnded`: `RequestCourse` lists what one step may do to one request,
  and none of it takes an ended one anywhere but out of the queue.
* `LeaseIsKept`: `LeaseInv` says of a worker that is not late that its request is
  leased to its claim with more time left than its next heartbeat is away.
  `RenderAssumption` has `BeatTime < LeaseTime` for it, because the code beats
  every quarter of `lease_seconds` at most.
* `WritersStayCharged`: assumes `RecheckInTime`, that the storage recheck comes
  before the grace of the purge and before the life of an admission are over. Both
  are settings of their own in the code, so it is a hypothesis and not part of
  `RenderAssumption`. `StorageInv` is the shield once more: the reservation of a
  writer in time outlives its next recheck (`ChargeInv`), and a bound reservation
  has its request (`BoundInv`), so that neither sweep nor purge takes it.

### 4.6 Documents and batches (DocStoreProofs, ApplyAllProofs)

* `DocTypeCorrect`, `AnsweredIsKept`, `StoreImplementsRegister`: for every set of
  keys and bodies and any number of kills and power losses. `DocInv` adds to
  typing that whatever a power loss may leave of `doc.json` extends every save
  that answered after its fsyncs (`DiskInv`), that every file is a revision some
  save put in place, so that what a retry finds published was written
  (`MadeInv`), that the save under way started from the stored revision and
  knows which of its renames happened (`PutInv`), and that a receipt's result is
  the revision its payload leads to (`ReceiptInv`). Without `DiskInv` nothing
  would be known after a power loss. For the refinement `RenameDoc` is the write,
  `Return` the lasting answer, `Reconcile` and `Replay` answers that are not,
  `PowerLoss` the loss, and every other step a stutter. The answers of retries in
  `AnsweredIsKept` need the lineage of `RetryInv`, too.
* `RetriesFindTheirRevision`: `RetryInv` holds until the power fails. Every save
  is in the lineage, and its revision archived, current, or, unless it is the first,
  older than `ArchiveKeep` archived ones (`LineageInv`); its receipt names it,
  or at least `ReceiptsKeep` receipts as new are there that pushed it out
  (`ReplayInv`); a save under way has a key of its own (`TryInv`). The count is
  what is hard: pruning removes receipts, also such as pushed others out, and
  `PruneLeavesNewest` shows that of those as new as a stamp it leaves
  `ReceiptsKeep`, since it keeps the newest; `PruneArchivesRetries` is the same
  argument for the janitor and the revision numbers of archives.
* `ApplyTypeCorrect`, `HandEditsSurvive`, `ReportIsTrue`, `UndoIsExact`: for every
  number of clips, batches, settings and kills. `ApplyInv` says that receipts are
  exactly the revisions of batches (`KeyInv`), that what a batch applied or undid
  sits right on the revision its stored plan names (`AppliedInv`, `UndoneInv`),
  that a record reports what was saved (`RecordInv`), and that the request at work
  agrees with its record on all but the outcomes it adds (`OpInv`).

### 4.7 Selection (MomentSelectionProofs)

For any candidates with any spans and topics, any plan of chunks and any answers:

* `PostsAreBounded`, `FailoverIsComplete`, `BudgetHolds`: for every order of
  providers and models, every number of chunks and requests. `SelectInv` has a part
  for the completion (each post but the first has its reason: a retry, the nudge or
  a parameter adapted for the first time; every position before the one asked was
  passed) and one for the session (what was answered so far is all of it or
  `partial` is set; from a top-up on a request is left for the rerank until it is
  asked, or the deadline has passed). The parts meet in `Free`: a stage may end
  only when no completion is under way.
* `SelectTypeCorrect`, `SlotsFilled`: `OutcomeInv`, proved on top of `SelectInv`,
  says that the session's moments are moments and that what was selected is typed
  and `SlotsAreFilled`. The step that matters is `Select` (`SelectionFills`), which
  is a fact about `Rank`, proved in three stages:
  - *One group.* `Grown` relates the clips before and after a loop: clips are only
    appended, at most up to the limit, each apart from every other one. `Looked`
    adds what the first loop owes the second: every candidate is taken, overlaps,
    waits among the deferred ones, or no slot is left. Together they give
    `GroupTaken`: after a group a slot is free only if each of its candidates is
    taken or overlaps a clip.
  - *All groups.* `RankGrows` and `RankFills` carry this through the list of
    groups. `Parts` and `GroupsCover` show that the groups of `_ordered` together
    hold every candidate outside the typed ranges and no other, with and without a
    focus. What shares a unit with a range is kept out by `Rank`, which starts from
    the ranges' clips.
  - *The extra windows.* `_focus_extras` looks at a first selection and adds
    windows; the groups are then ranked again. Nothing in the code says that the
    clips about the focus chosen first are chosen again. `AgainWithMore` shows it:
    the second walk takes all the first one took up to there, because the extra
    windows come after these clips, overlap none of them (`ExtrasFit`), and fit
    the room left. `NewOnesCounted` counts that room by an injection.

  *Induction over data.* The library's induction theorems take an operator, which
  no prover here instantiates. `Least` and `Induction` therefore state induction
  over a *set* of numbers, from `WFMin`: a set that holds 0 and with each number the
  next is all of them. `StepsExist` shows in this way that the recursive function in
  `Walk` exists, `WalkSteps` what it is at each position; `WalkConcat` cuts a walk
  in two. Each loop invariant is then the set of positions where it holds.

  *Met while proving.* Two ranges that a person typed may share a unit:
  `check_ranges` forbids an overlap in seconds only, and two ranges within one long
  sentence both get its unit (`_range_units`, `selection_v3.py:1111`). The invariant
  as it was first stated claimed that no two clips overlap, which no run refuted,
  having one typed range; it now exempts pairs of typed ranges, as `_rank` does.

### 4.8 Assumptions, and what only TLC checks

The assumptions on constants, those named above aside, only say that bounds are
numbers, that sets of ids are finite, that `None` is no value, that every clip has
a seed, and that each provider's models follow one another (`ChainAssumption`),
as the failover client builds its chains. `RankingAssumption` says that the
candidates are finitely many, that moments, windows, extra windows and typed
ranges are different candidates (each is a `_Candidate` of its own with the
`source` of its proposal), that only proposals lie in a typed range, and only
where one was typed, and that no span ends before it starts, as `_snap` and `_range_units`
make them.

Only checked by TLC: the liveness properties `LockIsRecovered`, `JobsSettle` and
`LlmPhaseEnds`, which are out of the prover's reach. Every other property of a
passing run, each invariant among them, is stated by a theorem. The hypotheses
of `SettledStaysSettled`, `PurgeAwaitsLease` and `CallbacksExclude` are needed:
without them the property is false, by a run or a scenario of section 3.

## 5. Not modelled, and the plan

`PROJECT.json` names each component's status. In order:

1. `EditorAutosave`: drafts, conflicts, rebase and retries of the editor, as a
   client of `EditRegister`.
2. `WorkerActivity`: the gate between claims and the janitor, and what the
   janitor removes apart from archives.
3. `StorageAdmission`: bytes promised by reservations against the quota, with
   the snapshot that is read before the lock.
4. `RenderQueue`: `RendersEnd` (every queued export ends) under fairness; `RenderService`, the worker's walk over the
   jobs composed with the purge of `PrimaryQueue`.
5. `PreviewLane`; the editor's timeline algebra as operators against a reference
   definition.
6. An abstract life cycle of a job (queued, running, settled, gone) that
   `PrimaryQueue` implements under the faults it survives.

Theorems still worth proving: that two requests of one key in `RenderQueue`
answer with the same export; the refinement of the life cycle in 6.; and of
the ranking, that a near-duplicate is a clip only when every distinct candidate of
its group is a clip or overlaps one (`Looked` has the core of it).

Left out for good: legacy jobs and version-1 reservations (migrations), what the
engine computes (transcripts, scores, framing, captions), formatting, pages, and
the database. Most of the repository's lines are of this kind: pure computation
on media and text, where a state machine has nothing to add to a test.
