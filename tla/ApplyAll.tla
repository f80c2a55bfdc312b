------------------------------ MODULE ApplyAll ------------------------------
(***************************************************************************)
(* "Pakai di semua klip" (edit_v2/apply_all.py): one group of settings of  *)
(* a clip copied to the other clips of its job, and the undo of it.  A     *)
(* batch holds the job's batch lock and saves clip by clip; people go on   *)
(* editing the clips meanwhile; the process may be killed between any two  *)
(* steps and the request repeated.                                         *)
(*                                                                         *)
(* Each save is a put of the document store under the revision it expects, *)
(* with a key derived from the batch, the clip and what is done: DocStore  *)
(* shows that such a put happens whole or not at all and that its retry    *)
(* finds it, so here it is one step and a revision is named by its number. *)
(* A document is its part, the settings of the one group the batches are   *)
(* about.  Left out: the layout's keyframes, the pruning of records        *)
(* (RECORDS_KEEP), clips without a seed or with other words, which are     *)
(* skipped like edited ones.                                               *)
(***************************************************************************)
EXTENDS Integers, Sequences, FiniteSets

CONSTANTS Clip, Batch, Part,
          SeedPart,    \* the part of each clip's seed
          Invalid,     \* <<clip, part>>: the part does not validate in that clip
          None,        \* no batch
          MaxEdits     \* bound on the revisions that people save

ASSUME SeedAssumption == Part # {} /\ SeedPart \in [Clip -> Part]
ASSUME NoneAssumption == None \notin Batch

VARIABLES history,  \* the revisions of each clip, with what wrote them
          saved,    \* the receipts of the batches' saves: the revision made, 0 for none
          record,   \* analysis/apply-all/<batchId>.json
          op        \* the request that holds the batch lock

vars == <<history, saved, record, op>>

Kinds == {"apply", "undo"}
Author == [does: Kinds, batch: Batch] \union {[does |-> "edit", batch |-> None]}
Revision == [part: Part, by: Author]
Verdicts == {"none", "plan", "unchanged", "edited"}
Outcomes == {"none", "applied", "conflict", "invalid"}
UndoOutcomes == {"none", "restored", "changed", "invalid"}
Record == [state: {"none", "running", "done", "undone"},
           value: Part,
           verdict: [Clip -> Verdicts],
           from: [Clip -> Nat],          \* planned clips: the revision it starts from
           outcome: [Clip -> Outcomes],
           after: [Clip -> Nat],         \* applied clips: the revision it made
           undo: [Clip -> UndoOutcomes]]
Op == [stage: {"idle", "plan", "write", "restore"},
       batch: Batch \union {None}, todo: SUBSET Clip, draft: Record]

Latest(c) == Len(history[c])
PartAt(c, n) == IF n = 0 THEN SeedPart[c] ELSE history[c][n].part
By(kind, b) == [does |-> kind, batch |-> b]

Fresh(p) == [state |-> "none", value |-> p,
             verdict |-> [c \in Clip |-> "none"], from |-> [c \in Clip |-> 0],
             outcome |-> [c \in Clip |-> "none"], after |-> [c \in Clip |-> 0],
             undo |-> [c \in Clip |-> "none"]]
AnyPart == CHOOSE p \in Part: TRUE
Idle == [stage |-> "idle", batch |-> None, todo |-> {}, draft |-> Fresh(AnyPart)]

Init ==
    /\ history = [c \in Clip |-> << >>]
    /\ saved = [k \in Kinds |-> [b \in Batch |-> [c \in Clip |-> 0]]]
    /\ record = [b \in Batch |-> Fresh(AnyPart)]
    /\ op = Idle

(***************************************************************************)
(* store.put as the batches use it.  A receipt answers first, then the     *)
(* expected revision is compared, then the document is validated.          *)
(***************************************************************************)
\* seeded fault: every attempt draws a key of its own
ReplaysNever(kind, b, c) == FALSE
Replays(kind, b, c) == saved[kind][b][c] # 0
Conflicts(kind, b, c, expected) == ~Replays(kind, b, c) /\ Latest(c) # expected
Rejected(kind, b, c, expected, p) ==
    ~Replays(kind, b, c) /\ Latest(c) = expected /\ <<c, p>> \in Invalid
Made(kind, b, c, expected) == IF Replays(kind, b, c) THEN saved[kind][b][c] ELSE expected + 1

Put(kind, b, c, expected, p) ==
    IF Replays(kind, b, c) THEN UNCHANGED <<history, saved>>
    ELSE /\ history' = [history EXCEPT ![c] = Append(@, [part |-> p, by |-> By(kind, b)])]
         /\ saved' = [saved EXCEPT ![kind][b][c] = expected + 1]
NoPut == UNCHANGED <<history, saved>>

\* A person saves a clip in the editor.
Edits == UNION {{c} \X {i \in 1..Latest(c): history[c][i].by.does = "edit"}: c \in Clip}
Edit(c, p) ==
    /\ Cardinality(Edits) < MaxEdits
    /\ history' = [history EXCEPT ![c] =
                     Append(@, [part |-> p, by |-> [does |-> "edit", batch |-> None]])]
    /\ UNCHANGED <<saved, record, op>>
-----------------------------------------------------------------------------
(* apply: plan every clip, write the record, save clip by clip, finish.    *)

\* The value of the source at the etag the request names; otherwise a conflict.
BeginApply(b, source) ==
    /\ op = Idle
    /\ record[b].state = "none"
    /\ op' = [stage |-> "plan", batch |-> b, todo |-> Clip \ {source},
              draft |-> Fresh(PartAt(source, Latest(source)))]
    /\ UNCHANGED <<history, saved, record>>

\* _earlier_values: what finished batches wrote to this clip and no undo took back.
Earlier(c) ==
    {record[b].value: b \in {d \in Batch: /\ record[d].state \in {"done", "undone"}
                                          /\ record[d].outcome[c] = "applied"
                                          /\ record[d].undo[c] # "restored"}}

\* seeded fault: a clip counts as unchanged by hand whenever any batch wrote it
VerdictOnceApplied(c, value) ==
    LET before == PartAt(c, Latest(c)) IN
    IF value = before THEN "unchanged"
    ELSE IF before # SeedPart[c] /\ Earlier(c) = {} THEN "edited" ELSE "plan"
Verdict(c, value) ==
    LET before == PartAt(c, Latest(c)) IN
    IF value = before THEN "unchanged"
    ELSE IF before # SeedPart[c] /\ before \notin Earlier(c) THEN "edited" ELSE "plan"

Classify(c) ==
    /\ op.stage = "plan" /\ c \in op.todo
    /\ op' = [op EXCEPT !.todo = @ \ {c},
                        !.draft.verdict[c] = Verdict(c, op.draft.value),
                        !.draft.from[c] = Latest(c)]
    /\ UNCHANGED <<history, saved, record>>

Planned(r) == {c \in Clip: r.verdict[c] = "plan"}

WriteRecord ==
    /\ op.stage = "plan" /\ op.todo = {}
    /\ LET r == [op.draft EXCEPT !.state = "running"] IN
       /\ record' = [record EXCEPT ![op.batch] = r]
       /\ op' = [op EXCEPT !.stage = "write", !.todo = Planned(r), !.draft = r]
    /\ UNCHANGED <<history, saved>>

\* The request is repeated after its process died.
\* seeded fault: the retry writes every clip, not only those that were planned
ResumeAll(b) ==
    /\ op = Idle
    /\ record[b].state = "running"
    /\ op' = [stage |-> "write", batch |-> b, todo |-> Clip, draft |-> record[b]]
    /\ UNCHANGED <<history, saved, record>>
ResumeApply(b) ==
    /\ op = Idle
    /\ record[b].state = "running"
    /\ op' = [stage |-> "write", batch |-> b, todo |-> Planned(record[b]), draft |-> record[b]]
    /\ UNCHANGED <<history, saved, record>>

Base(c) == op.draft.from[c]

WriteClip(c) ==
    LET b == op.batch  value == op.draft.value  expected == Base(c)
        Outcome(o, n) == op' = [op EXCEPT !.todo = @ \ {c}, !.draft.outcome[c] = o,
                                          !.draft.after[c] = n]
    IN
    /\ op.stage = "write" /\ c \in op.todo
    /\ \/ Conflicts("apply", b, c, expected) /\ Outcome("conflict", 0) /\ NoPut
       \/ Rejected("apply", b, c, expected, value) /\ Outcome("invalid", 0) /\ NoPut
       \/ /\ ~Conflicts("apply", b, c, expected) /\ ~Rejected("apply", b, c, expected, value)
          /\ Put("apply", b, c, expected, value)
          /\ Outcome("applied", Made("apply", b, c, expected))
    /\ UNCHANGED record

FinishApply ==
    /\ op.stage = "write" /\ op.todo = {}
    /\ record' = [record EXCEPT ![op.batch] = [op.draft EXCEPT !.state = "done"]]
    /\ op' = Idle
    /\ UNCHANGED <<history, saved>>
-----------------------------------------------------------------------------
(* undo: each applied clip that is still at the batch's revision.          *)

Applied(r) == {c \in Clip: r.outcome[c] = "applied"}

BeginUndo(b) ==
    /\ op = Idle
    /\ record[b].state = "done"
    /\ op' = [stage |-> "restore", batch |-> b, todo |-> Applied(record[b]),
              draft |-> record[b]]
    /\ UNCHANGED <<history, saved, record>>

\* seeded fault: the undo restores whatever revision the clip has by now
UndoBaseCurrent(c) == Latest(c)
UndoBase(c) == op.draft.after[c]

RestoreClip(c) ==
    LET b == op.batch  before == PartAt(c, op.draft.from[c])  expected == UndoBase(c)
        Outcome(o) == op' = [op EXCEPT !.todo = @ \ {c}, !.draft.undo[c] = o]
    IN
    /\ op.stage = "restore" /\ c \in op.todo
    /\ \/ Conflicts("undo", b, c, expected) /\ Outcome("changed") /\ NoPut
       \/ Rejected("undo", b, c, expected, before) /\ Outcome("invalid") /\ NoPut
       \/ /\ ~Conflicts("undo", b, c, expected) /\ ~Rejected("undo", b, c, expected, before)
          /\ Put("undo", b, c, expected, before)
          /\ Outcome("restored")
    /\ UNCHANGED record

FinishUndo ==
    /\ op.stage = "restore" /\ op.todo = {}
    /\ record' = [record EXCEPT ![op.batch] = [op.draft EXCEPT !.state = "undone"]]
    /\ op' = Idle
    /\ UNCHANGED <<history, saved>>

\* The API kills the process at its deadline, or it dies; the lock is freed.
Kill ==
    /\ op # Idle
    /\ op' = Idle
    /\ UNCHANGED <<history, saved, record>>

Next ==
    \/ \E c \in Clip, p \in Part: Edit(c, p)
    \/ \E b \in Batch, source \in Clip: BeginApply(b, source)
    \/ \E c \in Clip: Classify(c) \/ WriteClip(c) \/ RestoreClip(c)
    \/ \E b \in Batch: ResumeApply(b) \/ BeginUndo(b)
    \/ WriteRecord \/ FinishApply \/ FinishUndo
    \/ Kill

Spec == Init /\ [][Next]_vars
-----------------------------------------------------------------------------
(* The types of the stored records and of the request at work; what it     *)
(* still has to save was planned, what it has to restore was applied.      *)
ApplyTypeOK ==
    /\ history \in [Clip -> Seq(Revision)]
    /\ saved \in [Kinds -> [Batch -> [Clip -> Nat]]]
    /\ record \in [Batch -> Record]
    /\ op \in Op
    /\ op.stage = "write" => op.todo \subseteq Planned(op.draft)
    /\ op.stage = "restore" => op.todo \subseteq Applied(op.draft)

(* A batch writes a clip only over its seed's settings or over settings    *)
(* that an earlier batch wrote there: what a person chose by hand, before  *)
(* the batch or while it was running, is never replaced (_classify, the    *)
(* expected revision of _write).                                           *)
HandEditSurvives ==
    \A c \in Clip: \A i \in 1..Len(history[c]):
        history[c][i].by.does = "apply" =>
          \/ PartAt(c, i-1) = SeedPart[c]
          \/ \E j \in 1..i-1: /\ history[c][j].by.does = "apply"
                              /\ history[c][j].part = PartAt(c, i-1)

(* What a finished batch reports is what happened, however often it was    *)
(* killed and repeated and whatever was edited in between: a clip reported *)
(* as applied has exactly one revision of the batch, with its value, right *)
(* on the revision that was planned; any other clip has none (apply, _key).*)
ByBatch(kind, b, c) == {i \in 1..Len(history[c]): history[c][i].by = By(kind, b)}
ReportedIsApplied ==
    \A b \in Batch, c \in Clip:
        record[b].state \in {"done", "undone"} =>
          IF record[b].outcome[c] = "applied"
          THEN /\ ByBatch("apply", b, c) = {record[b].after[c]}
               /\ record[b].after[c] = record[b].from[c] + 1
               /\ PartAt(c, record[b].after[c]) = record[b].value
          ELSE ByBatch("apply", b, c) = {}

(* An undo replaces nothing but its own batch's revision, by what was      *)
(* there before it, and says so of exactly the clips it restored: a clip   *)
(* that was saved since keeps what it has (undo, _restore).                *)
UndoRestores ==
    \A b \in Batch, c \in Clip:
      /\ \A i \in ByBatch("undo", b, c):
            /\ i > 1 /\ history[c][i-1].by = By("apply", b)
            /\ PartAt(c, i) = PartAt(c, i-2)
      /\ record[b].state = "undone" =>
            (record[b].undo[c] = "restored" <=> ByBatch("undo", b, c) # {})
=============================================================================
