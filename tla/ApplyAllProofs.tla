--------------------------- MODULE ApplyAllProofs ---------------------------
(* Proofs about ApplyAll: types, that no batch replaces what a person chose *)
(* by hand, and that reports and undos are true, for every number of clips, *)
(* batches and settings and for every kill.  The argument is ApplyInv: the  *)
(* receipts are exactly the revisions the batches made; each of them is     *)
(* right on the revision its stored plan names; and the request at work     *)
(* agrees with the record it started from on everything but its outcomes.   *)
EXTENDS ApplyAll, TLAPS, SequenceTheorems

(* A receipt is the one revision written under its key.                    *)
KeyInv ==
    \A kind \in Kinds, b \in Batch, c \in Clip:
        /\ saved[kind][b][c] \in 0..Latest(c)
        /\ \A i \in 1..Latest(c): history[c][i].by = By(kind, b) <=> saved[kind][b][c] = i

(* What a batch applied is in its plan, right on the planned revision.     *)
AppliedInv ==
    \A b \in Batch, c \in Clip: saved["apply"][b][c] # 0 =>
        /\ record[b].state # "none"
        /\ record[b].verdict[c] = "plan"
        /\ saved["apply"][b][c] = record[b].from[c] + 1
        /\ PartAt(c, saved["apply"][b][c]) = record[b].value

(* What it undid is right on what it applied, and as it was before.        *)
UndoneInv ==
    \A b \in Batch, c \in Clip: saved["undo"][b][c] # 0 =>
        /\ record[b].state \in {"done", "undone"}
        /\ saved["apply"][b][c] # 0
        /\ saved["undo"][b][c] = saved["apply"][b][c] + 1
        /\ PartAt(c, saved["undo"][b][c]) = PartAt(c, saved["apply"][b][c] - 1)

(* The settings of revision n of c are the seed's or were applied.         *)
GoodBase(c, n) ==
    /\ n <= Latest(c)
    /\ \/ PartAt(c, n) = SeedPart[c]
       \/ \E j \in 1..n: history[c][j].by.does = "apply" /\ history[c][j].part = PartAt(c, n)

(* Record r of batch b reports what was saved, and plans on good bases.    *)
TrueRecord(b, r) ==
    \A c \in Clip:
        /\ r.outcome[c] = "applied" =>
              saved["apply"][b][c] # 0 /\ r.after[c] = saved["apply"][b][c]
        /\ r.verdict[c] = "plan" => GoodBase(c, r.from[c])

NotUndone(r) == \A c \in Clip: r.undo[c] = "none"
Reported(b, r, c) == r.outcome[c] # "applied" => saved["apply"][b][c] = 0
Restored(b, r, c) == r.undo[c] = "restored" <=> saved["undo"][b][c] # 0

RecordInv ==
    \A b \in Batch:
        /\ TrueRecord(b, record[b])
        /\ record[b].state \in {"done", "undone"} => \A c \in Clip: Reported(b, record[b], c)
        /\ record[b].state # "undone" => NotUndone(record[b])
        /\ record[b].state = "undone" => \A c \in Clip: Restored(b, record[b], c)

(* The request holds a copy of the record, but for the outcomes it adds.   *)
SamePlan(r, s) == r.value = s.value /\ r.verdict = s.verdict /\ r.from = s.from
OpInv ==
    op.stage # "idle" =>
        /\ op.batch \in Batch
        /\ TrueRecord(op.batch, op.draft)
        /\ op.stage = "plan" => /\ record[op.batch].state = "none"
                                /\ NotUndone(op.draft)
        /\ op.stage = "write" => /\ record[op.batch].state = "running"
                                 /\ SamePlan(record[op.batch], op.draft)
                                 /\ NotUndone(op.draft)
                                 /\ \A c \in Clip \ op.todo: Reported(op.batch, op.draft, c)
        /\ op.stage = "restore" => /\ record[op.batch].state = "done"
                                   /\ SamePlan(record[op.batch], op.draft)
                                   /\ record[op.batch].outcome = op.draft.outcome
                                   /\ record[op.batch].after = op.draft.after
                                   /\ \A c \in Clip \ op.todo: Restored(op.batch, op.draft, c)

FactsInv == KeyInv /\ AppliedInv /\ UndoneInv /\ RecordInv
ApplyInv == ApplyTypeOK /\ FactsInv /\ OpInv /\ HandEditSurvives
-----------------------------------------------------------------------------
(* Revisions are only added, so everything said of the old ones stays.     *)
LEMMA HistoryGrows ==
    ASSUME history \in [Clip -> Seq(Revision)], NEW c \in Clip, NEW x \in Revision,
           history' = [history EXCEPT ![c] = Append(@, x)]
    PROVE  /\ history' \in [Clip -> Seq(Revision)]
           /\ Latest(c)' = Latest(c) + 1 /\ history'[c][Latest(c) + 1] = x
           /\ \A d \in Clip: Latest(d) \in Nat /\ Latest(d)' \in Nat /\ Latest(d) <= Latest(d)'
           /\ \A d \in Clip \ {c}: Latest(d)' = Latest(d)
           /\ \A d \in Clip: \A i \in 1..Latest(d): history'[d][i] = history[d][i]
<1>1. /\ history[c] \in Seq(Revision) /\ history'[c] = Append(history[c], x)
      /\ \A d \in Clip \ {c}: history'[d] = history[d]
  OBVIOUS
<1>2. /\ history'[c] \in Seq(Revision) /\ Len(history'[c]) = Len(history[c]) + 1
      /\ \A i \in 1..Len(history[c]): history'[c][i] = history[c][i]
      /\ history'[c][Len(history[c]) + 1] = x
  BY <1>1, AppendProperties
<1>3. \A d \in Clip: Len(history[d]) \in Nat OBVIOUS
<1>4. history' \in [Clip -> Seq(Revision)] BY <1>2
<1>5. \A d \in Clip: \A i \in 1..Len(history[d]): history'[d][i] = history[d][i]
  BY <1>1, <1>2
<1>6. \A d \in Clip: Len(history'[d]) \in Nat /\ Len(history[d]) <= Len(history'[d])
  BY <1>1, <1>2, <1>3
<1>. QED BY <1>1, <1>2, <1>3, <1>4, <1>5, <1>6 DEF Latest

LEMMA PartsStay ==
    ASSUME history \in [Clip -> Seq(Revision)],
           NEW d \in Clip, Latest(d) \in Nat, Latest(d)' \in Nat, Latest(d) <= Latest(d)',
           \A i \in 1..Latest(d): history'[d][i] = history[d][i]
    PROVE  /\ \A n \in 0..Latest(d): PartAt(d, n)' = PartAt(d, n)
           /\ \A n \in Nat: GoodBase(d, n) => GoodBase(d, n)'
<1>1. \A n \in 0..Latest(d): PartAt(d, n)' = PartAt(d, n) BY DEF PartAt
<1>2. ASSUME NEW n \in Nat, GoodBase(d, n) PROVE GoodBase(d, n)'
  <2>1. n \in 0..Latest(d) /\ n <= Latest(d)' BY <1>2 DEF GoodBase
  <2>2. PartAt(d, n)' = PartAt(d, n) BY <1>1, <2>1
  <2>3. \A j \in 1..n: history'[d][j] = history[d][j] BY <2>1
  <2>. QED BY <1>2, <2>1, <2>2, <2>3 DEF GoodBase
<1>. QED BY <1>1, <1>2

LEMMA FreshIsRecord == ASSUME NEW p \in Part PROVE Fresh(p) \in Record
BY DEF Fresh, Record, Verdicts, Outcomes, UndoOutcomes

LEMMA IdleIsOp == Idle \in Op /\ Idle.stage = "idle"
<1>1. AnyPart \in Part BY SeedAssumption DEF AnyPart
<1>. QED BY <1>1, FreshIsRecord DEF Idle, Op

LEMMA InitHolds == ASSUME Init PROVE ApplyInv
<1>1. AnyPart \in Part BY SeedAssumption DEF AnyPart
<1>2. Fresh(AnyPart) \in Record BY <1>1, FreshIsRecord
<1>3. << >> \in Seq(Revision) /\ \A c \in Clip: Latest(c) = 0 BY EmptySeq DEF Init, Latest
<1>4. \A kind \in Kinds, b \in Batch, c \in Clip: saved[kind][b][c] = 0 BY DEF Init
<1>5. saved \in [Kinds -> [Batch -> [Clip -> Nat]]] BY DEF Init
<1>6. ApplyTypeOK BY <1>2, <1>3, <1>5 DEF Init, ApplyTypeOK, Idle, Op
<1>7. KeyInv /\ AppliedInv /\ UndoneInv BY <1>3, <1>4 DEF KeyInv, AppliedInv, UndoneInv, Kinds
<1>8. RecordInv
  BY DEF Init, RecordInv, TrueRecord, NotUndone, Fresh
<1>9. OpInv BY DEF Init, OpInv, Idle
<1>10. HandEditSurvives BY <1>3 DEF HandEditSurvives, Latest
<1>. QED BY <1>6, <1>7, <1>8, <1>9, <1>10 DEF ApplyInv, FactsInv
-----------------------------------------------------------------------------
(* The steps that save nothing and write no record.                        *)
LEMMA QuietKeepsFacts ==
    ASSUME FactsInv, HandEditSurvives, UNCHANGED <<history, saved, record>>
    PROVE  FactsInv' /\ HandEditSurvives'
<1>1. KeyInv' BY DEF FactsInv, KeyInv, Latest
<1>2. AppliedInv' BY DEF FactsInv, AppliedInv, PartAt
<1>3. UndoneInv' BY DEF FactsInv, UndoneInv, PartAt
<1>4. RecordInv'
  BY DEF FactsInv, RecordInv, TrueRecord, GoodBase, PartAt, Latest, NotUndone, Reported, Restored
<1>5. HandEditSurvives' BY DEF HandEditSurvives, PartAt
<1>. QED BY <1>1, <1>2, <1>3, <1>4, <1>5 DEF FactsInv

LEMMA BeginApplyHolds ==
    ASSUME ApplyInv, NEW b \in Batch, NEW source \in Clip, BeginApply(b, source)
    PROVE  ApplyInv'
<1>. DEFINE p == PartAt(source, Latest(source))
<1>1. p \in Part
  <2>1. history[source] \in Seq(Revision) /\ Latest(source) \in Nat
    BY DEF ApplyInv, ApplyTypeOK, Latest
  <2>2. CASE Latest(source) = 0 BY <2>2, SeedAssumption DEF PartAt
  <2>3. CASE Latest(source) # 0
    <3>1. Latest(source) \in 1..Len(history[source]) BY <2>1, <2>3 DEF Latest
    <3>2. history[source][Latest(source)] \in Revision BY <2>1, <3>1, ElementOfSeq
    <3>. QED BY <2>3, <3>2 DEF PartAt, Revision
  <2>. QED BY <2>2, <2>3
<1>. HIDE DEF p
<1>2. /\ op' = [stage |-> "plan", batch |-> b, todo |-> Clip \ {source}, draft |-> Fresh(p)]
      /\ record[b].state = "none" /\ UNCHANGED <<history, saved, record>>
  BY DEF BeginApply, p
<1>3. Fresh(p) \in Record BY <1>1, FreshIsRecord
<1>4. ApplyTypeOK' BY <1>2, <1>3 DEF ApplyInv, ApplyTypeOK, Op
<1>5. OpInv'
  <2>1. \A c \in Clip: Fresh(p).outcome[c] = "none" /\ Fresh(p).verdict[c] = "none"
                          /\ Fresh(p).undo[c] = "none"
    BY DEF Fresh
  <2>. QED BY <1>2, <2>1 DEF OpInv, TrueRecord, NotUndone
<1>. QED BY <1>2, <1>4, <1>5, QuietKeepsFacts DEF ApplyInv

(* The request of an unfinished batch starts again from its record.        *)
LEMMA ResumeApplyHolds == ASSUME ApplyInv, NEW b \in Batch, ResumeApply(b) PROVE ApplyInv'
<1>. DEFINE r == record[b]
<1>1. /\ op' = [stage |-> "write", batch |-> b, todo |-> Planned(r), draft |-> r]
      /\ r.state = "running" /\ UNCHANGED <<history, saved, record>> /\ r \in Record
  BY DEF ResumeApply, ApplyInv, ApplyTypeOK
<1>2. TrueRecord(b, r) /\ NotUndone(r) BY <1>1 DEF ApplyInv, FactsInv, RecordInv
<1>3. \A c \in Clip \ Planned(r): saved["apply"][b][c] = 0
  BY DEF ApplyInv, FactsInv, AppliedInv, Planned
<1>4. ApplyTypeOK' BY <1>1 DEF ApplyInv, ApplyTypeOK, Op, Planned
<1>5. TrueRecord(b, r)' BY <1>1, <1>2 DEF TrueRecord, GoodBase, PartAt, Latest
<1>6. OpInv'
  BY <1>1, <1>2, <1>3, <1>5 DEF OpInv, TrueRecord, GoodBase, PartAt, Latest, NotUndone, SamePlan, Reported
<1>. QED BY <1>1, <1>4, <1>6, QuietKeepsFacts DEF ApplyInv

LEMMA BeginUndoHolds == ASSUME ApplyInv, NEW b \in Batch, BeginUndo(b) PROVE ApplyInv'
<1>. DEFINE r == record[b]
<1>1. /\ op' = [stage |-> "restore", batch |-> b, todo |-> Applied(r), draft |-> r]
      /\ r.state = "done" /\ UNCHANGED <<history, saved, record>> /\ r \in Record
  BY DEF BeginUndo, ApplyInv, ApplyTypeOK
<1>2. TrueRecord(b, r) /\ NotUndone(r) /\ \A c \in Clip: Reported(b, r, c)
  BY <1>1 DEF ApplyInv, FactsInv, RecordInv
<1>3. \A c \in Clip \ Applied(r): saved["undo"][b][c] = 0
  BY <1>2 DEF ApplyInv, FactsInv, UndoneInv, Applied, Reported
<1>4. ApplyTypeOK' BY <1>1 DEF ApplyInv, ApplyTypeOK, Op, Applied
<1>5. TrueRecord(b, r)' BY <1>1, <1>2 DEF TrueRecord, GoodBase, PartAt, Latest
<1>6. OpInv'
  BY <1>1, <1>2, <1>3, <1>5 DEF OpInv, TrueRecord, GoodBase, PartAt, Latest, NotUndone, SamePlan, Restored
<1>. QED BY <1>1, <1>4, <1>6, QuietKeepsFacts DEF ApplyInv

LEMMA KillHolds == ASSUME ApplyInv, Kill PROVE ApplyInv'
<1>1. op' = Idle /\ UNCHANGED <<history, saved, record>> BY DEF Kill
<1>2. ApplyTypeOK' BY <1>1, IdleIsOp DEF ApplyInv, ApplyTypeOK
<1>3. OpInv' BY <1>1, IdleIsOp DEF OpInv
<1>. QED BY <1>1, <1>2, <1>3, QuietKeepsFacts DEF ApplyInv

(* What an earlier batch wrote to a clip is in its history.                *)
LEMMA PlannedOnGoodBase ==
    ASSUME ApplyInv, NEW c \in Clip, NEW value, Verdict(c, value) = "plan"
    PROVE  GoodBase(c, Latest(c))
<1>. DEFINE before == PartAt(c, Latest(c))
<1>1. before = SeedPart[c] \/ before \in Earlier(c) BY DEF Verdict
<1>2. Latest(c) \in Nat BY DEF ApplyInv, ApplyTypeOK, Latest
<1>3. ASSUME before \in Earlier(c)
      PROVE  \E j \in 1..Latest(c): history[c][j].by.does = "apply" /\ history[c][j].part = before
  <2>1. PICK d \in Batch: record[d].outcome[c] = "applied" /\ record[d].value = before
    BY <1>3 DEF Earlier
  <2>. DEFINE j == saved["apply"][d][c]
  <2>2. j # 0 BY <2>1 DEF ApplyInv, FactsInv, RecordInv, TrueRecord
  <2>3. "apply" \in Kinds BY DEF Kinds
  <2>4. j \in 1..Latest(c) BY <1>2, <2>2, <2>3 DEF ApplyInv, FactsInv, KeyInv
  <2>5. history[c][j].by = By("apply", d) BY <2>3, <2>4 DEF ApplyInv, FactsInv, KeyInv
  <2>6. PartAt(c, j) = before BY <2>1, <2>2 DEF ApplyInv, FactsInv, AppliedInv
  <2>. QED BY <2>2, <2>4, <2>5, <2>6 DEF PartAt, By
<1>. QED BY <1>1, <1>2, <1>3 DEF GoodBase

LEMMA ClassifyHolds == ASSUME ApplyInv, NEW c \in Clip, Classify(c) PROVE ApplyInv'
<1>. DEFINE v == Verdict(c, op.draft.value)
<1>1. op.stage = "plan" /\ UNCHANGED <<history, saved, record>> BY DEF Classify
<1>2. op \in Op /\ op.draft \in Record /\ Latest(c) \in Nat
  BY DEF ApplyInv, ApplyTypeOK, Op, Latest
<1>3. v \in Verdicts BY DEF Verdict, Verdicts
<1>4. v = "plan" => GoodBase(c, Latest(c)) BY PlannedOnGoodBase
<1>. HIDE DEF v
<1>5. op' = [op EXCEPT !.todo = @ \ {c}, !.draft.verdict[c] = v, !.draft.from[c] = Latest(c)]
  BY DEF Classify, v
<1>6. op'.stage = op.stage /\ op'.batch = op.batch /\ op'.todo = op.todo \ {c}
  BY <1>2, <1>5 DEF Op
<1>7. /\ op'.draft.verdict = [op.draft.verdict EXCEPT ![c] = v]
      /\ op'.draft.from = [op.draft.from EXCEPT ![c] = Latest(c)]
  BY <1>2, <1>5 DEF Op, Record
<1>8. op'.draft.outcome = op.draft.outcome /\ op'.draft.after = op.draft.after
      /\ op'.draft.undo = op.draft.undo
  BY <1>2, <1>5 DEF Op, Record
<1>9. op' \in Op BY <1>2, <1>3, <1>5, ZenonT(30) DEF Op, Record
<1>10. ApplyTypeOK' BY <1>1, <1>6, <1>9 DEF ApplyInv, ApplyTypeOK
<1>11. TrueRecord(op.batch, op.draft) /\ NotUndone(op.draft) /\ op.batch \in Batch
       /\ record[op.batch].state = "none"
  BY <1>1 DEF ApplyInv, OpInv
<1>12. /\ op'.draft.verdict[c] = v /\ op'.draft.from[c] = Latest(c)
       /\ \A d \in Clip \ {c}: /\ op'.draft.verdict[d] = op.draft.verdict[d]
                                /\ op'.draft.from[d] = op.draft.from[d]
  BY <1>2, <1>7 DEF Record
<1>13. TrueRecord(op.batch, op'.draft) BY <1>4, <1>8, <1>11, <1>12 DEF TrueRecord
<1>14. TrueRecord(op.batch, op.draft)'
  BY <1>1, <1>6, <1>13 DEF TrueRecord, GoodBase, PartAt, Latest
<1>15. OpInv' BY <1>1, <1>6, <1>8, <1>11, <1>14 DEF OpInv, NotUndone
<1>. QED BY <1>1, <1>10, <1>15, QuietKeepsFacts DEF ApplyInv
-----------------------------------------------------------------------------
(* The steps that write a record.                                          *)

(* A record may be written when the batch's receipts fit it.               *)
LEMMA WriteKeepsFacts ==
    ASSUME ApplyInv, NEW b \in Batch, NEW r \in Record,
           record' = [record EXCEPT ![b] = r], UNCHANGED <<history, saved>>,
           TrueRecord(b, r), r.state # "none",
           record[b].state # "none" => SamePlan(record[b], r),
           record[b].state \in {"done", "undone"} => r.state \in {"done", "undone"},
           r.state \in {"done", "undone"} => \A c \in Clip: Reported(b, r, c),
           r.state # "undone" => NotUndone(r),
           r.state = "undone" => \A c \in Clip: Restored(b, r, c)
    PROVE  FactsInv' /\ HandEditSurvives'
<1>1. /\ record \in [Batch -> Record] /\ record'[b] = r
      /\ \A d \in Batch \ {b}: record'[d] = record[d]
  BY DEF ApplyInv, ApplyTypeOK
<1>2. KeyInv' BY DEF ApplyInv, FactsInv, KeyInv, Latest
<1>3. AppliedInv'
  <2>. SUFFICES ASSUME NEW d \in Batch, NEW c \in Clip, saved["apply"][d][c] # 0
                PROVE  /\ record'[d].state # "none" /\ record'[d].verdict[c] = "plan"
                       /\ saved["apply"][d][c] = record'[d].from[c] + 1
                       /\ PartAt(c, saved["apply"][d][c]) = record'[d].value
    BY DEF AppliedInv, PartAt
  <2>1. /\ record[d].state # "none" /\ record[d].verdict[c] = "plan"
        /\ saved["apply"][d][c] = record[d].from[c] + 1
        /\ PartAt(c, saved["apply"][d][c]) = record[d].value
    BY DEF ApplyInv, FactsInv, AppliedInv
  <2>. QED BY <1>1, <2>1 DEF SamePlan
<1>4. UndoneInv' BY <1>1 DEF ApplyInv, FactsInv, UndoneInv, PartAt
<1>5. RecordInv'
  <2>1. ASSUME NEW d \in Batch
        PROVE  /\ TrueRecord(d, record'[d])
               /\ record'[d].state \in {"done", "undone"} =>
                     \A c \in Clip: Reported(d, record'[d], c)
               /\ record'[d].state # "undone" => NotUndone(record'[d])
               /\ record'[d].state = "undone" => \A c \in Clip: Restored(d, record'[d], c)
    <3>1. CASE d = b BY <1>1, <3>1
    <3>2. CASE d # b BY <1>1, <3>2 DEF ApplyInv, FactsInv, RecordInv
    <3>. QED BY <3>1, <3>2
  <2>. QED BY <2>1 DEF RecordInv, TrueRecord, GoodBase, PartAt, Latest, NotUndone, Reported, Restored
<1>6. HandEditSurvives' BY DEF ApplyInv, HandEditSurvives, PartAt
<1>. QED BY <1>2, <1>3, <1>4, <1>5, <1>6 DEF FactsInv

LEMMA StateIsSet ==
    ASSUME NEW r \in Record, NEW s \in {"none", "running", "done", "undone"}
    PROVE  LET t == [r EXCEPT !.state = s]
           IN  /\ t \in Record /\ t.state = s /\ t.value = r.value /\ t.verdict = r.verdict
               /\ t.from = r.from /\ t.outcome = r.outcome /\ t.after = r.after
               /\ t.undo = r.undo
BY DEF Record

LEMMA WriteRecordHolds == ASSUME ApplyInv, WriteRecord PROVE ApplyInv'
<1>. DEFINE b == op.batch
            r == [op.draft EXCEPT !.state = "running"]
<1>1. /\ op.stage = "plan" /\ record' = [record EXCEPT ![b] = r] /\ UNCHANGED <<history, saved>>
      /\ op' = [op EXCEPT !.stage = "write", !.todo = Planned(r), !.draft = r]
  BY DEF WriteRecord
<1>2. op \in Op /\ op.draft \in Record BY DEF ApplyInv, ApplyTypeOK, Op
<1>3. /\ b \in Batch /\ TrueRecord(b, op.draft) /\ NotUndone(op.draft)
      /\ record[b].state = "none"
  BY <1>1 DEF ApplyInv, OpInv
<1>4. /\ r \in Record /\ r.state = "running" /\ r.value = op.draft.value
      /\ r.verdict = op.draft.verdict /\ r.from = op.draft.from
      /\ r.outcome = op.draft.outcome /\ r.after = op.draft.after /\ r.undo = op.draft.undo
  BY <1>2, StateIsSet
<1>. HIDE DEF r
<1>5. TrueRecord(b, r) /\ NotUndone(r) BY <1>3, <1>4 DEF TrueRecord, NotUndone
<1>6. \A c \in Clip: saved["apply"][b][c] = 0
  BY <1>3 DEF ApplyInv, FactsInv, AppliedInv
<1>7. FactsInv' /\ HandEditSurvives' BY <1>1, <1>3, <1>4, <1>5, WriteKeepsFacts
<1>8. /\ op'.stage = "write" /\ op'.batch = b /\ op'.todo = Planned(r) /\ op'.draft = r
      /\ op' \in Op
  BY <1>1, <1>2, <1>4 DEF Op, Planned
<1>9. record' \in [Batch -> Record] /\ record'[b] = r
  BY <1>1, <1>3, <1>4 DEF ApplyInv, ApplyTypeOK
<1>10. ApplyTypeOK' BY <1>1, <1>8, <1>9 DEF ApplyInv, ApplyTypeOK, Planned
<1>11. TrueRecord(op.batch, op.draft)'
  BY <1>1, <1>5, <1>8 DEF TrueRecord, GoodBase, PartAt, Latest
<1>12. OpInv'
  BY <1>1, <1>3, <1>4, <1>5, <1>6, <1>8, <1>9, <1>11 DEF OpInv, NotUndone, SamePlan, Reported
<1>. QED BY <1>7, <1>10, <1>12 DEF ApplyInv

LEMMA FinishApplyHolds == ASSUME ApplyInv, FinishApply PROVE ApplyInv'
<1>. DEFINE b == op.batch
            r == [op.draft EXCEPT !.state = "done"]
<1>1. /\ op.stage = "write" /\ op.todo = {} /\ record' = [record EXCEPT ![b] = r]
      /\ UNCHANGED <<history, saved>> /\ op' = Idle
  BY DEF FinishApply
<1>2. op.draft \in Record BY DEF ApplyInv, ApplyTypeOK, Op
<1>3. /\ b \in Batch /\ TrueRecord(b, op.draft) /\ NotUndone(op.draft)
      /\ record[b].state = "running" /\ SamePlan(record[b], op.draft)
      /\ \A c \in Clip: Reported(b, op.draft, c)
  BY <1>1 DEF ApplyInv, OpInv
<1>4. /\ r \in Record /\ r.state = "done" /\ r.value = op.draft.value
      /\ r.verdict = op.draft.verdict /\ r.from = op.draft.from
      /\ r.outcome = op.draft.outcome /\ r.after = op.draft.after /\ r.undo = op.draft.undo
  BY <1>2, StateIsSet
<1>. HIDE DEF r
<1>5. /\ TrueRecord(b, r) /\ NotUndone(r) /\ SamePlan(record[b], r)
      /\ \A c \in Clip: Reported(b, r, c)
  BY <1>3, <1>4 DEF TrueRecord, NotUndone, SamePlan, Reported
<1>6. FactsInv' /\ HandEditSurvives' BY <1>1, <1>3, <1>4, <1>5, WriteKeepsFacts
<1>7. record' \in [Batch -> Record] BY <1>1, <1>3, <1>4 DEF ApplyInv, ApplyTypeOK
<1>8. ApplyTypeOK' BY <1>1, <1>7, IdleIsOp DEF ApplyInv, ApplyTypeOK
<1>9. OpInv' BY <1>1, IdleIsOp DEF OpInv
<1>. QED BY <1>6, <1>8, <1>9 DEF ApplyInv

LEMMA FinishUndoHolds == ASSUME ApplyInv, FinishUndo PROVE ApplyInv'
<1>. DEFINE b == op.batch
            r == [op.draft EXCEPT !.state = "undone"]
<1>1. /\ op.stage = "restore" /\ op.todo = {} /\ record' = [record EXCEPT ![b] = r]
      /\ UNCHANGED <<history, saved>> /\ op' = Idle
  BY DEF FinishUndo
<1>2. op.draft \in Record BY DEF ApplyInv, ApplyTypeOK, Op
<1>3. /\ b \in Batch /\ TrueRecord(b, op.draft)
      /\ record[b].state = "done" /\ SamePlan(record[b], op.draft)
      /\ record[b].outcome = op.draft.outcome
      /\ \A c \in Clip: Restored(b, op.draft, c)
  BY <1>1 DEF ApplyInv, OpInv
<1>4. /\ r \in Record /\ r.state = "undone" /\ r.value = op.draft.value
      /\ r.verdict = op.draft.verdict /\ r.from = op.draft.from
      /\ r.outcome = op.draft.outcome /\ r.after = op.draft.after /\ r.undo = op.draft.undo
  BY <1>2, StateIsSet
<1>. HIDE DEF r
<1>5. \A c \in Clip: Reported(b, record[b], c) BY <1>3 DEF ApplyInv, FactsInv, RecordInv
<1>6. /\ TrueRecord(b, r) /\ SamePlan(record[b], r)
      /\ \A c \in Clip: Reported(b, r, c) /\ Restored(b, r, c)
  BY <1>3, <1>4, <1>5 DEF TrueRecord, SamePlan, Reported, Restored
<1>7. FactsInv' /\ HandEditSurvives' BY <1>1, <1>3, <1>4, <1>6, WriteKeepsFacts
<1>8. record' \in [Batch -> Record] BY <1>1, <1>3, <1>4 DEF ApplyInv, ApplyTypeOK
<1>9. ApplyTypeOK' BY <1>1, <1>8, IdleIsOp DEF ApplyInv, ApplyTypeOK
<1>10. OpInv' BY <1>1, IdleIsOp DEF OpInv
<1>. QED BY <1>7, <1>9, <1>10 DEF ApplyInv
-----------------------------------------------------------------------------
(* The steps that add a revision.                                          *)

(* No revision ever replaced settings chosen by hand, if the new one does  *)
(* not.                                                                    *)
LEMMA HandEditStays ==
    ASSUME ApplyInv, NEW c \in Clip, NEW x \in Revision,
           history' = [history EXCEPT ![c] = Append(@, x)],
           x.by.does = "apply" => GoodBase(c, Latest(c))
    PROVE  HandEditSurvives'
<1>1. history \in [Clip -> Seq(Revision)] BY DEF ApplyInv, ApplyTypeOK
<1>2. /\ Latest(c)' = Latest(c) + 1 /\ history'[c][Latest(c) + 1] = x
      /\ \A d \in Clip: Latest(d) \in Nat /\ Latest(d)' \in Nat /\ Latest(d) <= Latest(d)'
      /\ \A d \in Clip \ {c}: Latest(d)' = Latest(d)
      /\ \A d \in Clip: \A i \in 1..Latest(d): history'[d][i] = history[d][i]
  BY <1>1, HistoryGrows
<1>3. \A d \in Clip: \A n \in 0..Latest(d): PartAt(d, n)' = PartAt(d, n)
  BY <1>1, <1>2, PartsStay
<1>4. ASSUME NEW d \in Clip, NEW i \in 1..Latest(d)', history'[d][i].by.does = "apply"
      PROVE  \/ PartAt(d, i-1)' = SeedPart[d]
             \/ \E j \in 1..i-1: /\ history'[d][j].by.does = "apply"
                                  /\ history'[d][j].part = PartAt(d, i-1)'
  <2>1. CASE i \in 1..Latest(d)
    <3>1. Latest(d) \in Nat /\ \A j \in 1..Latest(d): history'[d][j] = history[d][j] BY <1>2
    <3>2. i - 1 \in 0..Latest(d) /\ \A j \in 1..i-1: j \in 1..Latest(d) BY <2>1, <3>1
    <3>3. history[d][i].by.does = "apply" BY <1>4, <2>1, <3>1
    <3>4. PartAt(d, i-1)' = PartAt(d, i-1) BY <1>3, <3>2
    <3>5. \/ PartAt(d, i-1) = SeedPart[d]
          \/ \E j \in 1..i-1: history[d][j].by.does = "apply" /\ history[d][j].part = PartAt(d, i-1)
      BY <2>1, <3>3 DEF ApplyInv, HandEditSurvives, Latest
    <3>6. \A j \in 1..i-1: history'[d][j] = history[d][j] BY <3>1, <3>2
    <3>. QED BY <3>4, <3>5, <3>6
  <2>2. CASE i \notin 1..Latest(d)
    <3>1. d = c /\ i = Latest(c) + 1 /\ i - 1 \in 0..Latest(c) /\ i - 1 = Latest(c)
      BY <1>2, <2>2
    <3>2. GoodBase(c, Latest(c)) BY <1>2, <1>4, <3>1
    <3>3. \/ PartAt(c, i-1) = SeedPart[c]
          \/ \E j \in 1..i-1: history[c][j].by.does = "apply" /\ history[c][j].part = PartAt(c, i-1)
      BY <3>1, <3>2 DEF GoodBase
    <3>4. PartAt(c, i-1)' = PartAt(c, i-1) BY <1>3, <3>1
    <3>5. \A j \in 1..i-1: history'[c][j] = history[c][j] BY <1>2, <3>1
    <3>. QED BY <3>1, <3>3, <3>4, <3>5, ZenonT(30)
  <2>. QED BY <2>1, <2>2
<1>. QED BY <1>4 DEF HandEditSurvives, Latest, PartAt

LEMMA EditHolds == ASSUME ApplyInv, NEW c \in Clip, NEW p \in Part, Edit(c, p) PROVE ApplyInv'
<1>. DEFINE x == [part |-> p, by |-> [does |-> "edit", batch |-> None]]
<1>1. history' = [history EXCEPT ![c] = Append(@, x)] /\ UNCHANGED <<saved, record, op>>
  BY DEF Edit
<1>2. x \in Revision /\ x.by.does = "edit" BY DEF Revision, Author
<1>3. \A kind \in Kinds, b \in Batch: x.by # By(kind, b) BY DEF Kinds, By
<1>. HIDE DEF x
<1>4. history \in [Clip -> Seq(Revision)] BY DEF ApplyInv, ApplyTypeOK
<1>5. /\ history' \in [Clip -> Seq(Revision)]
      /\ Latest(c)' = Latest(c) + 1 /\ history'[c][Latest(c) + 1] = x
      /\ \A d \in Clip: Latest(d) \in Nat /\ Latest(d)' \in Nat /\ Latest(d) <= Latest(d)'
      /\ \A d \in Clip \ {c}: Latest(d)' = Latest(d)
      /\ \A d \in Clip: \A i \in 1..Latest(d): history'[d][i] = history[d][i]
  BY <1>1, <1>2, <1>4, HistoryGrows
<1>6. \A d \in Clip: /\ \A n \in 0..Latest(d): PartAt(d, n)' = PartAt(d, n)
                     /\ \A n \in Nat: GoodBase(d, n) => GoodBase(d, n)'
  BY <1>4, <1>5, PartsStay
<1>7. ApplyTypeOK' BY <1>1, <1>5 DEF ApplyInv, ApplyTypeOK
<1>8. KeyInv'
  <2>. SUFFICES ASSUME NEW kind \in Kinds, NEW b \in Batch, NEW d \in Clip
                PROVE  /\ saved[kind][b][d] \in 0..Latest(d)'
                       /\ \A i \in 1..Latest(d)':
                            history'[d][i].by = By(kind, b) <=> saved[kind][b][d] = i
    BY <1>1 DEF KeyInv, Latest, By
  <2>1. /\ saved[kind][b][d] \in 0..Latest(d)
        /\ \A i \in 1..Latest(d): history[d][i].by = By(kind, b) <=> saved[kind][b][d] = i
    BY DEF ApplyInv, FactsInv, KeyInv
  <2>2. CASE d = c
    <3>1. Latest(c) \in Nat /\ Latest(c)' = Latest(c) + 1 BY <1>5
    <3>2. history'[c][Latest(c) + 1].by # By(kind, b) BY <1>3, <1>5
    <3>3. \A i \in 1..Latest(c): history'[c][i] = history[c][i] BY <1>5
    <3>. QED BY <2>1, <2>2, <3>1, <3>2, <3>3
  <2>3. CASE d # c BY <1>5, <2>1, <2>3, SMTT(30)
  <2>. QED BY <2>2, <2>3
<1>9. \A kind \in Kinds, b \in Batch, d \in Clip: saved[kind][b][d] \in 0..Latest(d)
  BY DEF ApplyInv, FactsInv, KeyInv
<1>10. AppliedInv'
  BY <1>1, <1>6, <1>9 DEF ApplyInv, FactsInv, AppliedInv, Kinds
<1>11. UndoneInv'
  <2>. SUFFICES ASSUME NEW b \in Batch, NEW d \in Clip, saved["undo"][b][d] # 0
                PROVE  /\ record[b].state \in {"done", "undone"}
                       /\ saved["apply"][b][d] # 0
                       /\ saved["undo"][b][d] = saved["apply"][b][d] + 1
                       /\ PartAt(d, saved["undo"][b][d])' = PartAt(d, saved["apply"][b][d] - 1)'
    BY <1>1, ZenonT(30) DEF UndoneInv, PartAt
  <2>1. saved["undo"][b][d] \in 0..Latest(d) /\ saved["apply"][b][d] \in 0..Latest(d)
    BY <1>9 DEF Kinds
  <2>2. /\ record[b].state \in {"done", "undone"}
        /\ saved["apply"][b][d] # 0
        /\ saved["undo"][b][d] = saved["apply"][b][d] + 1
        /\ PartAt(d, saved["undo"][b][d]) = PartAt(d, saved["apply"][b][d] - 1)
    BY DEF ApplyInv, FactsInv, UndoneInv
  <2>3. saved["apply"][b][d] - 1 \in 0..Latest(d) BY <1>5, <2>1, <2>2, SMTT(30)
  <2>4. /\ PartAt(d, saved["undo"][b][d])' = PartAt(d, saved["undo"][b][d])
        /\ PartAt(d, saved["apply"][b][d] - 1)' = PartAt(d, saved["apply"][b][d] - 1)
    BY <1>1, <1>6, <2>1, <2>3
  <2>. QED BY <2>2, <2>4
<1>12. \A b \in Batch, r \in Record:
          TrueRecord(b, r) =>
            \A d \in Clip: /\ r.outcome[d] = "applied" =>
                               saved["apply"][b][d] # 0 /\ r.after[d] = saved["apply"][b][d]
                          /\ r.verdict[d] = "plan" => GoodBase(d, r.from[d])'
  BY <1>6 DEF TrueRecord, Record
<1>13. RecordInv'
  BY <1>1, <1>12 DEF ApplyInv, ApplyTypeOK, FactsInv, RecordInv, TrueRecord, NotUndone, Reported, Restored
<1>14. OpInv'
  BY <1>1, <1>12, ZenonT(30) DEF ApplyInv, ApplyTypeOK, Op, OpInv, TrueRecord, NotUndone, SamePlan, Reported, Restored
<1>15. HandEditSurvives' BY <1>1, <1>2, HandEditStays
<1>. QED BY <1>7, <1>8, <1>10, <1>11, <1>13, <1>14, <1>15 DEF ApplyInv, FactsInv

(* A put of a batch that has no receipt yet: it adds a revision p to c,    *)
(* either the planned one or the undo of the batch's latest.               *)
LEMMA PutKeepsFacts ==
    ASSUME ApplyInv, NEW kind \in Kinds, NEW b \in Batch, NEW c \in Clip, NEW p \in Part,
           NEW n \in Nat, n = Latest(c), saved[kind][b][c] = 0,
           history' = [history EXCEPT ![c] = Append(@, [part |-> p, by |-> By(kind, b)])],
           saved' = [saved EXCEPT ![kind][b][c] = n + 1], UNCHANGED record,
           kind = "apply" => /\ record[b].state = "running" /\ record[b].verdict[c] = "plan"
                             /\ record[b].from[c] = n /\ p = record[b].value,
           kind = "undo" => /\ record[b].state = "done"
                            /\ saved["apply"][b][c] = n /\ n # 0 /\ p = PartAt(c, n - 1)
    PROVE  /\ FactsInv' /\ HandEditSurvives'
           /\ history' \in [Clip -> Seq(Revision)]
           /\ saved' \in [Kinds -> [Batch -> [Clip -> Nat]]]
           /\ saved'[kind][b][c] = n + 1
           /\ \A k \in Kinds, d \in Batch, e \in Clip:
                 saved'[k][d][e] # saved[k][d][e] => k = kind /\ d = b /\ e = c
           /\ \A e \in Clip: \A m \in Nat: GoodBase(e, m) => GoodBase(e, m)'
<1>. DEFINE x == [part |-> p, by |-> By(kind, b)]
<1>1. x \in Revision /\ x.part = p /\ x.by = By(kind, b) /\ x.by.does = kind
  BY DEF Revision, Author, By
<1>2. history \in [Clip -> Seq(Revision)] /\ saved \in [Kinds -> [Batch -> [Clip -> Nat]]]
  BY DEF ApplyInv, ApplyTypeOK
<1>3. history' = [history EXCEPT ![c] = Append(@, x)] OBVIOUS
<1>. HIDE DEF x
<1>4. /\ history' \in [Clip -> Seq(Revision)]
      /\ Latest(c)' = n + 1 /\ history'[c][n + 1] = x
      /\ \A d \in Clip: Latest(d) \in Nat /\ Latest(d)' \in Nat /\ Latest(d) <= Latest(d)'
      /\ \A d \in Clip \ {c}: Latest(d)' = Latest(d)
      /\ \A d \in Clip: \A i \in 1..Latest(d): history'[d][i] = history[d][i]
  <2>1. x \in Revision /\ history \in [Clip -> Seq(Revision)] BY <1>1, <1>2
  <2>2. /\ history' \in [Clip -> Seq(Revision)]
        /\ Latest(c)' = Latest(c) + 1 /\ history'[c][Latest(c) + 1] = x
        /\ \A d \in Clip: Latest(d) \in Nat /\ Latest(d)' \in Nat /\ Latest(d) <= Latest(d)'
        /\ \A d \in Clip \ {c}: Latest(d)' = Latest(d)
        /\ \A d \in Clip: \A i \in 1..Latest(d): history'[d][i] = history[d][i]
    BY ONLY <2>1, <1>3, HistoryGrows, c \in Clip
  <2>3. n = Latest(c) OBVIOUS
  <2>. QED BY ONLY <2>2, <2>3
<1>5. \A d \in Clip: /\ \A m \in 0..Latest(d): PartAt(d, m)' = PartAt(d, m)
                     /\ \A m \in Nat: GoodBase(d, m) => GoodBase(d, m)'
  BY <1>2, <1>4, PartsStay
<1>6. PartAt(c, n + 1)' = p
  <2>1. history'[c][n + 1] = x /\ x.part = p BY <1>1, <1>4
  <2>2. n + 1 # 0 OBVIOUS
  <2>. QED BY <2>1, <2>2 DEF PartAt
<1>7. /\ saved' \in [Kinds -> [Batch -> [Clip -> Nat]]]
      /\ saved'[kind][b][c] = n + 1
      /\ \A k \in Kinds, d \in Batch, e \in Clip:
            k # kind \/ d # b \/ e # c => saved'[k][d][e] = saved[k][d][e]
  BY <1>2
<1>8. /\ "apply" \in Kinds /\ "undo" \in Kinds
      /\ \A k \in Kinds, d \in Batch: By(k, d) = By(kind, b) <=> k = kind /\ d = b
  BY DEF Kinds, By
<1>9. \A k \in Kinds, d \in Batch, e \in Clip:
         /\ saved[k][d][e] \in 0..Latest(e)
         /\ \A i \in 1..Latest(e): history[e][i].by = By(k, d) <=> saved[k][d][e] = i
  BY DEF ApplyInv, FactsInv, KeyInv
<1>10. KeyInv'
  <2>. SUFFICES ASSUME NEW k \in Kinds, NEW d \in Batch, NEW e \in Clip
                PROVE  /\ saved'[k][d][e] \in 0..Latest(e)'
                       /\ \A i \in 1..Latest(e)':
                            history'[e][i].by = By(k, d) <=> saved'[k][d][e] = i
    BY DEF KeyInv, By
  <2>1. CASE e # c BY <1>4, <1>7, <1>9, <2>1, SMTT(30)
  <2>2. CASE e = c /\ (k # kind \/ d # b)
    <3>1. saved'[k][d][c] = saved[k][d][c] BY <1>7, <2>2
    <3>2. By(k, d) # By(kind, b) BY <1>8, <2>2
    <3>3. history'[c][n + 1].by # By(k, d) BY <1>1, <1>4, <3>2
    <3>. QED BY <1>4, <1>9, <2>2, <3>1, <3>3, SMTT(30)
  <2>3. CASE e = c /\ k = kind /\ d = b
    <3>1. \A i \in 1..n: history'[c][i].by # By(kind, b) BY <1>4, <1>9, SMTT(30)
    <3>. QED BY <1>1, <1>4, <1>7, <2>3, <3>1, SMTT(30)
  <2>. QED BY <2>1, <2>2, <2>3
<1>11. AppliedInv'
  <2>. SUFFICES ASSUME NEW d \in Batch, NEW e \in Clip, saved'["apply"][d][e] # 0
                PROVE  /\ record[d].state # "none" /\ record[d].verdict[e] = "plan"
                       /\ saved'["apply"][d][e] = record[d].from[e] + 1
                       /\ PartAt(e, saved["apply"][d][e])' = record[d].value
    BY DEF AppliedInv
  <2>1. CASE kind = "apply" /\ d = b /\ e = c BY <1>6, <1>7, <2>1
  <2>2. CASE kind # "apply" \/ d # b \/ e # c
    <3>1. saved'["apply"][d][e] = saved["apply"][d][e] BY <1>7, <1>8, <2>2
    <3>2. PartAt(e, saved["apply"][d][e])' = PartAt(e, saved["apply"][d][e])
      BY <1>5, <1>8, <1>9, <3>1
    <3>. QED BY <3>1, <3>2 DEF ApplyInv, FactsInv, AppliedInv
  <2>. QED BY <2>1, <2>2
<1>12. UndoneInv'
  <2>. SUFFICES ASSUME NEW d \in Batch, NEW e \in Clip, saved'["undo"][d][e] # 0
                PROVE  /\ record[d].state \in {"done", "undone"}
                       /\ saved'["apply"][d][e] # 0
                       /\ saved'["undo"][d][e] = saved'["apply"][d][e] + 1
                       /\ PartAt(e, saved["undo"][d][e])' = PartAt(e, saved["apply"][d][e] - 1)'
    BY DEF UndoneInv
  <2>1. PICK a, u: a = saved'["apply"][d][e] /\ u = saved'["undo"][d][e] OBVIOUS
  <2>2. /\ PartAt(e, saved["undo"][d][e])' = PartAt(e, u)'
        /\ PartAt(e, saved["apply"][d][e] - 1)' = PartAt(e, a - 1)'
    BY <2>1 DEF PartAt
  <2>3. CASE kind = "undo" /\ d = b /\ e = c
    <3>1. a = n /\ u = n + 1 /\ n # 0 BY <1>7, <1>8, <2>1, <2>3
    <3>2. n - 1 \in 0..Latest(c) BY <3>1
    <3>3. PartAt(c, n - 1)' = PartAt(c, n - 1) BY <1>5, <3>2
    <3>4. PartAt(e, u)' = PartAt(e, a - 1)' BY <1>6, <2>3, <3>1, <3>3
    <3>. QED BY <2>1, <2>2, <2>3, <3>1, <3>4
  <2>4. CASE kind # "undo" \/ d # b \/ e # c
    <3>1. u = saved["undo"][d][e] BY <1>7, <1>8, <2>1, <2>4
    <3>2. /\ record[d].state \in {"done", "undone"}
          /\ saved["apply"][d][e] # 0
          /\ u = saved["apply"][d][e] + 1
          /\ PartAt(e, u) = PartAt(e, saved["apply"][d][e] - 1)
      BY <2>1, <3>1 DEF ApplyInv, FactsInv, UndoneInv
    <3>3. a = saved["apply"][d][e] BY <1>7, <1>8, <2>1, <3>2
    <3>4. u \in 0..Latest(e) /\ a \in 0..Latest(e) BY <1>8, <1>9, <3>1, <3>3
    <3>5. a - 1 \in 0..Latest(e)
      <4>1. Latest(e) \in Nat /\ a # 0 BY <1>4, <3>2, <3>3
      <4>. QED BY <3>4, <4>1
    <3>6. PartAt(e, u)' = PartAt(e, u) /\ PartAt(e, a - 1)' = PartAt(e, a - 1)
      BY <1>5, <3>4, <3>5
    <3>. QED BY <2>1, <2>2, <3>2, <3>3, <3>6
  <2>. QED BY <2>3, <2>4
<1>13. RecordInv'
  <2>. SUFFICES ASSUME NEW d \in Batch
                PROVE  /\ TrueRecord(d, record[d])'
                       /\ record[d].state \in {"done", "undone"} =>
                             \A e \in Clip: Reported(d, record[d], e)'
                       /\ record[d].state # "undone" => NotUndone(record[d])'
                       /\ record[d].state = "undone" =>
                             \A e \in Clip: Restored(d, record[d], e)'
    BY DEF RecordInv
  <2>1. /\ TrueRecord(d, record[d])
        /\ record[d].state \in {"done", "undone"} => \A e \in Clip: Reported(d, record[d], e)
        /\ record[d].state # "undone" => NotUndone(record[d])
        /\ record[d].state = "undone" => \A e \in Clip: Restored(d, record[d], e)
        /\ record[d] \in Record
    BY DEF ApplyInv, ApplyTypeOK, FactsInv, RecordInv
  <2>2. ASSUME NEW e \in Clip, record[d].outcome[e] = "applied"
        PROVE  saved'["apply"][d][e] # 0 /\ record[d].after[e] = saved'["apply"][d][e]
    <3>1. saved["apply"][d][e] # 0 /\ record[d].after[e] = saved["apply"][d][e]
      BY <2>1, <2>2 DEF TrueRecord
    <3>. QED BY <1>7, <1>8, <3>1
  <2>3. TrueRecord(d, record[d])'
    BY <1>5, <2>1, <2>2 DEF TrueRecord, Record
  <2>4. record[d].state \in {"done", "undone"} =>
           \A e \in Clip: saved'["apply"][d][e] = saved["apply"][d][e]
    BY <1>7, <1>8 DEF Kinds
  <2>5. record[d].state = "undone" => \A e \in Clip: saved'["undo"][d][e] = saved["undo"][d][e]
    BY <1>7, <1>8 DEF Kinds
  <2>. QED BY <2>1, <2>3, <2>4, <2>5 DEF NotUndone, Reported, Restored
<1>14. kind = "apply" => GoodBase(c, Latest(c))
  BY DEF ApplyInv, FactsInv, RecordInv, TrueRecord
<1>15. HandEditSurvives' BY <1>1, <1>3, <1>14, HandEditStays
<1>. QED BY <1>4, <1>5, <1>7, <1>10, <1>11, <1>12, <1>13, <1>15 DEF FactsInv

LEMMA PlannedBase ==
    ASSUME NEW d, NEW n, n = op'.draft.from[d], GoodBase(d, n)'
    PROVE  GoodBase(d, op.draft.from[d])'
BY DEF GoodBase, PartAt, Latest

(* The outcome o of writing c, with the receipt it left.                   *)
LEMMA OutcomeKeepsOp ==
    ASSUME ApplyInv, op.stage = "write", NEW c \in op.todo, NEW o \in Outcomes, NEW m \in Nat,
           op' = [op EXCEPT !.todo = @ \ {c}, !.draft.outcome[c] = o, !.draft.after[c] = m],
           UNCHANGED record,
           \A d \in Clip \ {c}: saved'["apply"][op.batch][d] = saved["apply"][op.batch][d],
           o = "applied" => saved'["apply"][op.batch][c] # 0 /\ saved'["apply"][op.batch][c] = m,
           o # "applied" => saved'["apply"][op.batch][c] = 0,
           \A d \in Clip: \A n \in Nat: GoodBase(d, n) => GoodBase(d, n)'
    PROVE  /\ op' \in Op /\ op'.stage = "write" /\ op'.todo \subseteq Planned(op'.draft)
           /\ OpInv'
<1>1. op \in Op /\ op.draft \in Record /\ op.todo \subseteq Planned(op.draft) /\ c \in Clip
  BY DEF ApplyInv, ApplyTypeOK, Op
<1>2. op'.stage = op.stage /\ op'.batch = op.batch /\ op'.todo = op.todo \ {c}
  BY <1>1 DEF Op
<1>3. /\ op'.draft.outcome = [op.draft.outcome EXCEPT ![c] = o]
      /\ op'.draft.after = [op.draft.after EXCEPT ![c] = m]
  BY <1>1 DEF Op, Record
<1>4. op'.draft.verdict = op.draft.verdict /\ op'.draft.from = op.draft.from
      /\ op'.draft.value = op.draft.value /\ op'.draft.undo = op.draft.undo
  BY <1>1 DEF Op, Record
<1>5. op' \in Op BY <1>1, ZenonT(30) DEF Op, Record
<1>6. op'.todo \subseteq Planned(op'.draft) BY <1>1, <1>2, <1>4 DEF Planned
<1>7. /\ op.batch \in Batch /\ TrueRecord(op.batch, op.draft)
      /\ record[op.batch].state = "running" /\ SamePlan(record[op.batch], op.draft)
      /\ NotUndone(op.draft)
      /\ \A d \in Clip \ op.todo: Reported(op.batch, op.draft, d)
  BY DEF ApplyInv, OpInv
<1>8. /\ op'.draft.outcome[c] = o /\ op'.draft.after[c] = m
      /\ \A d \in Clip \ {c}: /\ op'.draft.outcome[d] = op.draft.outcome[d]
                              /\ op'.draft.after[d] = op.draft.after[d]
  BY <1>1, <1>3 DEF Record
<1>9. ASSUME NEW d \in Clip, op'.draft.outcome[d] = "applied"
      PROVE  saved'["apply"][op.batch][d] # 0 /\ op'.draft.after[d] = saved'["apply"][op.batch][d]
  <2>1. CASE d = c BY <1>8, <1>9, <2>1
  <2>2. CASE d # c BY <1>7, <1>8, <1>9, <2>2, SMTT(30) DEF TrueRecord
  <2>. QED BY <2>1, <2>2
<1>10. ASSUME NEW d \in Clip, op'.draft.verdict[d] = "plan"
       PROVE  GoodBase(d, op.draft.from[d])'
  <2>1. PICK n \in Nat: n = op.draft.from[d] /\ n = op'.draft.from[d] BY <1>1, <1>4 DEF Record
  <2>2. GoodBase(d, n)' BY <1>4, <1>7, <1>10, <2>1 DEF TrueRecord
  <2>. QED BY <2>1, <2>2, PlannedBase
<1>11. TrueRecord(op.batch, op.draft)' BY <1>2, <1>9, <1>10 DEF TrueRecord
<1>12. \A d \in Clip \ op'.todo: Reported(op.batch, op.draft, d)'
  <2>. SUFFICES ASSUME NEW d \in Clip \ op'.todo, op'.draft.outcome[d] # "applied"
                PROVE  saved'["apply"][op.batch][d] = 0
    BY <1>2 DEF Reported
  <2>1. CASE d = c BY <1>8, <2>1
  <2>2. CASE d # c BY <1>2, <1>7, <1>8, <2>2, SMTT(30) DEF Reported
  <2>. QED BY <2>1, <2>2
<1>13. OpInv' BY <1>2, <1>4, <1>7, <1>11, <1>12 DEF OpInv, SamePlan, NotUndone
<1>. QED BY <1>2, <1>5, <1>6, <1>13

LEMMA WriteClipHolds == ASSUME ApplyInv, NEW c \in Clip, WriteClip(c) PROVE ApplyInv'
<1>. DEFINE b == op.batch
            value == op.draft.value
            expected == op.draft.from[c]
            OpOf(o, m) == op' = [op EXCEPT !.todo = @ \ {c}, !.draft.outcome[c] = o,
                                           !.draft.after[c] = m]
<1>1. op.stage = "write" /\ c \in op.todo /\ UNCHANGED record BY DEF WriteClip
<1>2. op \in Op /\ op.draft \in Record BY DEF ApplyInv, ApplyTypeOK, Op
<1>3. value \in Part /\ expected \in Nat BY <1>2 DEF Record
<1>4. op.draft.verdict[c] = "plan" BY <1>1 DEF ApplyInv, ApplyTypeOK, Planned
<1>5. b \in Batch /\ record[b].state = "running" /\ SamePlan(record[b], op.draft)
  BY <1>1 DEF ApplyInv, OpInv
<1>6. "apply" \in Kinds BY DEF Kinds
<1>7. ASSUME NEW o \in Outcomes, o # "applied", NoPut, saved["apply"][b][c] = 0, OpOf(o, 0)
      PROVE  ApplyInv'
  <2>1. 0 \in Nat OBVIOUS
  <2>2. /\ \A d \in Clip \ {c}: saved'["apply"][b][d] = saved["apply"][b][d]
        /\ saved'["apply"][b][c] = 0
        /\ \A d \in Clip: \A n \in Nat: GoodBase(d, n) => GoodBase(d, n)'
    BY <1>7 DEF NoPut, GoodBase, PartAt, Latest
  <2>3. op' \in Op /\ op'.stage = "write" /\ op'.todo \subseteq Planned(op'.draft) /\ OpInv'
    BY <1>1, <1>7, <2>1, <2>2, OutcomeKeepsOp
  <2>4. ApplyTypeOK' BY <1>1, <1>7, <2>3 DEF NoPut, ApplyInv, ApplyTypeOK
  <2>. QED BY <1>1, <1>7, <2>3, <2>4, QuietKeepsFacts DEF NoPut, ApplyInv
<1>8. CASE NoPut /\ saved["apply"][b][c] # 0 /\ OpOf("applied", saved["apply"][b][c])
  <2>1. saved["apply"][b][c] \in Nat BY <1>5, <1>6 DEF ApplyInv, ApplyTypeOK
  <2>2. "applied" \in Outcomes BY DEF Outcomes
  <2>3. /\ \A d \in Clip \ {c}: saved'["apply"][b][d] = saved["apply"][b][d]
        /\ saved'["apply"][b][c] = saved["apply"][b][c]
        /\ \A d \in Clip: \A n \in Nat: GoodBase(d, n) => GoodBase(d, n)'
    BY <1>8, SMTT(30) DEF NoPut, GoodBase, PartAt, Latest
  <2>4. op' \in Op /\ op'.stage = "write" /\ op'.todo \subseteq Planned(op'.draft) /\ OpInv'
    BY <1>1, <1>8, <2>1, <2>2, <2>3, OutcomeKeepsOp
  <2>5. ApplyTypeOK' BY <1>1, <1>8, <2>4 DEF NoPut, ApplyInv, ApplyTypeOK
  <2>. QED BY <1>1, <1>8, <2>4, <2>5, QuietKeepsFacts DEF NoPut, ApplyInv
<1>9. CASE /\ saved["apply"][b][c] = 0 /\ Latest(c) = expected
           /\ history' = [history EXCEPT ![c] = Append(@, [part |-> value, by |-> By("apply", b)])]
           /\ saved' = [saved EXCEPT !["apply"][b][c] = expected + 1]
           /\ OpOf("applied", expected + 1)
  <2>1. record[b].verdict[c] = "plan" /\ record[b].from[c] = expected /\ value = record[b].value
    BY <1>4, <1>5, SMTT(30) DEF SamePlan
  <2>2. /\ FactsInv' /\ HandEditSurvives'
        /\ history' \in [Clip -> Seq(Revision)]
        /\ saved' \in [Kinds -> [Batch -> [Clip -> Nat]]]
        /\ saved'["apply"][b][c] = expected + 1
        /\ \A k \in Kinds, d \in Batch, e \in Clip:
              saved'[k][d][e] # saved[k][d][e] => k = "apply" /\ d = b /\ e = c
        /\ \A e \in Clip: \A m \in Nat: GoodBase(e, m) => GoodBase(e, m)'
    BY <1>1, <1>3, <1>5, <1>6, <1>9, <2>1, PutKeepsFacts
  <2>3. \A d \in Clip \ {c}: saved'["apply"][b][d] = saved["apply"][b][d]
    BY <1>5, <1>6, <2>2
  <2>4. "applied" \in Outcomes /\ expected + 1 \in Nat /\ expected + 1 # 0
    BY <1>3 DEF Outcomes
  <2>5. op' \in Op /\ op'.stage = "write" /\ op'.todo \subseteq Planned(op'.draft) /\ OpInv'
    BY <1>1, <1>9, <2>2, <2>3, <2>4, OutcomeKeepsOp, ZenonT(30)
  <2>6. ApplyTypeOK' BY <1>1, <2>2, <2>5 DEF ApplyInv, ApplyTypeOK
  <2>. QED BY <2>2, <2>5, <2>6 DEF ApplyInv
<1>10. CASE Replays("apply", b, c)
  BY <1>8, <1>10 DEF WriteClip, Conflicts, Rejected, Replays, Put, Made, NoPut, Base
<1>11. CASE Conflicts("apply", b, c, expected)
  <2>1. "conflict" \in Outcomes BY SMTT(30) DEF Outcomes
  <2>. QED BY <1>7, <1>11, <2>1 DEF WriteClip, Conflicts, Rejected, Replays, Base
<1>12. CASE Rejected("apply", b, c, expected, value)
  <2>1. "invalid" \in Outcomes BY DEF Outcomes
  <2>. QED BY <1>7, <1>12, <2>1 DEF WriteClip, Conflicts, Rejected, Replays, Base
<1>13. CASE /\ ~Replays("apply", b, c) /\ ~Conflicts("apply", b, c, expected)
            /\ ~Rejected("apply", b, c, expected, value)
  BY <1>9, <1>13 DEF WriteClip, Conflicts, Replays, Put, Made, Base
<1>. QED BY <1>10, <1>11, <1>12, <1>13

(* The outcome o of restoring c, with the receipt it left.                 *)
LEMMA UndoOutcomeKeepsOp ==
    ASSUME ApplyInv, op.stage = "restore", NEW c \in op.todo, NEW o \in UndoOutcomes,
           op' = [op EXCEPT !.todo = @ \ {c}, !.draft.undo[c] = o],
           UNCHANGED record,
           \A d \in Clip: saved'["apply"][op.batch][d] = saved["apply"][op.batch][d],
           \A d \in Clip \ {c}: saved'["undo"][op.batch][d] = saved["undo"][op.batch][d],
           o = "restored" <=> saved'["undo"][op.batch][c] # 0,
           \A d \in Clip: \A n \in Nat: GoodBase(d, n) => GoodBase(d, n)'
    PROVE  /\ op' \in Op /\ op'.stage = "restore" /\ op'.todo \subseteq Applied(op'.draft)
           /\ OpInv'
<1>1. op \in Op /\ op.draft \in Record /\ op.todo \subseteq Applied(op.draft) /\ c \in Clip
  BY DEF ApplyInv, ApplyTypeOK, Op
<1>2. op'.stage = op.stage /\ op'.batch = op.batch /\ op'.todo = op.todo \ {c}
  BY <1>1 DEF Op
<1>3. op'.draft.undo = [op.draft.undo EXCEPT ![c] = o] BY <1>1 DEF Op, Record
<1>4. /\ op'.draft.verdict = op.draft.verdict /\ op'.draft.from = op.draft.from
      /\ op'.draft.value = op.draft.value
      /\ op'.draft.outcome = op.draft.outcome /\ op'.draft.after = op.draft.after
  BY <1>1 DEF Op, Record
<1>5. op' \in Op BY <1>1 DEF Op, Record
<1>6. op'.todo \subseteq Applied(op'.draft) BY <1>1, <1>2, <1>4 DEF Applied
<1>7. /\ op.batch \in Batch /\ TrueRecord(op.batch, op.draft)
      /\ record[op.batch].state = "done" /\ SamePlan(record[op.batch], op.draft)
      /\ record[op.batch].outcome = op.draft.outcome
      /\ record[op.batch].after = op.draft.after
      /\ \A d \in Clip \ op.todo: Restored(op.batch, op.draft, d)
  BY DEF ApplyInv, OpInv
<1>8. op'.draft.undo[c] = o /\ \A d \in Clip \ {c}: op'.draft.undo[d] = op.draft.undo[d]
  BY <1>1, <1>3 DEF Record
<1>9. ASSUME NEW d \in Clip, op'.draft.verdict[d] = "plan"
      PROVE  GoodBase(d, op.draft.from[d])'
  <2>1. PICK n \in Nat: n = op.draft.from[d] /\ n = op'.draft.from[d] BY <1>1, <1>4 DEF Record
  <2>2. GoodBase(d, n)' BY <1>4, <1>7, <1>9, <2>1 DEF TrueRecord
  <2>. QED BY <2>1, <2>2, PlannedBase
<1>10. ASSUME NEW d \in Clip, op'.draft.outcome[d] = "applied"
       PROVE  saved'["apply"][op.batch][d] # 0 /\ op'.draft.after[d] = saved'["apply"][op.batch][d]
  BY <1>4, <1>7, <1>10 DEF TrueRecord
<1>11. TrueRecord(op.batch, op.draft)' BY <1>2, <1>9, <1>10 DEF TrueRecord
<1>12. \A d \in Clip \ op'.todo: Restored(op.batch, op.draft, d)'
  <2>. SUFFICES ASSUME NEW d \in Clip \ op'.todo
                PROVE  op'.draft.undo[d] = "restored" <=> saved'["undo"][op.batch][d] # 0
    BY <1>2 DEF Restored
  <2>1. CASE d = c BY <1>8, <2>1
  <2>2. CASE d # c BY <1>2, <1>7, <1>8, <2>2 DEF Restored
  <2>. QED BY <2>1, <2>2
<1>13. OpInv' BY <1>2, <1>4, <1>7, <1>11, <1>12 DEF OpInv, SamePlan
<1>. QED BY <1>2, <1>5, <1>6, <1>13

LEMMA RestoreClipHolds == ASSUME ApplyInv, NEW c \in Clip, RestoreClip(c) PROVE ApplyInv'
<1>. DEFINE b == op.batch
            before == PartAt(c, op.draft.from[c])
            expected == op.draft.after[c]
            OpOf(o) == op' = [op EXCEPT !.todo = @ \ {c}, !.draft.undo[c] = o]
<1>1. op.stage = "restore" /\ c \in op.todo /\ UNCHANGED record BY DEF RestoreClip
<1>2. op \in Op /\ op.draft \in Record BY DEF ApplyInv, ApplyTypeOK, Op
<1>3. expected \in Nat /\ op.draft.from[c] \in Nat BY <1>2 DEF Record
<1>4. op.draft.outcome[c] = "applied" BY <1>1 DEF ApplyInv, ApplyTypeOK, Applied
<1>5. b \in Batch /\ record[b].state = "done" /\ SamePlan(record[b], op.draft)
      /\ TrueRecord(b, op.draft)
  BY <1>1 DEF ApplyInv, OpInv
<1>6. saved["apply"][b][c] = expected /\ expected # 0
  BY <1>4, <1>5 DEF TrueRecord
<1>7. "apply" \in Kinds /\ "undo" \in Kinds /\ "apply" # "undo" BY DEF Kinds
<1>8. expected \in 0..Latest(c) BY <1>5, <1>6, <1>7 DEF ApplyInv, FactsInv, KeyInv
<1>9. expected = op.draft.from[c] + 1
  BY <1>5, <1>6 DEF ApplyInv, FactsInv, AppliedInv, SamePlan
<1>10. op.draft.from[c] = expected - 1 BY <1>3, <1>9
<1>11. before \in Part
  <2>1. history[c] \in Seq(Revision) BY DEF ApplyInv, ApplyTypeOK
  <2>2. CASE op.draft.from[c] = 0 BY <2>2, SeedAssumption DEF PartAt
  <2>3. CASE op.draft.from[c] # 0
    <3>1. Len(history[c]) \in Nat BY <2>1
    <3>2. op.draft.from[c] \in 1..Len(history[c])
      BY <1>3, <1>8, <1>9, <2>3, <3>1, SMTT(30) DEF Latest
    <3>3. history[c][op.draft.from[c]] \in Revision BY <2>1, <3>2, ElementOfSeq
    <3>. QED BY <2>3, <3>3 DEF PartAt, Revision
  <2>. QED BY <2>2, <2>3
<1>12. ASSUME NEW o \in UndoOutcomes, NoPut, o = "restored" <=> saved["undo"][b][c] # 0, OpOf(o)
       PROVE  ApplyInv'
  <2>1. /\ \A d \in Clip: saved'["apply"][b][d] = saved["apply"][b][d]
        /\ \A d \in Clip: saved'["undo"][b][d] = saved["undo"][b][d]
        /\ \A d \in Clip: \A n \in Nat: GoodBase(d, n) => GoodBase(d, n)'
    BY <1>12 DEF NoPut, GoodBase, PartAt, Latest
  <2>2. saved'["undo"][b][c] = saved["undo"][b][c] BY <1>12 DEF NoPut
  <2>3. op' \in Op /\ op'.stage = "restore" /\ op'.todo \subseteq Applied(op'.draft) /\ OpInv'
    BY <1>1, <1>12, <2>1, <2>2, UndoOutcomeKeepsOp
  <2>4. ApplyTypeOK' BY <1>1, <1>12, <2>3 DEF NoPut, ApplyInv, ApplyTypeOK
  <2>. QED BY <1>1, <1>12, <2>3, <2>4, QuietKeepsFacts DEF NoPut, ApplyInv
<1>13. CASE /\ saved["undo"][b][c] = 0 /\ Latest(c) = expected
            /\ history' = [history EXCEPT ![c] = Append(@, [part |-> before, by |-> By("undo", b)])]
            /\ saved' = [saved EXCEPT !["undo"][b][c] = expected + 1]
            /\ OpOf("restored")
  <2>1. PICK p \in Part: p = before BY <1>11
  <2>2. p = PartAt(c, expected - 1) BY <1>10, <2>1
  <2>3. history' = [history EXCEPT ![c] = Append(@, [part |-> p, by |-> By("undo", b)])]
    BY <1>13, <2>1
  <2>4. /\ FactsInv' /\ HandEditSurvives'
        /\ history' \in [Clip -> Seq(Revision)]
        /\ saved' \in [Kinds -> [Batch -> [Clip -> Nat]]]
        /\ saved'["undo"][b][c] = expected + 1
        /\ \A k \in Kinds, d \in Batch, e \in Clip:
              saved'[k][d][e] # saved[k][d][e] => k = "undo" /\ d = b /\ e = c
        /\ \A e \in Clip: \A m \in Nat: GoodBase(e, m) => GoodBase(e, m)'
    BY <1>1, <1>3, <1>5, <1>6, <1>7, <1>13, <2>2, <2>3, PutKeepsFacts, ZenonT(60)
  <2>5. /\ \A d \in Clip: saved'["apply"][b][d] = saved["apply"][b][d]
        /\ \A d \in Clip \ {c}: saved'["undo"][b][d] = saved["undo"][b][d]
    BY <1>5, <1>7, <2>4, ZenonT(30)
  <2>6. "restored" \in UndoOutcomes /\ saved'["undo"][b][c] # 0
    BY <1>3, <2>4 DEF UndoOutcomes
  <2>7. op' \in Op /\ op'.stage = "restore" /\ op'.todo \subseteq Applied(op'.draft) /\ OpInv'
    BY <1>1, <1>13, <2>4, <2>5, <2>6, UndoOutcomeKeepsOp
  <2>8. ApplyTypeOK' BY <1>1, <2>4, <2>7 DEF ApplyInv, ApplyTypeOK
  <2>. QED BY <2>4, <2>7, <2>8 DEF ApplyInv
<1>14. CASE Replays("undo", b, c)
  <2>1. "restored" \in UndoOutcomes BY SMTT(30) DEF UndoOutcomes
  <2>. QED BY <1>12, <1>14, <2>1
         DEF RestoreClip, Conflicts, Rejected, Replays, Put, NoPut, UndoBase
<1>15. CASE Conflicts("undo", b, c, expected)
  <2>1. "changed" \in UndoOutcomes BY SMTT(30) DEF UndoOutcomes
  <2>. QED BY <1>12, <1>15, <2>1 DEF RestoreClip, Conflicts, Rejected, Replays, UndoBase
<1>16. CASE Rejected("undo", b, c, expected, before)
  <2>1. "invalid" \in UndoOutcomes BY DEF UndoOutcomes
  <2>. QED BY <1>12, <1>16, <2>1 DEF RestoreClip, Conflicts, Rejected, Replays, UndoBase
<1>17. CASE /\ ~Replays("undo", b, c) /\ ~Conflicts("undo", b, c, expected)
            /\ ~Rejected("undo", b, c, expected, before)
  BY <1>13, <1>17 DEF RestoreClip, Conflicts, Replays, Put, UndoBase
<1>. QED BY <1>14, <1>15, <1>16, <1>17
-----------------------------------------------------------------------------
LEMMA StutterHolds == ASSUME ApplyInv, UNCHANGED vars PROVE ApplyInv'
<1>1. UNCHANGED <<history, saved, record>> /\ op' = op BY DEF vars
<1>2. FactsInv' /\ HandEditSurvives' BY <1>1, QuietKeepsFacts DEF ApplyInv
<1>3. ApplyTypeOK' BY <1>1 DEF ApplyInv, ApplyTypeOK
<1>4. OpInv'
  BY <1>1 DEF ApplyInv, OpInv, TrueRecord, GoodBase, PartAt, Latest, NotUndone, SamePlan,
              Reported, Restored
<1>. QED BY <1>2, <1>3, <1>4 DEF ApplyInv

LEMMA NextHolds == ASSUME ApplyInv, [Next]_vars PROVE ApplyInv'
<1>1. ASSUME NEW c \in Clip, NEW p \in Part, Edit(c, p) PROVE ApplyInv' BY <1>1, EditHolds
<1>2. ASSUME NEW b \in Batch, NEW source \in Clip, BeginApply(b, source) PROVE ApplyInv'
  BY <1>2, BeginApplyHolds
<1>3. ASSUME NEW c \in Clip, Classify(c) PROVE ApplyInv' BY <1>3, ClassifyHolds
<1>4. ASSUME NEW c \in Clip, WriteClip(c) PROVE ApplyInv' BY <1>4, WriteClipHolds
<1>5. ASSUME NEW c \in Clip, RestoreClip(c) PROVE ApplyInv' BY <1>5, RestoreClipHolds
<1>6. ASSUME NEW b \in Batch, ResumeApply(b) PROVE ApplyInv' BY <1>6, ResumeApplyHolds
<1>7. ASSUME NEW b \in Batch, BeginUndo(b) PROVE ApplyInv' BY <1>7, BeginUndoHolds
<1>8. CASE WriteRecord \/ FinishApply \/ FinishUndo \/ Kill
  BY <1>8, WriteRecordHolds, FinishApplyHolds, FinishUndoHolds, KillHolds
<1>9. CASE UNCHANGED vars BY <1>9, StutterHolds
<1>. QED BY <1>1, <1>2, <1>3, <1>4, <1>5, <1>6, <1>7, <1>8, <1>9 DEF Next

LEMMA ApplyInvariant == Spec => []ApplyInv
<1>1. Init => ApplyInv BY InitHolds
<1>2. ApplyInv /\ [Next]_vars => ApplyInv' BY NextHolds
<1>. QED BY <1>1, <1>2, PTL DEF Spec

(* Every reachable record and request is well typed, and a request saves   *)
(* only what was planned and restores only what was applied.               *)
THEOREM ApplyTypeCorrect == Spec => []ApplyTypeOK
<1>1. ApplyInv => ApplyTypeOK BY DEF ApplyInv
<1>. QED BY <1>1, ApplyInvariant, PTL

(* No batch replaces settings that a person chose in the editor.           *)
THEOREM HandEditsSurvive == Spec => []HandEditSurvives
<1>1. ApplyInv => HandEditSurvives BY DEF ApplyInv
<1>. QED BY <1>1, ApplyInvariant, PTL

(* What a finished batch reports of each clip is what its history shows.   *)
THEOREM ReportIsTrue == Spec => []ReportedIsApplied
<1>1. ASSUME ApplyInv PROVE ReportedIsApplied
  <2>. SUFFICES ASSUME NEW b \in Batch, NEW c \in Clip, record[b].state \in {"done", "undone"}
                PROVE  IF record[b].outcome[c] = "applied"
                       THEN /\ ByBatch("apply", b, c) = {record[b].after[c]}
                            /\ record[b].after[c] = record[b].from[c] + 1
                            /\ PartAt(c, record[b].after[c]) = record[b].value
                       ELSE ByBatch("apply", b, c) = {}
    BY DEF ReportedIsApplied
  <2>. DEFINE s == saved["apply"][b][c]
  <2>1. "apply" \in Kinds /\ Latest(c) \in Nat BY <1>1 DEF Kinds, ApplyInv, ApplyTypeOK, Latest
  <2>2. s \in 0..Latest(c) /\ \A i \in 1..Latest(c): history[c][i].by = By("apply", b) <=> s = i
    BY <1>1, <2>1 DEF ApplyInv, FactsInv, KeyInv
  <2>3. CASE record[b].outcome[c] = "applied"
    <3>1. s # 0 /\ record[b].after[c] = s
      BY <1>1, <2>3 DEF ApplyInv, FactsInv, RecordInv, TrueRecord
    <3>2. s = record[b].from[c] + 1 /\ PartAt(c, s) = record[b].value
      BY <1>1, <3>1 DEF ApplyInv, FactsInv, AppliedInv
    <3>3. ByBatch("apply", b, c) = {s} BY <2>1, <2>2, <3>1 DEF ByBatch, Latest
    <3>. QED BY <2>3, <3>1, <3>2, <3>3
  <2>4. CASE record[b].outcome[c] # "applied"
    <3>1. s = 0 BY <1>1, <2>4 DEF ApplyInv, FactsInv, RecordInv, Reported
    <3>2. ByBatch("apply", b, c) = {} BY <2>2, <3>1 DEF ByBatch, Latest
    <3>. QED BY <2>4, <3>2
  <2>. QED BY <2>3, <2>4
<1>. QED BY <1>1, ApplyInvariant, PTL

(* An undo takes back its own batch's revision and nothing else.           *)
THEOREM UndoIsExact == Spec => []UndoRestores
<1>1. ASSUME ApplyInv PROVE UndoRestores
  <2>. SUFFICES ASSUME NEW b \in Batch, NEW c \in Clip
                PROVE  /\ \A i \in ByBatch("undo", b, c):
                             /\ i > 1 /\ history[c][i-1].by = By("apply", b)
                             /\ PartAt(c, i) = PartAt(c, i-2)
                       /\ record[b].state = "undone" =>
                             (record[b].undo[c] = "restored" <=> ByBatch("undo", b, c) # {})
    BY DEF UndoRestores
  <2>. DEFINE s == saved["apply"][b][c]
              u == saved["undo"][b][c]
  <2>1. "apply" \in Kinds /\ "undo" \in Kinds /\ Latest(c) \in Nat
    BY <1>1 DEF Kinds, ApplyInv, ApplyTypeOK, Latest
  <2>2. /\ s \in 0..Latest(c) /\ u \in 0..Latest(c)
        /\ \A i \in 1..Latest(c): history[c][i].by = By("apply", b) <=> s = i
        /\ \A i \in 1..Latest(c): history[c][i].by = By("undo", b) <=> u = i
    BY <1>1, <2>1 DEF ApplyInv, FactsInv, KeyInv
  <2>3. ByBatch("undo", b, c) = {i \in 1..Latest(c): history[c][i].by = By("undo", b)}
    BY DEF ByBatch, Latest
  <2>. HIDE DEF s, u
  <2>4. CASE u = 0
    <3>1. ByBatch("undo", b, c) = {} BY <2>2, <2>3, <2>4
    <3>. QED BY <1>1, <2>4, <3>1 DEF ApplyInv, FactsInv, RecordInv, Restored, u
  <2>5. CASE u # 0
    <3>1. s # 0 /\ u = s + 1 /\ PartAt(c, u) = PartAt(c, s - 1)
      BY <1>1, <2>5 DEF ApplyInv, FactsInv, UndoneInv, s, u
    <3>2. s \in 1..Latest(c) /\ u > 1 /\ u - 1 = s /\ u - 2 = s - 1 BY <2>1, <2>2, <3>1
    <3>3. history[c][s].by = By("apply", b) BY <2>2, <3>2
    <3>4. ByBatch("undo", b, c) = {u} BY <2>1, <2>2, <2>3, <2>5
    <3>5. record[b].state = "undone" => record[b].undo[c] = "restored"
      BY <1>1, <2>5 DEF ApplyInv, FactsInv, RecordInv, Restored, u
    <3>. QED BY <3>1, <3>2, <3>3, <3>4, <3>5
  <2>. QED BY <2>4, <2>5
<1>. QED BY <1>1, ApplyInvariant, PTL
=============================================================================
