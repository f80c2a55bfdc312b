--------------------------- MODULE DocStoreProofs ---------------------------
(* Proofs about DocStore: its type invariant, that answered saves are kept, *)
(* that retries find their revision, and that it implements EditRegister.   *)
(* The argument is the invariant DocInv: everything a power loss may bring  *)
(* back is an ancestor of the current revision and a descendant of every    *)
(* save that was answered after its fsyncs; every file is a revision that   *)
(* a save put in place; and the save under way, like every receipt, makes   *)
(* the child of the revision it names.  Without power losses RetryInv adds that *)
(* only newer receipts push a receipt out, and that keys are used once.     *)
EXTENDS DocStore, TLAPS, SequenceTheorems, FiniteSetTheorems

(* result is a revision made on the one that payload names.                *)
Extends(payload, result) ==
    \E at \in At(payload.expected)+1..At(payload.expected)+Ahead:
        result = Append(payload.expected, [body |-> payload.body, at |-> at])

Unpublished == {"staged", "pending", "linked"}
DiskInv ==
    /\ \A d \in docDisk: Precedes(d, doc)
    /\ \A e \in acked, d \in docDisk: Precedes(e, d)
Made == {w.result: w \in written}
MadeInv ==
    /\ docDisk \subseteq Made \union {Seed}
    /\ archive \union archiveBack \subseteq Made
PutInv ==
    put # None =>
        /\ put.phase \in {"pending", "linked", "renamed"} => receipts[put.key] # None
        /\ IF put.phase \in Unpublished
           THEN put.payload.expected = doc /\ Extends(put.payload, put.result)
           ELSE /\ doc = put.result
                /\ [key |-> put.key, payload |-> put.payload, result |-> put.result] \in written
ReceiptInv ==
    \A k \in Key: \A r \in receiptDisk[k]: r # None => Extends(r.payload, r.result)
DocInv == DocTypeOK /\ DiskInv /\ MadeInv /\ PutInv /\ ReceiptInv
-----------------------------------------------------------------------------
(* Facts about lineages.                                                   *)

LEMMA PrecedesItself ==
    ASSUME NEW e \in Register!Etag PROVE Precedes(e, e)
BY DEF Precedes, Register!Precedes, Register!Etag

LEMMA PrecedesChild ==
    ASSUME NEW e \in Register!Etag, NEW f \in Register!Etag,
           NEW x \in [body: Body, at: Nat], Precedes(e, f)
    PROVE  Precedes(e, Append(f, x))
BY DEF Precedes, Register!Precedes, Register!Etag

(* An ancestor is a prefix.                                                *)
LEMMA AncestorIsPrefix ==
    ASSUME NEW e \in Register!Etag, NEW f \in Register!Etag, Precedes(e, f)
    PROVE  /\ Len(e) \in 0..Len(f)
           /\ e = SubSeq(f, 1, Len(e))
<1>. DEFINE S == [body: Body, at: Nat]
            g == SubSeq(f, 1, Len(e))
<1>1. e \in Seq(S) /\ f \in Seq(S) BY DEF Register!Etag
<1>. HIDE DEF S
<1>2. Len(e) \in 0..Len(f) /\ \A i \in 1..Len(e): e[i] = f[i]
  BY <1>1 DEF Precedes, Register!Precedes
<1>3. \A i \in 1..Len(e): f[i] \in S BY <1>1, <1>2, ElementOfSeq
<1>4. /\ g \in Seq(S)
      /\ Len(g) = IF 1 <= Len(e) THEN Len(e)-1+1 ELSE 0
      /\ \A i \in 1..Len(e)-1+1: g[i] = f[1+i-1]
  <2>1. 1 \in Int /\ Len(e) \in Int BY <1>2
  <2>. QED BY <2>1, <1>3, SubSeqProperties, SMT
<1>5. Len(g) = Len(e) /\ \A i \in 1..Len(e): e[i] = g[i] BY <1>2, <1>4
<1>6. e = g BY <1>1, <1>4, <1>5, SeqEqual
<1>. QED BY <1>2, <1>6

LEMMA StampIsNatural == ASSUME NEW e \in Register!Etag PROVE At(e) \in Nat
<1>. DEFINE S == [body: Body, at: Nat]
<1>1. CASE e = Seed BY <1>1 DEF At, Register!At, Seed
<1>2. CASE e # Seed
  <2>1. e \in Seq(S) BY DEF Register!Etag
  <2>2. Len(e) \in 1..Len(e) BY <2>1, <1>2, EmptySeq DEF Seed, Register!Seed
  <2>3. e[Len(e)] \in S BY <2>1, <2>2, ElementOfSeq
  <2>. QED BY <1>2, <2>3 DEF At, Register!At, Seed
<1>. QED BY <1>1, <1>2

(* A child is a revision whose parent is its beginning.                    *)
LEMMA ChildIsRevision ==
    ASSUME NEW p \in Register!Payload, NEW result, Extends(p, result)
    PROVE  /\ result \in Register!Etag
           /\ \E x \in [body: Body, at: Nat]: result = Append(p.expected, x)
<1>1. PICK at \in At(p.expected)+1..At(p.expected)+Ahead:
          result = Append(p.expected, [body |-> p.body, at |-> at]) BY DEF Extends
<1>2. p.expected \in Register!Etag /\ p.body \in Body BY DEF Register!Payload
<1>3. at \in Nat BY <1>2, StampIsNatural, BoundAssumption
<1>4. [body |-> p.body, at |-> at] \in [body: Body, at: Nat] BY <1>2, <1>3
<1>. QED BY <1>1, <1>2, <1>4 DEF Register!Etag

LEMMA ChildIsNoSeed ==
    ASSUME NEW p \in Register!Payload, NEW result, Extends(p, result)
    PROVE  result # Seed
<1>1. PICK x \in [body: Body, at: Nat]: result = Append(p.expected, x) BY ChildIsRevision
<1>2. p.expected \in Seq([body: Body, at: Nat]) BY DEF Register!Payload, Register!Etag
<1>3. Len(result) = Len(p.expected) + 1 /\ Len(p.expected) \in Nat BY <1>1, <1>2
<1>4. Len(<<>>) = 0 OBVIOUS
<1>. QED BY <1>3, <1>4 DEF Seed, Register!Seed
-----------------------------------------------------------------------------
(* Pruning a folder of receipts d leaves receipts of d.                    *)
LEMMA PruneKeepsTypes ==
    ASSUME NEW r \in [Key -> Receipt \union {None}],
           NEW d \in [Key -> SUBSET (Receipt \union {None})],
           \A k \in Key: r[k] \in d[k],
           Prune(r, d)
    PROVE  /\ receipts' \in [Key -> Receipt \union {None}]
           /\ receiptDisk' \in [Key -> SUBSET (Receipt \union {None})]
           /\ \A k \in Key: receipts'[k] \in receiptDisk'[k]
           /\ \A k \in Key: receiptDisk'[k] \subseteq d[k] \union {None}
<1>1. PICK K \in SUBSET Committed(r):
          /\ receipts' = [k \in Key |-> IF k \in Committed(r) \ K THEN None ELSE r[k]]
          /\ receiptDisk' = [k \in Key |-> IF k \in Committed(r) \ K THEN d[k] \union {None}
                                                                     ELSE d[k]]
  BY DEF Prune
<1>. QED BY <1>1

(* Committing a receipt changes its state and no revision.                 *)
LEMMA CommitKeepsReceipts ==
    ASSUME DocTypeOK, ReceiptInv, NEW k \in Key, receipts[k] # None, Commit(k)
    PROVE  /\ receipts' \in [Key -> Receipt \union {None}]
           /\ receiptDisk' \in [Key -> SUBSET (Receipt \union {None})]
           /\ \A j \in Key: receipts'[j] \in receiptDisk'[j]
           /\ ReceiptInv'
<1>. DEFINE r == [receipts[k] EXCEPT !.state = "committed"]
            R == [receipts EXCEPT ![k] = r]
            D == [receiptDisk EXCEPT ![k] = @ \union {r, None}]
<1>1. receipts[k] \in Receipt /\ receipts[k] \in receiptDisk[k] BY DEF DocTypeOK
<1>2. r \in Receipt /\ r.payload = receipts[k].payload /\ r.result = receipts[k].result
  BY <1>1 DEF Receipt, States
<1>3. Extends(r.payload, r.result) BY <1>1, <1>2 DEF ReceiptInv
<1>. HIDE DEF r
<1>4. /\ R \in [Key -> Receipt \union {None}]
      /\ D \in [Key -> SUBSET (Receipt \union {None})]
      /\ \A j \in Key: R[j] \in D[j]
      /\ \A j \in Key: D[j] \subseteq receiptDisk[j] \union {r, None}
  BY <1>2 DEF DocTypeOK
<1>5. Prune(R, D) BY DEF Commit, r
<1>. HIDE DEF R, D
<1>6. /\ receipts' \in [Key -> Receipt \union {None}]
      /\ receiptDisk' \in [Key -> SUBSET (Receipt \union {None})]
      /\ \A j \in Key: receipts'[j] \in receiptDisk'[j]
      /\ \A j \in Key: receiptDisk'[j] \subseteq D[j] \union {None}
  BY <1>4, <1>5, PruneKeepsTypes
<1>7. ReceiptInv'
  <2>. SUFFICES ASSUME NEW j \in Key, NEW s \in receiptDisk'[j], s # None
                PROVE  Extends(s.payload, s.result)
    BY DEF ReceiptInv, Extends, At, Register!At, Seed
  <2>. s \in receiptDisk[j] \union {r} BY <1>4, <1>6
  <2>. QED BY <1>3 DEF ReceiptInv
<1>. QED BY <1>6, <1>7

(* What the save under way makes is a child of the revision it names.      *)
LEMMA SaveIsTyped ==
    ASSUME DocTypeOK, put # None
    PROVE  /\ put \in Save /\ put.key \in Key
           /\ put.payload \in Register!Payload /\ put.result \in Register!Etag
           /\ put.phase \in Phases
           /\ [key |-> put.key, payload |-> put.payload, result |-> put.result]
                 \in Register!Written
BY DEF DocTypeOK, Save, Register!Written

LEMMA InitHolds == ASSUME Init PROVE DocInv
<1>1. Seed \in Register!Etag /\ Precedes(Seed, Seed)
  BY EmptySeq, PrecedesItself DEF Seed, Register!Seed, Register!Etag
<1>2. 0 \in 0..MaxPowerLosses BY BoundAssumption
<1>. QED BY <1>1, <1>2 DEF Init, DocInv, DocTypeOK, DiskInv, MadeInv, PutInv, ReceiptInv

(* Starting a save: only put changes, and what it makes is a child.        *)
LEMMA StartHolds ==
    ASSUME DocInv, NEW k \in Key, NEW p \in Register!Payload, NEW result,
           p.expected = doc, Extends(p, result), Starts(k, p, result),
           UNCHANGED <<files, disk, written, answers, powerLosses>>
    PROVE  DocInv'
<1>1. put' \in Save
  BY ChildIsRevision DEF Starts, Save, Phases
<1>2. DocTypeOK' BY <1>1 DEF DocInv, DocTypeOK, files, disk, answers
<1>3. DiskInv' /\ MadeInv'
  BY DEF DocInv, DiskInv, MadeInv, Made, files, disk, answers, Precedes, Seed
<1>4. put'.phase = "staged" /\ put'.phase \in Unpublished BY DEF Starts, Unpublished
<1>5. Extends(p, result)' BY DEF Extends, At, Register!At, Seed
<1>6. PutInv' BY <1>4, <1>5 DEF PutInv, Starts, files
<1>7. ReceiptInv' BY DEF DocInv, ReceiptInv, disk
<1>. QED BY <1>2, <1>3, <1>6, <1>7 DEF DocInv

LEMMA BeginSaveHolds ==
    ASSUME DocInv, NEW k \in Key, NEW b \in Body,
           NEW at \in At(doc)+1..At(doc)+Ahead, BeginSave(k, b, at)
    PROVE  DocInv'
<1>. DEFINE p == [expected |-> doc, body |-> b]
            result == Append(doc, [body |-> b, at |-> at])
<1>1. p \in Register!Payload BY DEF DocInv, DocTypeOK, Register!Payload
<1>2. Extends(p, result) BY DEF Extends
<1>3. Starts(k, p, result) /\ UNCHANGED <<files, disk, written, answers, powerLosses>>
  BY DEF BeginSave
<1>. QED BY <1>1, <1>2, <1>3, StartHolds

LEMMA ResumeSaveHolds ==
    ASSUME DocInv, NEW k \in Key, ResumeSave(k) PROVE DocInv'
<1>. DEFINE r == receipts[k]
<1>1. r \in Receipt /\ r \in receiptDisk[k] /\ r # None
  BY DEF ResumeSave, DocInv, DocTypeOK
<1>2. r.payload \in Register!Payload BY <1>1 DEF Receipt
<1>3. Extends(r.payload, r.result) BY <1>1 DEF DocInv, ReceiptInv
<1>4. /\ r.payload.expected = doc /\ Starts(k, r.payload, r.result)
      /\ UNCHANGED <<files, disk, written, answers, powerLosses>>
  BY DEF ResumeSave
<1>. QED BY <1>2, <1>3, <1>4, StartHolds

LEMMA RenamePendingHolds == ASSUME DocInv, RenamePending PROVE DocInv'
<1>. DEFINE r == [payload |-> put.payload, state |-> "pending", result |-> put.result]
<1>1. put.phase = "staged" /\ put # None BY DEF RenamePending
<1>2. r \in Receipt BY <1>1, SaveIsTyped DEF DocInv, Receipt, States
<1>3. Extends(put.payload, put.result) BY <1>1 DEF DocInv, PutInv, Unpublished
<1>. HIDE DEF r
<1>4. /\ receipts' = [receipts EXCEPT ![put.key] = r]
      /\ receiptDisk' = [receiptDisk EXCEPT ![put.key] = @ \union {r}]
  BY DEF RenamePending, r
<1>5. put' \in Save /\ put' = [put EXCEPT !.phase = "pending"]
  BY <1>1, SaveIsTyped DEF RenamePending, DocInv, Save, Phases
<1>6. DocTypeOK'
  <2>1. put.key \in Key BY <1>1, SaveIsTyped DEF DocInv
  <2>2. /\ receipts' \in [Key -> Receipt \union {None}]
        /\ receiptDisk' \in [Key -> SUBSET (Receipt \union {None})]
        /\ \A k \in Key: receipts'[k] \in receiptDisk'[k]
    BY <1>2, <1>4, <2>1 DEF DocInv, DocTypeOK
  <2>. QED BY <1>5, <2>2 DEF RenamePending, DocInv, DocTypeOK, answers
<1>7. DiskInv' /\ MadeInv'
  BY DEF RenamePending, DocInv, DiskInv, MadeInv, Made, Precedes, answers, Seed
<1>8. PutInv'
  <2>1. /\ put'.phase \in Unpublished
        /\ put'.payload = put.payload /\ put'.result = put.result
    BY <1>1, <1>5, SaveIsTyped DEF DocInv, Save, Unpublished
  <2>2. put.payload.expected = doc BY <1>1 DEF DocInv, PutInv, Unpublished
  <2>3. receipts'[put'.key] # None
    BY <1>1, <1>2, <1>4, <1>5, SaveIsTyped, NoneAssumption DEF DocInv, DocTypeOK, Save
  <2>. QED BY <1>3, <2>1, <2>2, <2>3 DEF PutInv, RenamePending, Extends, At, Register!At, Seed
<1>9. ReceiptInv'
  <2>. SUFFICES ASSUME NEW k \in Key, NEW s \in receiptDisk'[k], s # None
                PROVE  Extends(s.payload, s.result)
    BY DEF ReceiptInv, Extends, At, Register!At, Seed
  <2>1. s \in receiptDisk[k] \union {r} BY <1>4 DEF DocInv, DocTypeOK
  <2>2. r.payload = put.payload /\ r.result = put.result BY DEF r
  <2>. QED BY <1>3, <2>1, <2>2 DEF DocInv, ReceiptInv
<1>. QED BY <1>6, <1>7, <1>8, <1>9 DEF DocInv

LEMMA LinkArchiveHolds == ASSUME DocInv, LinkArchive PROVE DocInv'
<1>1. put # None /\ put.phase = "pending" BY DEF LinkArchive
<1>2. put \in Save BY <1>1, SaveIsTyped DEF DocInv
<1>3. PICK links \in BOOLEAN: put' = [put EXCEPT !.phase = "linked", !.links = links]
  BY DEF LinkArchive
<1>4. /\ put' \in Save /\ put'.phase \in Unpublished
      /\ put'.payload = put.payload /\ put'.result = put.result /\ put'.key = put.key
  BY <1>2, <1>3 DEF Save, Phases, Unpublished
<1>5. archive \subseteq archive' /\ archive' \subseteq archive \union ({doc} \ {Seed})
  BY DEF LinkArchive
<1>6. DocTypeOK' BY <1>4, <1>5 DEF LinkArchive, disk, answers, DocInv, DocTypeOK
<1>7. DiskInv' /\ MadeInv'
  <2>1. doc \in docDisk BY DEF DocInv, DocTypeOK
  <2>. QED BY <1>5, <2>1
       DEF LinkArchive, disk, answers, DocInv, DiskInv, MadeInv, Made, Precedes, Seed
<1>8. put.payload.expected = doc /\ Extends(put.payload, put.result)
  BY <1>1 DEF DocInv, PutInv, Unpublished
<1>9. PutInv' BY <1>1, <1>4, <1>8 DEF DocInv, PutInv, LinkArchive, Extends, At, Register!At, Seed
<1>10. ReceiptInv' BY DEF LinkArchive, disk, DocInv, ReceiptInv, Extends, At, Register!At, Seed
<1>. QED BY <1>6, <1>7, <1>9, <1>10 DEF DocInv

(* The rename of the document: its child becomes current.                  *)
LEMMA RenameDocHolds == ASSUME DocInv, RenameDoc PROVE DocInv'
<1>1. put # None /\ put.phase = "linked" BY DEF RenameDoc
<1>2. /\ put \in Save /\ put.payload \in Register!Payload /\ put.result \in Register!Etag
      /\ [key |-> put.key, payload |-> put.payload, result |-> put.result] \in Register!Written
  BY <1>1, SaveIsTyped DEF DocInv
<1>3. put.payload.expected = doc /\ Extends(put.payload, put.result)
  BY <1>1 DEF DocInv, PutInv, Unpublished
<1>4. PICK x \in [body: Body, at: Nat]: put.result = Append(doc, x)
  BY <1>2, <1>3, ChildIsRevision
<1>5. /\ put' \in Save /\ put'.phase = "renamed" /\ put'.key = put.key
      /\ put'.payload = put.payload /\ put'.result = put.result
  BY <1>2 DEF RenameDoc, Save, Phases
<1>6. DocTypeOK' BY <1>2, <1>5 DEF RenameDoc, DocInv, DocTypeOK, answers
<1>7. DiskInv' /\ MadeInv'
  <2>1. doc \in Register!Etag /\ docDisk \subseteq Register!Etag /\ doc \in docDisk
        /\ acked \subseteq Register!Etag
    BY DEF DocInv, DocTypeOK, Register!Written
  <2>2. \A e \in Register!Etag: Precedes(e, doc) => Precedes(e, put.result)
    BY <1>4, <2>1, PrecedesChild
  <2>3. Precedes(put.result, put.result) BY <1>2, PrecedesItself
  <2>4. DiskInv'
    BY <2>1, <2>2, <2>3 DEF RenameDoc, DocInv, DiskInv, Precedes, answers
  <2>5. Made \union {put.result} \subseteq Made'
    <3>. DEFINE v == [key |-> put.key, payload |-> put.payload, result |-> put.result]
    <3>1. written' = written \union {v} /\ v.result = put.result BY DEF RenameDoc
    <3>. HIDE DEF v
    <3>. QED BY <3>1 DEF Made
  <2>. QED BY <2>4, <2>5 DEF RenameDoc, DocInv, MadeInv, Seed
<1>8. PutInv' BY <1>1, <1>5 DEF DocInv, PutInv, RenameDoc, Unpublished
<1>9. ReceiptInv' BY DEF RenameDoc, DocInv, ReceiptInv, Extends, At, Register!At, Seed
<1>. QED BY <1>6, <1>7, <1>8, <1>9 DEF DocInv

LEMMA CommitReceiptHolds == ASSUME DocInv, CommitReceipt PROVE DocInv'
<1>1. put # None /\ put.phase = "renamed" BY DEF CommitReceipt
<1>2. put \in Save /\ put.key \in Key BY <1>1, SaveIsTyped DEF DocInv
<1>3. /\ put' \in Save /\ put'.phase = "committed" /\ put'.key = put.key
      /\ put'.payload = put.payload /\ put'.result = put.result
  BY <1>2 DEF CommitReceipt, Save, Phases
<1>4. Commit(put.key) BY DEF CommitReceipt
<1>5. receipts[put.key] # None BY <1>1 DEF DocInv, PutInv
<1>6. /\ receipts' \in [Key -> Receipt \union {None}]
      /\ receiptDisk' \in [Key -> SUBSET (Receipt \union {None})]
      /\ \A j \in Key: receipts'[j] \in receiptDisk'[j]
      /\ ReceiptInv'
  BY <1>2, <1>4, <1>5, CommitKeepsReceipts DEF DocInv
<1>7. DocTypeOK' BY <1>3, <1>6 DEF CommitReceipt, DocInv, DocTypeOK, answers
<1>8. DiskInv' /\ MadeInv'
  BY DEF CommitReceipt, DocInv, DiskInv, MadeInv, Made, Precedes, answers, Seed
<1>9. PutInv' BY <1>1, <1>3 DEF DocInv, PutInv, CommitReceipt, Unpublished
<1>. QED BY <1>6, <1>7, <1>8, <1>9 DEF DocInv

(* The answer: what the directories hold is now certain.                   *)
LEMMA ReturnHolds == ASSUME DocInv, Return PROVE DocInv'
<1>1. put # None /\ put.phase = "committed" BY DEF Return
<1>. DEFINE w == [key |-> put.key, payload |-> put.payload, result |-> put.result]
<1>2. put.result = doc /\ w \in written
  BY <1>1 DEF DocInv, PutInv, Unpublished
<1>3. doc \in Made /\ told' = told \union {doc} /\ acked' = acked \union {doc}
  BY <1>2 DEF Return, Answered, Made
<1>. HIDE DEF w
<1>4. /\ docDisk' = {doc} /\ put' = None /\ UNCHANGED <<doc, archive, receipts, written, powerLosses>>
      /\ archiveDisk' \subseteq archive /\ archiveBack' \subseteq archiveBack
  BY DEF Return, Answered, files, DocInv, DocTypeOK
<1>5. \A k \in Key: receiptDisk'[k] \subseteq receiptDisk[k] /\ receipts[k] \in receiptDisk'[k]
  BY DEF Return, DocInv, DocTypeOK
<1>6. receiptDisk' \in [Key -> SUBSET (Receipt \union {None})]
  BY DEF Return, DocInv, DocTypeOK
<1>7. DocTypeOK' BY <1>2, <1>3, <1>4, <1>5, <1>6 DEF DocInv, DocTypeOK, Made
<1>8. DiskInv' /\ MadeInv'
  <2>1. Precedes(doc, doc) BY PrecedesItself DEF DocInv, DocTypeOK
  <2>2. \A e \in acked: Precedes(e, doc) BY DEF DocInv, DiskInv, DocTypeOK
  <2>3. DiskInv' BY <1>3, <1>4, <2>1, <2>2 DEF DiskInv, Precedes
  <2>. QED BY <1>3, <1>4, <2>3 DEF DocInv, MadeInv, Made, Seed
<1>9. PutInv' BY <1>4 DEF PutInv
<1>10. ReceiptInv' BY <1>5 DEF DocInv, ReceiptInv, Extends, At, Register!At, Seed
<1>. QED BY <1>7, <1>8, <1>9, <1>10 DEF DocInv

(* What a retry finds published is a revision that a save put in place.    *)
LEMMA PublishedIsMade ==
    ASSUME DocInv, NEW k \in Key, receipts[k] # None, Published(receipts[k].result)
    PROVE  receipts[k].result \in Made
<1>. DEFINE r == receipts[k]
<1>1. r \in Receipt /\ r \in receiptDisk[k] /\ doc \in docDisk BY DEF DocInv, DocTypeOK
<1>2. r.payload \in Register!Payload /\ Extends(r.payload, r.result)
  BY <1>1 DEF Receipt, DocInv, ReceiptInv
<1>3. r.result # Seed BY <1>2, ChildIsNoSeed
<1>. QED BY <1>1, <1>3 DEF DocInv, MadeInv, Published

LEMMA ReconcileHolds == ASSUME DocInv, NEW k \in Key, Reconcile(k) PROVE DocInv'
<1>1. receipts[k] # None /\ Published(receipts[k].result) /\ Commit(k) BY DEF Reconcile
<1>2. /\ receipts' \in [Key -> Receipt \union {None}]
      /\ receiptDisk' \in [Key -> SUBSET (Receipt \union {None})]
      /\ \A j \in Key: receipts'[j] \in receiptDisk'[j]
      /\ ReceiptInv'
  BY <1>1, CommitKeepsReceipts DEF DocInv
<1>3. receipts[k].result \in Made BY <1>1, PublishedIsMade
<1>4. DocTypeOK' BY <1>2, <1>3 DEF Reconcile, Tell, DocInv, DocTypeOK, Made
<1>5. DiskInv' /\ MadeInv'
  BY DEF Reconcile, Tell, DocInv, DiskInv, MadeInv, Made, Precedes, Seed
<1>6. PutInv' BY DEF Reconcile, PutInv
<1>. QED BY <1>2, <1>4, <1>5, <1>6 DEF DocInv

LEMMA ReplayHolds == ASSUME DocInv, NEW k \in Key, Replay(k) PROVE DocInv'
<1>1. receipts[k].result \in Made BY PublishedIsMade DEF Replay
<1>2. DocTypeOK' BY <1>1 DEF Replay, Tell, files, disk, DocInv, DocTypeOK, Made
<1>3. DiskInv' /\ MadeInv'
  BY DEF Replay, Tell, files, disk, DocInv, DiskInv, MadeInv, Made, Precedes, Seed
<1>4. PutInv' BY DEF Replay, PutInv
<1>5. ReceiptInv' BY DEF Replay, disk, DocInv, ReceiptInv, Extends, At, Register!At, Seed
<1>. QED BY <1>2, <1>3, <1>4, <1>5 DEF DocInv

LEMMA ArchiveForRenderHolds == ASSUME DocInv, ArchiveForRender PROVE DocInv'
<1>1. DocTypeOK' BY DEF ArchiveForRender, DocInv, DocTypeOK, answers
<1>2. DiskInv' /\ MadeInv'
  <2>1. doc \in docDisk BY DEF DocInv, DocTypeOK
  <2>. QED BY <2>1
       DEF ArchiveForRender, DocInv, DiskInv, MadeInv, Made, Precedes, answers, Seed
<1>3. PutInv' BY DEF ArchiveForRender, PutInv
<1>4. ReceiptInv'
  BY DEF ArchiveForRender, DocInv, ReceiptInv, Extends, At, Register!At, Seed
<1>. QED BY <1>1, <1>2, <1>3, <1>4 DEF DocInv

LEMMA PruneArchivesHolds == ASSUME DocInv, PruneArchives PROVE DocInv'
<1>1. PICK gone \in SUBSET archive:
          /\ archive' = archive \ gone
          /\ archiveDisk' = archiveDisk \ gone
          /\ archiveBack' = archiveBack \union gone
  BY DEF PruneArchives
<1>2. DocTypeOK' BY <1>1 DEF PruneArchives, DocInv, DocTypeOK, answers
<1>3. DiskInv' BY DEF PruneArchives, DocInv, DiskInv, Precedes, answers
<1>4. MadeInv' BY <1>1 DEF PruneArchives, DocInv, MadeInv, Made, Seed
<1>5. PutInv' BY DEF PruneArchives, PutInv
<1>6. ReceiptInv' BY DEF PruneArchives, DocInv, ReceiptInv, Extends, At, Register!At, Seed
<1>. QED BY <1>2, <1>3, <1>4, <1>5, <1>6 DEF DocInv

LEMMA KillHolds == ASSUME DocInv, Kill PROVE DocInv'
<1>1. DocTypeOK' BY DEF Kill, files, disk, answers, DocInv, DocTypeOK
<1>2. DiskInv' /\ MadeInv'
  BY DEF Kill, files, disk, answers, DocInv, DiskInv, MadeInv, Made, Precedes, Seed
<1>3. PutInv' BY DEF Kill, PutInv
<1>4. ReceiptInv' BY DEF Kill, files, disk, DocInv, ReceiptInv, Extends, At, Register!At, Seed
<1>. QED BY <1>1, <1>2, <1>3, <1>4 DEF DocInv

(* A power loss brings back what the disk may hold.                        *)
LEMMA PowerLossHolds == ASSUME DocInv, PowerLoss PROVE DocInv'
<1>1. /\ doc' \in docDisk /\ docDisk' = {doc'} /\ archiveDisk' = archive' /\ put' = None
      /\ archive' \subseteq archive \union archiveBack /\ archiveBack' = {}
      /\ UNCHANGED <<written, answers>>
  BY DEF PowerLoss
<1>2. powerLosses' \in 0..MaxPowerLosses
  BY BoundAssumption DEF PowerLoss, DocInv, DocTypeOK
<1>3. /\ \A k \in Key: receipts'[k] \in receiptDisk[k]
      /\ receiptDisk' = [k \in Key |-> {receipts'[k]}]
      /\ receipts' \in [Key -> UNION {receiptDisk[k]: k \in Key}]
  BY DEF PowerLoss
<1>4. /\ receipts' \in [Key -> Receipt \union {None}]
      /\ receiptDisk' \in [Key -> SUBSET (Receipt \union {None})]
      /\ \A k \in Key: receipts'[k] \in receiptDisk'[k]
  BY <1>3 DEF DocInv, DocTypeOK
<1>5. DocTypeOK' BY <1>1, <1>2, <1>4 DEF DocInv, DocTypeOK, answers
<1>6. DiskInv' /\ MadeInv'
  <2>1. Precedes(doc', doc') BY <1>1, PrecedesItself DEF DocInv, DocTypeOK
  <2>2. DiskInv' BY <1>1, <2>1 DEF DocInv, DiskInv, Precedes, answers
  <2>. QED BY <1>1, <2>2 DEF DocInv, MadeInv, Made, Seed
<1>7. PutInv' BY <1>1 DEF PutInv
<1>8. ReceiptInv' BY <1>3 DEF DocInv, ReceiptInv, Extends, At, Register!At, Seed
<1>. QED BY <1>5, <1>6, <1>7, <1>8 DEF DocInv

LEMMA StutterHolds == ASSUME DocInv, UNCHANGED vars PROVE DocInv'
<1>1. DocTypeOK' BY DEF vars, files, disk, answers, DocInv, DocTypeOK
<1>2. DiskInv' /\ MadeInv'
  BY DEF vars, files, disk, answers, DocInv, DiskInv, MadeInv, Made, Precedes, Seed
<1>3. PutInv' BY DEF vars, files, DocInv, PutInv, Extends, At, Register!At, Seed
<1>4. ReceiptInv' BY DEF vars, disk, DocInv, ReceiptInv, Extends, At, Register!At, Seed
<1>. QED BY <1>1, <1>2, <1>3, <1>4 DEF DocInv

LEMMA NextHolds == ASSUME DocInv, [Next]_vars PROVE DocInv'
<1>1. ASSUME NEW k \in Key, NEW b \in Body, NEW at \in At(doc)+1..At(doc)+Ahead,
             BeginSave(k, b, at)
      PROVE  DocInv'
  BY <1>1, BeginSaveHolds
<1>2. ASSUME NEW k \in Key, ResumeSave(k) PROVE DocInv' BY <1>2, ResumeSaveHolds
<1>3. ASSUME NEW k \in Key, Reconcile(k) \/ Replay(k) PROVE DocInv'
  BY <1>3, ReconcileHolds, ReplayHolds
<1>4. CASE SaveStep
  BY <1>4, RenamePendingHolds, LinkArchiveHolds, RenameDocHolds, CommitReceiptHolds,
     ReturnHolds DEF SaveStep
<1>5. CASE ArchiveForRender \/ PruneArchives
  BY <1>5, ArchiveForRenderHolds, PruneArchivesHolds
<1>6. CASE Kill BY <1>6, KillHolds
<1>7. CASE PowerLoss BY <1>7, PowerLossHolds
<1>8. CASE UNCHANGED vars BY <1>8, StutterHolds
<1>. QED BY <1>1, <1>2, <1>3, <1>4, <1>5, <1>6, <1>7, <1>8 DEF Next

LEMMA DocInvariant == Spec => []DocInv
<1>1. Init => DocInv BY InitHolds
<1>2. DocInv /\ [Next]_vars => DocInv' BY NextHolds
<1>. QED BY <1>1, <1>2, PTL DEF Spec

(* The types of the store's files, of the save under way and of what a     *)
(* power loss may leave, for every set of keys and bodies.                 *)
THEOREM DocTypeCorrect == Spec => []DocTypeOK
<1>1. DocInv => DocTypeOK BY DEF DocInv
<1>. QED BY <1>1, DocInvariant, PTL
-----------------------------------------------------------------------------
(* The retry of a save finds its revision while the power stays on.        *)

(* The revision of a save is in the lineage, and kept as a file unless the *)
(* janitor may have removed it; what is left of its receipt names it, and only newer receipts push it out; and  *)
(* a save under way has a key of its own until its document is in place.   *)
LineageInv ==
    /\ IsFiniteSet(Revisions(archive))
    /\ \A w \in written:
        Precedes(w.result, doc) /\ Extends(w.payload, w.result) /\ StillThere(w.result)
NamesItsSave(w) ==
    receipts[w.key] # None =>
        receipts[w.key].payload = w.payload /\ receipts[w.key].result = w.result
PushedOut(w) == Cardinality(AsNew(w)) >= ReceiptsKeep
ReplayInv ==
    /\ IsFiniteSet(Committed(receipts))
    /\ \A w \in written: NamesItsSave(w) /\ (receipts[w.key] = None => PushedOut(w))
PendingReceipt == [payload |-> put.payload, state |-> "pending", result |-> put.result]
TryInv ==
    put # None /\ put.phase \in Unpublished =>
        /\ \A w \in written: w.key # put.key
        /\ \/ receipts[put.key] = PendingReceipt
           \/ receipts[put.key] = None /\ put.phase = "staged"
        /\ put.phase = "linked" => doc \in archive \union {Seed}
RetryInv == powerLosses = 0 => LineageInv /\ ReplayInv /\ TryInv

(* A finite set that holds enough is enough.                               *)
LEMMA MoreAreEnough ==
    ASSUME NEW S, NEW T, NEW U, S \subseteq T, T \subseteq U, IsFiniteSet(U),
           Cardinality(S) >= ArchiveKeep
    PROVE  Cardinality(T) >= ArchiveKeep
<1>1. IsFiniteSet(T) BY FS_Subset
<1>2. IsFiniteSet(S) /\ Cardinality(S) <= Cardinality(T) BY <1>1, FS_Subset
<1>3. Cardinality(S) \in Nat /\ Cardinality(T) \in Nat BY <1>1, <1>2, FS_CardinalityType
<1>. QED BY <1>2, <1>3, BoundAssumption

(* A save in the lineage was not made on the current revision.             *)
LEMMA SavedEarlier ==
    ASSUME DocInv, LineageInv, NEW w \in written PROVE w.payload.expected # doc
<1>. SUFFICES ASSUME w.payload.expected = doc PROVE FALSE OBVIOUS
<1>1. /\ w.payload \in Register!Payload /\ w.result \in Register!Etag
      /\ doc \in Register!Etag
  BY DEF DocInv, DocTypeOK, Register!Written
<1>2. Extends(w.payload, w.result) /\ Precedes(w.result, doc) BY DEF LineageInv
<1>3. PICK x \in [body: Body, at: Nat]: w.result = Append(doc, x)
  BY <1>1, <1>2, ChildIsRevision
<1>4. Len(w.result) = Len(doc) + 1 /\ Len(doc) \in Nat
  BY <1>1, <1>3 DEF Register!Etag
<1>5. Len(w.result) <= Len(doc) BY <1>2 DEF Precedes, Register!Precedes
<1>. QED BY <1>4, <1>5

(* The committed receipts but k's with a stamp no older than at.           *)
NotOlder(r, k, at) == {j \in Committed(r) \ {k}: At(r[j].result) >= at}

(* A receipt that pruning removes leaves ReceiptsKeep behind that are as   *)
(* new, and of the receipts as new as a stamp it removes none too many.    *)
LEMMA PruneLeavesNewest ==
    ASSUME NEW R \in [Key -> Receipt \union {None}], IsFiniteSet(Committed(R)),
           NEW K \in SUBSET Committed(R), Kept(R, K),
           receipts' = [j \in Key |-> IF j \in Committed(R) \ K THEN None ELSE R[j]],
           NEW k \in Key, NEW at \in Nat, R[k] # None => At(R[k].result) = at,
           R[k] = None => Cardinality(NotOlder(R, k, at)) >= ReceiptsKeep,
           receipts'[k] = None
    PROVE  Cardinality(NotOlder(receipts', k, at)) >= ReceiptsKeep
<1>. DEFINE C == Committed(R)
            A == NotOlder(R, k, at)
            B == NotOlder(receipts', k, at)
<1>. USE DEF NotOlder
<1>1. Committed(receipts') = K
  <2>1. \A j \in Key: /\ j \in C \ K => receipts'[j] = None
                      /\ j \notin C \ K => receipts'[j] = R[j]
    OBVIOUS
  <2>. QED BY <2>1 DEF Committed
<1>2. \A j \in K: receipts'[j] = R[j] /\ At(R[j].result) \in Nat
  <2>. SUFFICES ASSUME NEW j \in K PROVE receipts'[j] = R[j] /\ At(R[j].result) \in Nat
    OBVIOUS
  <2>1. j \in Key /\ R[j] \in Receipt BY DEF Committed
  <2>2. R[j].result \in Register!Etag BY <2>1 DEF Receipt
  <2>. QED BY <2>1, <2>2, StampIsNatural
<1>3. /\ IsFiniteSet(A) /\ IsFiniteSet(K)
      /\ Cardinality(A) \in Nat /\ Cardinality(K) \in Nat
  <2>1. A \in SUBSET C /\ K \in SUBSET C OBVIOUS
  <2>2. IsFiniteSet(A) /\ IsFiniteSet(K) BY <2>1, FS_Subset
  <2>. QED BY <2>2, FS_CardinalityType
<1>4. CASE K = C /\ R[k] = None
  <2>1. B = A BY <1>1, <1>2, <1>4
  <2>. QED BY <1>4, <2>1
<1>5. CASE K # C \/ R[k] # None
  <2>1. Cardinality(K) = ReceiptsKeep
    <3>1. R[k] # None => k \in C \ K OBVIOUS
    <3>. QED BY <1>5, <3>1 DEF Kept
  <2>2. \A x \in K: At(R[x].result) >= at
    <3>1. CASE R[k] # None
      <4>1. k \in C \ K BY <3>1
      <4>. QED BY <3>1, <4>1 DEF Kept
    <3>2. CASE R[k] = None
      <4>. SUFFICES ASSUME NEW x \in K, ~(At(R[x].result) >= at) PROVE FALSE
        OBVIOUS
      <4>1. x \notin A OBVIOUS
      <4>2. PICK a \in A: a \notin K
        <5>. SUFFICES ASSUME A \subseteq K PROVE FALSE OBVIOUS
        <5>1. A \in SUBSET K /\ A # K BY <4>1
        <5>2. Cardinality(A) <= Cardinality(K) /\ Cardinality(K) # Cardinality(A)
          BY <1>3, <5>1, FS_Subset
        <5>3. Cardinality(A) >= ReceiptsKeep BY <3>2
        <5>. QED BY <1>3, <2>1, <5>2, <5>3, BoundAssumption
      <4>3. At(R[x].result) >= At(R[a].result) /\ At(R[a].result) >= at
        BY <4>2 DEF Kept
      <4>4. At(R[a].result) \in Nat
        <5>1. R[a] \in Receipt BY <4>2 DEF Committed
        <5>2. R[a].result \in Register!Etag BY <5>1 DEF Receipt
        <5>. QED BY <5>2, StampIsNatural
      <4>. QED BY <1>2, <4>3, <4>4
    <3>. QED BY <3>1, <3>2
  <2>3. k \notin K
    <3>1. k \in K => R[k] # None /\ receipts'[k] = R[k] BY DEF Committed
    <3>. QED BY <3>1
  <2>4. B = K BY <1>1, <1>2, <2>2, <2>3
  <2>. QED BY <2>1, <2>4, BoundAssumption
<1>. QED BY <1>4, <1>5

(* Committing a receipt and pruning keep the receipts of the saves.        *)
LEMMA CommitReplays ==
    ASSUME DocTypeOK, ReplayInv, NEW k \in Key, receipts[k] # None, Commit(k),
           written' = written
    PROVE  ReplayInv'
<1>. DEFINE r == [receipts[k] EXCEPT !.state = "committed"]
            R == [receipts EXCEPT ![k] = r]
            C == Committed(receipts)
<1>1. receipts[k] \in Receipt BY DEF DocTypeOK
<1>2. /\ r \in Receipt /\ r # None /\ r.state = "committed"
      /\ r.payload = receipts[k].payload /\ r.result = receipts[k].result
  BY <1>1, NoneAssumption DEF Receipt, States
<1>3. R \in [Key -> Receipt \union {None}] BY <1>2 DEF DocTypeOK
<1>4. Prune(R, [receiptDisk EXCEPT ![k] = @ \union {r, None}]) BY DEF Commit
<1>. HIDE DEF r
<1>5. /\ R[k] = r /\ \A j \in Key: j # k => R[j] = receipts[j]
      /\ \A j \in Key: R[j] = None <=> receipts[j] = None
      /\ \A j \in Key: R[j] # None =>
           R[j].payload = receipts[j].payload /\ R[j].result = receipts[j].result
  BY <1>2 DEF DocTypeOK
<1>. HIDE DEF R
<1>6. Committed(R) = C \union {k} BY <1>2, <1>5 DEF Committed
<1>7. IsFiniteSet(Committed(R)) BY <1>6, FS_AddElement DEF ReplayInv
<1>8. PICK K \in SUBSET Committed(R):
          /\ Kept(R, K)
          /\ receipts' = [j \in Key |-> IF j \in Committed(R) \ K THEN None ELSE R[j]]
  BY <1>4 DEF Prune
<1>9. IsFiniteSet(Committed(receipts'))
  <2>1. Committed(receipts') \in SUBSET Committed(R) BY <1>8 DEF Committed
  <2>. QED BY <1>7, <2>1, FS_Subset
<1>10. ASSUME NEW w \in written
       PROVE  NamesItsSave(w)' /\ (receipts'[w.key] = None => PushedOut(w)')
  <2>1. w.key \in Key /\ w.result \in Register!Etag BY DEF DocTypeOK, Register!Written
  <2>2. NamesItsSave(w)'
    BY <1>5, <1>8, <2>1 DEF NamesItsSave, ReplayInv
  <2>. DEFINE at == At(w.result)
              A == NotOlder(R, w.key, at)
  <2>3. R[w.key] # None => At(R[w.key].result) = at
    BY <1>5, <2>1 DEF NamesItsSave, ReplayInv
  <2>4. R[w.key] = None => Cardinality(A) >= ReceiptsKeep
    <3>. SUFFICES ASSUME R[w.key] = None PROVE Cardinality(A) >= ReceiptsKeep
      OBVIOUS
    <3>1. Cardinality(AsNew(w)) >= ReceiptsKeep
      BY <1>5, <2>1 DEF ReplayInv, PushedOut
    <3>2. AsNew(w) \in SUBSET A BY <1>5, <1>6 DEF AsNew, Committed, NotOlder
    <3>3. IsFiniteSet(A)
      <4>1. A \in SUBSET Committed(R) BY DEF NotOlder
      <4>. QED BY <1>7, <4>1, FS_Subset
    <3>4. /\ Cardinality(AsNew(w)) <= Cardinality(A) /\ Cardinality(A) \in Nat
          /\ Cardinality(AsNew(w)) \in Nat
      BY <3>2, <3>3, FS_Subset, FS_CardinalityType
    <3>. QED BY <3>1, <3>4, BoundAssumption
  <2>5. at \in Nat BY <2>1, StampIsNatural
  <2>. HIDE DEF at
  <2>6. receipts'[w.key] = None =>
          Cardinality(NotOlder(receipts', w.key, at)) >= ReceiptsKeep
    BY <1>3, <1>7, <1>8, <2>1, <2>3, <2>4, <2>5, PruneLeavesNewest
  <2>. QED BY <2>2, <2>6 DEF at, PushedOut, AsNew, NotOlder, At, Register!At, Seed
<1>. QED BY <1>9, <1>10 DEF ReplayInv, Committed

(* Where no receipt becomes committed and none is removed.                 *)
LEMMA ReceiptsReplay ==
    ASSUME ReplayInv, written' = written,
           \A j \in Committed(receipts) \union Committed(receipts'):
               receipts'[j] = receipts[j],
           \A w \in written: receipts'[w.key] = receipts[w.key]
    PROVE  ReplayInv'
<1>1. Committed(receipts') = Committed(receipts)
      /\ \A j \in Committed(receipts): receipts'[j] = receipts[j]
  BY DEF Committed
<1>2. \A w \in written: AsNew(w)' = AsNew(w)
  BY <1>1 DEF AsNew, Committed, At, Register!At, Seed
<1>. QED BY <1>1, <1>2 DEF ReplayInv, Committed, NamesItsSave, PushedOut

(* Where the archive grows by no more than the current revision.           *)
LEMMA LineageStays ==
    ASSUME LineageInv, written' = written, doc' = doc,
           archive \subseteq archive', archive' \subseteq archive \union {doc}
    PROVE  LineageInv'
<1>1. IsFiniteSet(Revisions(archive'))
  <2>1. IsFiniteSet(Revisions(archive) \union {Len(doc)})
    BY FS_AddElement DEF LineageInv
  <2>2. Revisions(archive') \subseteq Revisions(archive) \union {Len(doc)}
    BY DEF Revisions
  <2>. QED BY <2>1, <2>2, FS_Subset
<1>2. ASSUME NEW w \in written PROVE StillThere(w.result)'
  <2>. DEFINE e == w.result
  <2>1. StillThere(e) BY DEF LineageInv
  <2>2. CASE Published(e) BY <2>2 DEF Published, StillThere
  <2>3. CASE Len(e) # 1 /\ Cardinality(Newer(e)) >= ArchiveKeep
    <3>1. Newer(e) \subseteq Newer(e)' /\ Newer(e)' \subseteq Revisions(archive')
      BY DEF Newer, Revisions
    <3>2. Cardinality(Newer(e)') >= ArchiveKeep
      BY <1>1, <2>3, <3>1, MoreAreEnough
    <3>. QED BY <2>3, <3>2 DEF StillThere
  <2>. QED BY <2>1, <2>2, <2>3 DEF StillThere
<1>. QED BY <1>1, <1>2
     DEF LineageInv, Precedes, Extends, At, Register!At, Seed, Revisions

(* The janitor leaves ArchiveKeep revisions newer than what it removes.    *)
LEMMA PruneArchivesRetries ==
    ASSUME DocInv, LineageInv, PruneArchives PROVE LineageInv'
<1>. DEFINE R == Revisions(archive)
            R1 == Revisions(archive')
<1>1. PICK N \in SUBSET R, gone \in SUBSET archive:
          /\ \A e \in gone: Len(e) \notin N /\ Len(e) # 1
          /\ N = R \/ Cardinality(N) = ArchiveKeep
          /\ \A n \in N, m \in R \ N: n > m
          /\ archive' = archive \ gone
  BY DEF PruneArchives, NewestArchived
<1>2. N \subseteq R1 /\ R1 \subseteq R BY <1>1 DEF Revisions
<1>3. IsFiniteSet(R1) BY <1>2, FS_Subset DEF LineageInv
<1>4. \A m \in R: m \in Nat
  BY DEF Revisions, DocInv, DocTypeOK, Register!Etag
<1>5. ASSUME NEW w \in written PROVE StillThere(w.result)'
  <2>. DEFINE e == w.result
  <2>1. StillThere(e) BY DEF LineageInv
  <2>2. Len(e) \in Nat BY DEF DocInv, DocTypeOK, Register!Written, Register!Etag
  <2>3. Newer(e)' \subseteq R1 BY DEF Newer
  <2>4. CASE e = doc \/ (e \in archive /\ e \notin gone)
    BY <1>1, <2>4 DEF StillThere, Published, PruneArchives
  <2>5. CASE e \in gone
    <3>1. Len(e) \in R \ N /\ Len(e) # 1 BY <1>1, <2>5 DEF Revisions
    <3>2. N \subseteq Newer(e)' BY <1>1, <1>2, <3>1 DEF Newer
    <3>3. Cardinality(N) >= ArchiveKeep BY <1>1, <3>1, BoundAssumption
    <3>4. Cardinality(Newer(e)') >= ArchiveKeep
      BY <1>3, <2>3, <3>2, <3>3, MoreAreEnough
    <3>. QED BY <3>1, <3>4 DEF StillThere
  <2>6. CASE Len(e) # 1 /\ Cardinality(Newer(e)) >= ArchiveKeep
    <3>1. Newer(e) \subseteq Newer(e)' \/ (N \subseteq Newer(e)' /\ N # R)
      <4>1. CASE \E n \in N: ~(n > Len(e))
        <5>1. Newer(e) \subseteq N BY <1>1, <1>4, <2>2, <4>1 DEF Newer
        <5>. QED BY <1>2, <5>1 DEF Newer
      <4>2. CASE \A n \in N: n > Len(e)
        <5>1. N \subseteq Newer(e)' BY <1>2, <4>2 DEF Newer
        <5>2. N = R => Newer(e) \subseteq Newer(e)' BY <5>1 DEF Newer
        <5>. QED BY <5>1, <5>2
      <4>. QED BY <4>1, <4>2
    <3>2. Cardinality(Newer(e)') >= ArchiveKeep
      <4>1. CASE Newer(e) \subseteq Newer(e)'
        BY <1>3, <2>3, <2>6, <4>1, MoreAreEnough
      <4>2. CASE N \subseteq Newer(e)' /\ N # R
        <5>1. Cardinality(N) >= ArchiveKeep BY <1>1, <4>2, BoundAssumption
        <5>. QED BY <1>3, <2>3, <4>2, <5>1, MoreAreEnough
      <4>. QED BY <3>1, <4>1, <4>2
    <3>. QED BY <2>6, <3>2 DEF StillThere
  <2>. QED BY <2>1, <2>4, <2>5, <2>6 DEF StillThere, Published
<1>. QED BY <1>3, <1>5
     DEF PruneArchives, LineageInv, Precedes, Extends, At, Register!At, Seed, Revisions

(* A save starts with a key that no document in place has used.            *)
LEMMA StartRetries ==
    ASSUME LineageInv, ReplayInv, DocTypeOK,
           NEW k \in Key, NEW p, NEW result, Starts(k, p, result),
           UNCHANGED <<files, written>>, \A w \in written: w.key # k,
           \/ receipts[k] = None
           \/ receipts[k] = [payload |-> p, state |-> "pending", result |-> result]
    PROVE  LineageInv' /\ ReplayInv' /\ TryInv'
<1>1. LineageInv' BY LineageStays DEF files
<1>2. ReplayInv' BY ReceiptsReplay DEF files
<1>3. TryInv' BY DEF TryInv, Starts, files, PendingReceipt
<1>. QED BY <1>1, <1>2, <1>3

LEMMA BeginRetries ==
    ASSUME DocInv, LineageInv, ReplayInv, NEW k \in Key, NEW b \in Body,
           NEW at \in At(doc)+1..At(doc)+Ahead, BeginSave(k, b, at)
    PROVE  LineageInv' /\ ReplayInv' /\ TryInv'
<1>. DEFINE p == [expected |-> doc, body |-> b]
            result == Append(doc, [body |-> b, at |-> at])
<1>1. \A w \in written: w.key # k BY SavedEarlier DEF BeginSave, FreshKey
<1>2. /\ Starts(k, p, result) /\ receipts[k] = None
      /\ UNCHANGED <<files, written>>
  BY DEF BeginSave
<1>. QED BY <1>1, <1>2, StartRetries DEF DocInv

LEMMA ResumeRetries ==
    ASSUME DocInv, LineageInv, ReplayInv, NEW k \in Key, ResumeSave(k)
    PROVE  LineageInv' /\ ReplayInv' /\ TryInv'
<1>. DEFINE r == receipts[k]
<1>1. r # None /\ r.state = "pending" /\ r.payload.expected = doc BY DEF ResumeSave
<1>2. \A w \in written: w.key # k
  BY <1>1, SavedEarlier DEF ReplayInv, NamesItsSave
<1>3. r = [payload |-> r.payload, state |-> "pending", result |-> r.result]
  BY <1>1 DEF DocInv, DocTypeOK, Receipt
<1>4. Starts(k, r.payload, r.result) /\ UNCHANGED <<files, written>>
  BY DEF ResumeSave
<1>. QED BY <1>2, <1>3, <1>4, StartRetries DEF DocInv

LEMMA RenamePendingRetries ==
    ASSUME DocInv, LineageInv, ReplayInv, TryInv, RenamePending
    PROVE  LineageInv' /\ ReplayInv' /\ TryInv'
<1>1. put # None /\ put.phase = "staged" BY DEF RenamePending
<1>2. /\ put \in Save /\ put.key \in Key
      /\ \A w \in written: w.key # put.key
      /\ receipts[put.key] = PendingReceipt \/ receipts[put.key] = None
  BY <1>1, SaveIsTyped DEF DocInv, TryInv, Unpublished
<1>3. /\ receipts' = [receipts EXCEPT ![put.key] = PendingReceipt]
      /\ put' = [put EXCEPT !.phase = "pending"]
      /\ UNCHANGED <<doc, archive, written>>
  BY DEF RenamePending, PendingReceipt
<1>4. LineageInv' BY <1>3, LineageStays
<1>5. ReplayInv'
  <2>1. PendingReceipt.state # "committed" BY DEF PendingReceipt
  <2>2. /\ receipts'[put.key] = PendingReceipt
        /\ \A j \in Key: j # put.key => receipts'[j] = receipts[j]
    BY <1>2, <1>3 DEF DocInv, DocTypeOK
  <2>3. \A j \in Committed(receipts) \union Committed(receipts'):
            receipts'[j] = receipts[j]
    BY <1>2, <2>1, <2>2 DEF Committed
  <2>4. \A w \in written: receipts'[w.key] = receipts[w.key]
    BY <1>2, <2>2 DEF DocInv, DocTypeOK, Register!Written
  <2>. QED BY <1>3, <2>3, <2>4, ReceiptsReplay
<1>6. TryInv'
  <2>1. /\ put'.key = put.key /\ put'.payload = put.payload
        /\ put'.result = put.result /\ put'.phase = "pending"
    BY <1>2, <1>3 DEF Save
  <2>2. receipts'[put'.key] = PendingReceipt' 
    BY <1>2, <1>3, <2>1 DEF DocInv, DocTypeOK, PendingReceipt
  <2>. QED BY <1>2, <1>3, <2>1, <2>2 DEF TryInv
<1>. QED BY <1>4, <1>5, <1>6

LEMMA LinkArchiveRetries ==
    ASSUME DocInv, LineageInv, ReplayInv, TryInv, LinkArchive
    PROVE  LineageInv' /\ ReplayInv' /\ TryInv'
<1>1. put # None /\ put.phase = "pending" BY DEF LinkArchive
<1>2. /\ put \in Save /\ \A w \in written: w.key # put.key
      /\ receipts[put.key] = PendingReceipt
  BY <1>1, SaveIsTyped DEF DocInv, TryInv, Unpublished
<1>3. PICK links \in BOOLEAN: put' = [put EXCEPT !.phase = "linked", !.links = links]
  BY DEF LinkArchive
<1>4. /\ put'.key = put.key /\ put'.payload = put.payload
      /\ put'.result = put.result /\ put'.phase = "linked"
  BY <1>2, <1>3 DEF Save
<1>5. /\ archive' = archive \union ({doc} \ (archive \union {Seed}))
      /\ UNCHANGED <<doc, receipts, written>>
  BY DEF LinkArchive
<1>6. LineageInv' BY <1>5, LineageStays
<1>7. ReplayInv' BY <1>5, ReceiptsReplay
<1>8. doc' \in archive' \union {Seed} BY <1>5
<1>9. TryInv' BY <1>2, <1>4, <1>5, <1>8 DEF TryInv, PendingReceipt, Seed, Register!Seed
<1>. QED BY <1>6, <1>7, <1>9

LEMMA RenameDocRetries ==
    ASSUME DocInv, LineageInv, ReplayInv, TryInv, RenameDoc
    PROVE  LineageInv' /\ ReplayInv' /\ TryInv'
<1>. DEFINE v == [key |-> put.key, payload |-> put.payload, result |-> put.result]
<1>1. put # None /\ put.phase = "linked" BY DEF RenameDoc
<1>2. /\ put \in Save /\ v \in Register!Written /\ put.result \in Register!Etag
      /\ put.payload \in Register!Payload
      /\ receipts[put.key] = PendingReceipt /\ receipts[put.key] # None
      /\ doc \in archive \union {Seed}
  BY <1>1, SaveIsTyped DEF DocInv, TryInv, Unpublished, PutInv
<1>3. /\ doc' = put.result /\ written' = written \union {v}
      /\ put' = [put EXCEPT !.phase = "renamed"] /\ UNCHANGED <<archive, receipts>>
  BY DEF RenameDoc
<1>4. put.payload.expected = doc /\ Extends(put.payload, put.result)
  BY <1>1 DEF DocInv, PutInv, Unpublished
<1>5. PICK x \in [body: Body, at: Nat]: put.result = Append(doc, x)
  BY <1>2, <1>4, ChildIsRevision
<1>6. v.key = put.key /\ v.payload = put.payload /\ v.result = put.result OBVIOUS
<1>. HIDE DEF v
<1>7. LineageInv'
  <2>1. ASSUME NEW w \in written
        PROVE  /\ Precedes(w.result, put.result) /\ Extends(w.payload, w.result)
               /\ \/ w.result \in archive
                  \/ Len(w.result) # 1 /\ Cardinality(Newer(w.result)) >= ArchiveKeep
    <3>1. /\ Precedes(w.result, doc) /\ Extends(w.payload, w.result)
          /\ StillThere(w.result)
      BY DEF LineageInv
    <3>2. /\ w.result \in Register!Etag /\ w.payload \in Register!Payload
          /\ doc \in Register!Etag
      BY DEF DocInv, DocTypeOK, Register!Written
    <3>3. Precedes(w.result, put.result) BY <1>5, <3>1, <3>2, PrecedesChild
    <3>4. w.result # Seed BY <3>1, <3>2, ChildIsNoSeed
    <3>. QED BY <1>2, <3>1, <3>3, <3>4 DEF Published, StillThere
  <2>2. Precedes(put.result, put.result) BY <1>2, PrecedesItself
  <2>. QED BY <1>3, <1>4, <1>6, <2>1, <2>2
       DEF LineageInv, StillThere, Published, Newer, Revisions, Precedes, Extends, At,
           Register!At, Seed
<1>8. ReplayInv'
  <2>1. NamesItsSave(v) /\ receipts[v.key] # None
    BY <1>2, <1>6 DEF NamesItsSave, PendingReceipt
  <2>2. \A w \in written': NamesItsSave(w) /\ (receipts[w.key] = None => PushedOut(w))
    BY <1>3, <2>1 DEF ReplayInv
  <2>. QED BY <1>3, <2>2
       DEF ReplayInv, NamesItsSave, PushedOut, AsNew, Committed, At, Register!At, Seed
<1>9. TryInv'
  <2>1. put'.phase = "renamed" BY <1>2, <1>3 DEF Save
  <2>. QED BY <2>1 DEF TryInv, Unpublished
<1>. QED BY <1>7, <1>8, <1>9

(* As long as the power stays on, every step keeps the receipts that a     *)
(* retry looks for.                                                        *)
LEMMA RetryHolds == ASSUME DocInv, RetryInv, [Next]_vars PROVE RetryInv'
<1>. SUFFICES ASSUME powerLosses' = 0 PROVE LineageInv' /\ ReplayInv' /\ TryInv'
  BY DEF RetryInv
<1>1. CASE PowerLoss
  <2>1. powerLosses' = powerLosses + 1 /\ powerLosses \in Nat
    BY <1>1, BoundAssumption DEF PowerLoss, DocInv, DocTypeOK
  <2>. QED BY <2>1
<1>2. ~PowerLoss => powerLosses = 0
  BY DEF Next, BeginSave, ResumeSave, Reconcile, Replay, SaveStep, RenamePending,
     LinkArchive, RenameDoc, CommitReceipt, Return, ArchiveForRender, PruneArchives, Kill, vars
<1>. SUFFICES ASSUME ~PowerLoss, LineageInv, ReplayInv, TryInv
              PROVE  LineageInv' /\ ReplayInv' /\ TryInv'
  BY <1>1, <1>2 DEF RetryInv
<1>3. ASSUME NEW k \in Key, NEW b \in Body, NEW at \in At(doc)+1..At(doc)+Ahead,
             BeginSave(k, b, at)
      PROVE  LineageInv' /\ ReplayInv' /\ TryInv'
  BY <1>3, BeginRetries
<1>4. ASSUME NEW k \in Key, ResumeSave(k)
      PROVE  LineageInv' /\ ReplayInv' /\ TryInv'
  BY <1>4, ResumeRetries
<1>5. CASE RenamePending \/ LinkArchive \/ RenameDoc
  BY <1>5, RenamePendingRetries, LinkArchiveRetries, RenameDocRetries
<1>6. CASE CommitReceipt
  <2>1. put # None /\ put.phase = "renamed" /\ Commit(put.key)
    BY <1>6 DEF CommitReceipt
  <2>2. put \in Save /\ put.key \in Key /\ receipts[put.key] # None
    BY <2>1, SaveIsTyped DEF DocInv, PutInv
  <2>3. put' = [put EXCEPT !.phase = "committed"] /\ UNCHANGED <<doc, archive, written>>
    BY <1>6 DEF CommitReceipt
  <2>4. put'.phase = "committed" BY <2>2, <2>3 DEF Save
  <2>5. ReplayInv' BY <2>1, <2>2, <2>3, CommitReplays DEF DocInv
  <2>. QED BY <2>3, <2>4, <2>5, LineageStays DEF TryInv, Unpublished
<1>7. CASE Return
  <2>1. put' = None /\ UNCHANGED <<doc, archive, receipts, written>>
    BY <1>7 DEF Return, Answered, files
  <2>. QED BY <2>1, LineageStays, ReceiptsReplay DEF TryInv
<1>8. ASSUME NEW k \in Key, Reconcile(k)
      PROVE  LineageInv' /\ ReplayInv' /\ TryInv'
  <2>1. /\ receipts[k] # None /\ Commit(k) /\ put' = None
        /\ UNCHANGED <<doc, archive, written>>
    BY <1>8 DEF Reconcile
  <2>. QED BY <2>1, LineageStays, CommitReplays DEF TryInv, DocInv
<1>9. CASE ArchiveForRender
  <2>1. /\ put' = None /\ archive \subseteq archive' /\ archive' \subseteq archive \union {doc}
        /\ UNCHANGED <<doc, receipts, written>>
    BY <1>9 DEF ArchiveForRender
  <2>. QED BY <2>1, LineageStays, ReceiptsReplay DEF TryInv
<1>12. ASSUME NEW k \in Key, Replay(k)
       PROVE  LineageInv' /\ ReplayInv' /\ TryInv'
  <2>1. put' = None /\ UNCHANGED <<doc, archive, receipts, written>>
    BY <1>12 DEF Replay, files
  <2>. QED BY <2>1, LineageStays, ReceiptsReplay DEF TryInv
<1>13. CASE PruneArchives
  <2>1. put' = None /\ UNCHANGED <<doc, receipts, written>> BY <1>13 DEF PruneArchives
  <2>. QED BY <1>13, <2>1, PruneArchivesRetries, ReceiptsReplay DEF TryInv
<1>10. CASE Kill
  <2>1. put' = None /\ UNCHANGED <<doc, archive, receipts, written>>
    BY <1>10 DEF Kill, files
  <2>. QED BY <2>1, LineageStays, ReceiptsReplay DEF TryInv
<1>11. CASE UNCHANGED vars
  <2>1. UNCHANGED <<put, doc, archive, receipts, written>>
    BY <1>11 DEF vars, files
  <2>2. TryInv' BY <2>1 DEF TryInv, PendingReceipt, Seed, Register!Seed
  <2>. QED BY <2>1, <2>2, LineageStays, ReceiptsReplay
<1>. QED BY <1>3, <1>4, <1>5, <1>6, <1>7, <1>8, <1>9, <1>10, <1>11, <1>12, <1>13
     DEF Next, SaveStep

LEMMA RetryInvariant == Spec => []RetryInv
<1>1. Init => RetryInv
  <2>. SUFFICES ASSUME Init PROVE RetryInv OBVIOUS
  <2>1. /\ written = {} /\ put = None /\ receipts = [k \in Key |-> None]
        /\ archive = {}
    BY DEF Init
  <2>2. Committed(receipts) = {} /\ Revisions(archive) = {}
    BY <2>1 DEF Committed, Revisions
  <2>. QED BY <2>1, <2>2, FS_EmptySet DEF RetryInv, LineageInv, ReplayInv, TryInv
<1>2. DocInv /\ RetryInv /\ [Next]_vars => RetryInv' BY RetryHolds
<1>. QED BY <1>1, <1>2, DocInvariant, PTL DEF Spec

(* As long as the power stays on, a retry of any save of the lineage finds *)
(* its receipt, unless ReceiptsKeep newer saves pushed it out, and its     *)
(* revision, unless ArchiveKeep newer ones are archived: whoever was       *)
(* killed, however often (_reconcile, _prune_locked, _prune_archives).     *)
THEOREM RetriesFindTheirRevision == Spec => []RetryFindsItsRevision
<1>1. DocInv /\ RetryInv => RetryFindsItsRevision
  <2>. SUFFICES ASSUME DocInv, RetryInv, powerLosses = 0, NEW w \in written,
                       Cardinality(AsNew(w)) < ReceiptsKeep
                PROVE  /\ receipts[w.key] # None
                       /\ receipts[w.key].payload = w.payload
                       /\ receipts[w.key].result = w.result
                       /\ StillThere(w.result)
    BY DEF RetryFindsItsRevision
  <2>1. AsNew(w) \in SUBSET Committed(receipts) /\ IsFiniteSet(Committed(receipts))
    BY DEF AsNew, RetryInv, ReplayInv
  <2>2. Cardinality(AsNew(w)) \in Nat BY <2>1, FS_Subset, FS_CardinalityType
  <2>3. ~PushedOut(w) BY <2>2, BoundAssumption DEF PushedOut
  <2>. QED BY <2>3 DEF RetryInv, LineageInv, ReplayInv, NamesItsSave
<1>. QED BY <1>1, DocInvariant, RetryInvariant, PTL

(* A save that answered its PUT stays in the lineage of the current        *)
(* revision under any number of kills, retries and power losses, and a     *)
(* save that a retry was told of does as long as the power stays on.       *)
THEOREM AnsweredIsKept == Spec => []AckedInLineage
<1>1. DocInv /\ RetryInv => AckedInLineage
  <2>. SUFFICES ASSUME DocInv, RetryInv PROVE AckedInLineage OBVIOUS
  <2>1. \A e \in acked: Precedes(e, doc) BY DEF DocInv, DocTypeOK, DiskInv
  <2>2. powerLosses = 0 => \A w \in written: Precedes(w.result, doc)
    BY DEF RetryInv, LineageInv
  <2>3. \A e \in told: \E w \in written: e = w.result BY DEF DocInv, DocTypeOK
  <2>. QED BY <2>1, <2>2, <2>3 DEF AckedInLineage
<1>. QED BY <1>1, DocInvariant, RetryInvariant, PTL
-----------------------------------------------------------------------------
(* Each step of the store is a step of the register or stutters: the       *)
(* rename of the document is the write, the answer of a save is lasting,   *)
(* that of a retry is not, and a power loss goes back to an ancestor.      *)

LEMMA RenameDocIsWrite == ASSUME DocInv, RenameDoc PROVE Register!Next
<1>1. put # None /\ put.phase = "linked" BY DEF RenameDoc
<1>2. put.key \in Key /\ put.payload \in Register!Payload
  BY <1>1, SaveIsTyped DEF DocInv
<1>3. put.payload.expected = doc /\ Extends(put.payload, put.result)
  BY <1>1 DEF DocInv, PutInv, Unpublished
<1>4. PICK at \in At(doc)+1..At(doc)+Ahead:
          put.result = Append(doc, [body |-> put.payload.body, at |-> at])
  BY <1>3 DEF Extends
<1>. DEFINE b == put.payload.body
            p == [expected |-> doc, body |-> b]
<1>5. b \in Body /\ put.payload = p BY <1>2, <1>3 DEF Register!Payload
<1>6. Register!Write(put.key, p, at) BY <1>4, <1>5 DEF RenameDoc, answers, Register!Write
<1>7. at \in Register!At(doc)+1..Register!At(doc)+Ahead BY DEF At
<1>. QED BY <1>2, <1>5, <1>6, <1>7 DEF Register!Next

LEMMA ReturnIsAnswer == ASSUME DocInv, Return PROVE Register!Next
<1>. DEFINE w == [key |-> put.key, payload |-> put.payload, result |-> put.result]
<1>1. put # None /\ put.phase = "committed" BY DEF Return
<1>2. w \in written /\ put.result = doc BY <1>1 DEF DocInv, PutInv, Unpublished
<1>3. Precedes(w.result, doc) BY <1>2, PrecedesItself DEF DocInv, DocTypeOK
<1>4. Register!Answer(w)
  BY <1>2, <1>3 DEF Return, Answered, files, Precedes, Register!Answer
<1>. QED BY <1>2, <1>4 DEF Register!Next

LEMMA RetryIsAnswer ==
    ASSUME DocInv, NEW k \in Key, Reconcile(k) \/ Replay(k) PROVE Register!Next
<1>1. receipts[k].result \in Made BY PublishedIsMade DEF Reconcile, Replay
<1>2. PICK w \in written: w.result = receipts[k].result BY <1>1 DEF Made
<1>3. Register!Answer(w) BY <1>2 DEF Reconcile, Replay, Tell, files, Register!Answer
<1>. QED BY <1>3 DEF Register!Next

LEMMA PowerLossIsLose == ASSUME DocInv, PowerLoss PROVE Register!Next
<1>1. doc' \in docDisk /\ UNCHANGED <<written, told, acked>> BY DEF PowerLoss, answers
<1>2. doc \in Register!Etag /\ doc' \in Register!Etag /\ Precedes(doc', doc)
  BY <1>1 DEF DocInv, DocTypeOK, DiskInv
<1>3. Len(doc') \in 0..Len(doc) /\ doc' = SubSeq(doc, 1, Len(doc'))
  BY <1>2, AncestorIsPrefix
<1>4. \A e \in acked: Len(e) <= Len(doc')
  BY <1>1 DEF DocInv, DiskInv, Precedes, Register!Precedes
<1>5. Register!Lose(Len(doc')) BY <1>1, <1>3, <1>4 DEF Register!Lose
<1>. QED BY <1>3, <1>5 DEF Register!Next

LEMMA StepRefines == ASSUME DocInv, [Next]_vars PROVE [Register!Next]_(Register!vars)
<1>1. ASSUME NEW k \in Key, NEW b \in Body, NEW at \in At(doc)+1..At(doc)+Ahead,
             BeginSave(k, b, at)
      PROVE  UNCHANGED Register!vars
  BY <1>1 DEF BeginSave, files, answers, Register!vars
<1>2. ASSUME NEW k \in Key, ResumeSave(k) PROVE UNCHANGED Register!vars
  BY <1>2 DEF ResumeSave, files, answers, Register!vars
<1>3. CASE \/ RenamePending \/ LinkArchive \/ CommitReceipt
           \/ ArchiveForRender \/ PruneArchives \/ Kill
  BY <1>3 DEF RenamePending, LinkArchive, CommitReceipt, ArchiveForRender, PruneArchives,
              Kill, files, answers, Register!vars
<1>8. ASSUME NEW k \in Key, Reconcile(k) \/ Replay(k) PROVE Register!Next
  BY <1>8, RetryIsAnswer
<1>4. CASE RenameDoc BY <1>4, RenameDocIsWrite
<1>5. CASE Return BY <1>5, ReturnIsAnswer
<1>6. CASE PowerLoss BY <1>6, PowerLossIsLose
<1>7. CASE UNCHANGED vars BY <1>7 DEF vars, files, answers, Register!vars
<1>. QED BY <1>1, <1>2, <1>3, <1>4, <1>5, <1>6, <1>7, <1>8 DEF Next, SaveStep

(* The store implements the register under kills and power losses: every   *)
(* save is a compare-and-set, and what the save itself answered is never   *)
(* taken back.                                                             *)
THEOREM StoreImplementsRegister == Spec => ImplementsRegister
<1>1. Init => Register!Init BY DEF Init, Register!Init, Seed
<1>2. DocInv /\ [Next]_vars => [Register!Next]_(Register!vars) BY StepRefines
<1>. QED BY <1>1, <1>2, DocInvariant, PTL DEF Spec, ImplementsRegister, Register!Spec
=============================================================================
