-------------------------- MODULE QueueLockProofs ---------------------------
(* Theorems about the queue lock, for any number of callers: a caller that *)
(* lost the lock is told so under every fault, and as long as few callers  *)
(* can find a dead one's lock no two callbacks run at once.                *)
EXTENDS QueueLock, TLAPS

-----------------------------------------------------------------------------
(* Type correctness                                                        *)

LEMMA TouchedType ==
    ASSUME TypeOK
    PROVE  Touched \in 0..StaleMs /\ StaleMs \in 0..StaleMs /\ 0 \in 0..StaleMs
BY LockAssumption DEF TypeOK, Touched

LEMMA GoType ==
    ASSUME TypeOK, NEW p \in Process,
           NEW at \in {"idle", "down"} \union Waiting \union Holding, Go(p, at)
    PROVE  pc' \in [Process -> {"idle", "down"} \union Waiting \union Holding]
BY DEF TypeOK, Go

LEMMA StepType ==
    ASSUME TypeOK, NEW p \in Process,
           Begin(p) \/ AcquireStep(p) \/ RenewStep(p) \/ ReleaseStep(p)
             \/ Crash(p) \/ Restart(p)
    PROVE  TypeOK'
<1> USE DEF lockVars
<1>1. \A at \in {"idle", "down", "trying", "waiting", "stale", "rechecking",
                 "moving", "unmarking", "made", "held", "renewing", "rewriting",
                 "renewed", "releasing", "unlinking", "unlinked", "emptied",
                 "failing"} :
        Go(p, at) =>
          pc' \in [Process -> {"idle", "down"} \union Waiting \union Holding]
  BY GoType DEF Waiting, Holding, Callback, Leaving
<1>2. CASE Begin(p) \/ Restart(p)
  BY <1>1, <1>2 DEF TypeOK, Begin, Restart
<1>3. CASE AcquireStep(p)
  <2>1. CASE MakeLock(p) \/ WriteOwner(p) \/ MoveAside(p)
    <3>1. overtaken \union Overtaken(p) \in SUBSET Process
      BY DEF TypeOK, Overtaken
    <3>2. QED
      BY <1>1, <2>1, <3>1, TouchedType
      DEF TypeOK, MakeLock, WriteOwner, PutOwner, MoveAside
  <2>2. CASE WriteOwnerFails(p) \/ Inspect(p) \/ Retry(p) \/ GiveUp(p)
               \/ Recheck(p)
    BY <1>1, <2>2 DEF TypeOK, WriteOwnerFails, Inspect, Retry, GiveUp, Recheck
  <2>3. CASE MarkStale(p) \/ Unmark(p)
    BY <1>1, <2>3, TouchedType DEF TypeOK, MarkStale, Unmark
  <2>4. QED
    BY <1>3, <2>1, <2>2, <2>3 DEF AcquireStep
<1>4. CASE RenewStep(p)
  <2>1. overtaken \union Overtaken(p) \in SUBSET Process
    BY DEF TypeOK, Overtaken
  <2>2. CASE RenewWrite(p)
    BY <1>1, <2>1, <2>2, TouchedType DEF TypeOK, RenewWrite, PutOwner
  <2>3. CASE ~RenewWrite(p)
    BY <1>1, <1>4, <2>3, TouchedType
    DEF TypeOK, RenewStep, RenewMark, RenewEnds, RenewCheck, RenewWriteFails,
        RenewUnmark
  <2>4. QED
    BY <2>2, <2>3
<1>5. CASE ReleaseStep(p)
  <2>1. CASE ReleaseMark(p) \/ ReleaseFail(p) \/ ReleaseRemove(p)
    BY <1>1, <2>1, TouchedType
    DEF TypeOK, ReleaseMark, ReleaseFail, ReleaseRemove, Leave
  <2>2. CASE ReleaseCheck(p) \/ ReleaseUnlink(p) \/ ReleaseUnmark(p)
    BY <1>1, <2>2, TouchedType
    DEF TypeOK, ReleaseCheck, ReleaseUnlink, ReleaseUnmark
  <2>3. QED
    BY <1>5, <2>1, <2>2 DEF ReleaseStep
<1>6. CASE Crash(p)
  <2>1. crashes + 1 \in 0..MaxCrashes
    BY <1>6, LockAssumption DEF TypeOK, Crash
  <2>2. QED
    BY <1>1, <1>6, <2>1 DEF TypeOK, Crash
<1>7. QED
  BY <1>2, <1>3, <1>4, <1>5, <1>6

LEMMA TickKeepsType == TypeOK /\ Tick => TypeOK'
BY LockAssumption DEF TypeOK, Tick

LEMMA InitType == Init => TypeOK
<1>1. /\ 0 \in 0..StaleMs /\ 0 \in 0..MaxCrashes
      /\ {} \in SUBSET Process /\ FALSE \in BOOLEAN
  BY LockAssumption
<1>2. Init => pc \in [Process -> {"idle", "down"} \union Waiting \union Holding]
  BY DEF Init
<1>3. QED
  BY <1>1, <1>2 DEF Init, TypeOK

(* The lock's state stays well typed under every fault, for any number of  *)
(* callers: heartbeats never lie further ahead than StaleMs.               *)
THEOREM LockTypeCorrect == Spec => []TypeOK
<1>1. TypeOK /\ [Next]_vars => TypeOK'
  <2>1. CASE UNCHANGED vars
    BY <2>1 DEF TypeOK, vars, lockVars
  <2>2. QED
    BY <2>1, StepType, TickKeepsType DEF Next
<1>2. QED
  BY <1>1, InitType, PTL DEF Spec

-----------------------------------------------------------------------------
(* A lost lock is reported, whatever happens                               *)

(* Whoever was overtaken is still on its way out, and owner.json does not  *)
(* name it nor will again: no check that it makes under the marker passes. *)
OvertakenInv ==
    \A p \in overtaken :
      /\ pc[p] \in {"held", "renewing", "renewed", "releasing", "failing"}
      /\ owner # p

(* A step that puts no token of an overtaken caller into owner.json.       *)
LEMMA OvertakenStays ==
    ASSUME TypeOK, OvertakenInv,
           \A q \in overtaken' :
             /\ q \in overtaken \/ (InCallback(q) /\ pc[q] # "rewriting")
             /\ pc'[q] \in {pc[q], "held", "renewing", "renewed",
                            "releasing", "failing"}
             /\ owner' # q
    PROVE  OvertakenInv'
BY DEF OvertakenInv, InCallback, Callback

LEMMA OvertakenKept ==
    ASSUME TypeOK, OvertakenInv, [Next]_vars
    PROVE  OvertakenInv'
<1> USE DEF OvertakenInv, TypeOK, lockVars, Go
<1>1. ASSUME NEW p \in Process, Begin(p) \/ Restart(p) \/ Crash(p)
      PROVE  OvertakenInv'
  BY <1>1 DEF Begin, Restart, Crash
<1>2. ASSUME NEW p \in Process, pc[p] \in {"made", "rewriting"}, PutOwner(p),
             pc' = [pc EXCEPT ![p] = pc'[p]]
      PROVE  OvertakenInv'
  <2>1. p \notin overtaken /\ p \notin Overtaken(p)
    BY <1>2 DEF Overtaken
  <2>2. /\ overtaken' = overtaken \union Overtaken(p) /\ owner' = p
        /\ \A q \in overtaken' : q # p /\ pc'[q] = pc[q]
    BY <1>2, <2>1 DEF PutOwner, Overtaken
  <2>3. QED
    BY <2>1, <2>2, OvertakenStays DEF Overtaken
<1>3. ASSUME NEW p \in Process, MoveAside(p) PROVE OvertakenInv'
  <2>1. /\ overtaken' = overtaken \union Overtaken(p) /\ owner' = None
        /\ pc[p] = "moving"
    BY <1>3 DEF MoveAside
  <2>2. \A q \in overtaken' : q # p /\ pc'[q] = pc[q] /\ q \in Process
    BY <1>3, <2>1 DEF MoveAside, Overtaken
  <2>3. QED
    BY <2>1, <2>2, OvertakenStays, LockAssumption DEF Overtaken
<1>4. ASSUME NEW p \in Process, AcquireStep(p), ~MoveAside(p)
      PROVE  OvertakenInv'
  <2>1. CASE WriteOwner(p)
    BY <1>2, <2>1 DEF WriteOwner
  <2>2. CASE ~WriteOwner(p)
    <3>1. /\ overtaken' = overtaken
          /\ \A q \in overtaken : pc'[q] = pc[q]
          /\ owner' \in {owner, None}
      BY <1>4, <2>2 DEF AcquireStep, MakeLock, WriteOwnerFails, Inspect,
         Retry, GiveUp, MarkStale, Recheck, Unmark
    <3>2. QED
      BY <3>1, LockAssumption
  <2>3. QED
    BY <2>1, <2>2
<1>5. ASSUME NEW p \in Process, RenewStep(p) PROVE OvertakenInv'
  <2>1. CASE RenewWrite(p)
    BY <1>2, <2>1 DEF RenewWrite
  <2>2. CASE RenewMark(p) \/ RenewUnmark(p)
    BY <2>2 DEF RenewMark, RenewUnmark
  <2>3. CASE RenewCheck(p) \/ RenewWriteFails(p)
    BY <2>3 DEF RenewCheck, RenewWriteFails, Owns
  <2>4. QED
    BY <1>5, <2>1, <2>2, <2>3 DEF RenewStep, RenewEnds
<1>6. ASSUME NEW p \in Process, ReleaseStep(p) PROVE OvertakenInv'
  <2>1. CASE ReleaseMark(p)
    BY <2>1 DEF ReleaseMark, Leave
  <2>2. CASE ReleaseCheck(p)
    BY <2>2 DEF ReleaseCheck, Owns
  <2>3. CASE ReleaseUnlink(p)
    BY <2>3, LockAssumption DEF ReleaseUnlink
  <2>4. CASE ReleaseUnmark(p)
    BY <2>4 DEF ReleaseUnmark
  <2>5. CASE ReleaseFail(p) \/ ReleaseRemove(p)
    BY <2>5 DEF ReleaseFail, ReleaseRemove, Leave
  <2>6. QED
    BY <1>6, <2>1, <2>2, <2>3, <2>4, <2>5 DEF ReleaseStep
<1>7. CASE Tick
  BY <1>7 DEF Tick
<1>8. CASE UNCHANGED vars
  BY <1>8 DEF vars
<1>9. QED
  BY <1>1, <1>3, <1>4, <1>5, <1>6, <1>7, <1>8 DEF Next

(* Under every fault, a caller whose lock was taken over while its callback *)
(* ran never gets past the ownership check of its release, unless the       *)
(* takeover fell between the check and the write of one of its renewals.    *)
THEOREM LostLockIsReported == Spec => []OvertakenIsReported
<1>1. Init => OvertakenInv
  BY DEF Init, OvertakenInv
<1>2. OvertakenInv => OvertakenIsReported
  BY DEF OvertakenInv, OvertakenIsReported
<1>3. QED
  BY <1>1, <1>2, OvertakenKept, LockTypeCorrect, PTL DEF Spec

-----------------------------------------------------------------------------
(* One holder at a time                                                    *)

(* What the theorems below suppose: nobody dies, or of two callers some do.*)
(* Three callers of which one dies are too many: a waiter that found the   *)
(* dead one's lock stale may move aside the lock that another waiter has   *)
(* made since (run lock_race).                                             *)
FewTakeOver ==
    \/ Env = {}
    \/ /\ Env = {"crash"}
       /\ \A p, q, r \in Process : p = q \/ q = r \/ p = r

(* What the lock directory holds is what its one holder has put there.     *)
HolderOwns(p) ==
    /\ exists /\ fresh > 0 /\ maker = p
    /\ pc[p] # "failing"
    /\ pc[p] \in Callback \union {"releasing", "unlinking"} => owner = p
    /\ pc[p] \in {"made", "unlinked", "emptied"} => owner = None
    /\ marker <=> pc[p] \in {"renewing", "rewriting", "renewed", "releasing",
                             "unlinking", "unlinked"}

(* Only a lock whose holder died is found stale, by who is left alone.     *)
Taking == {"stale", "rechecking", "moving", "unmarking"}
Alone(p) == \A q \in Process : q # p => pc[q] = "down"

PromptInv ==
    /\ \A p, q \in Process : pc[p] \in Holding /\ pc[q] \in Holding => p = q
    /\ \A p \in Process : pc[p] \in Holding => HolderOwns(p)
    /\ exists => \E p \in Process : pc[p] \in Holding \union {"down"}
    /\ \A p \in Process : pc[p] \in Taking => Alone(p)
    /\ \A p \in Process : pc[p] = "down" => Env # {}

(* What a step of p from outside the lock to outside it leaves true.       *)
LEMMA WaiterKeeps ==
    ASSUME TypeOK, PromptInv, NEW p \in Process, pc[p] \notin Holding,
           NEW at \in {"idle", "trying", "waiting"} \union Taking, Go(p, at),
           pc[p] # "down", at \in Taking => Alone(p),
           \/ UNCHANGED <<exists, owner, marker, fresh, maker>>
           \/ Alone(p) /\ (exists' = exists \/ ~exists')
    PROVE  PromptInv'
<1>1. /\ pc'[p] = at /\ at \notin Holding /\ at # "down"
      /\ \A q \in Process : q # p => pc'[q] = pc[q]
  BY DEF TypeOK, Go, Taking, Holding, Callback, Leaving
<1>2. \A q \in Process : pc'[q] \in Holding <=> pc[q] \in Holding
  BY <1>1
<1>3. /\ \A q \in Process : pc'[q] = "down" <=> pc[q] = "down"
      /\ exists' => exists
  <2>1. \A q \in Process : pc'[q] = "down" <=> pc[q] = "down"
    BY <1>1
  <2>2. exists' => exists
    OBVIOUS
  <2>3. QED
    BY <2>1, <2>2
<1>4. Alone(p) => \A q \in Process : pc[q] \notin Holding
  BY DEF Alone, Holding, Callback, Leaving
<1>5. \A q \in Process : pc[q] \in Holding => HolderOwns(q)'
  <2> SUFFICES ASSUME NEW q \in Process, pc[q] \in Holding
               PROVE  HolderOwns(q)'
    OBVIOUS
  <2>1. pc'[q] = pc[q] /\ HolderOwns(q)
    BY <1>1 DEF PromptInv
  <2>2. UNCHANGED <<exists, owner, marker, fresh, maker>>
    BY <1>4
  <2>3. QED
    BY <2>1, <2>2 DEF HolderOwns
<1>6. \A q \in Process : pc'[q] \in Taking => Alone(q)'
  BY <1>1, <1>3 DEF PromptInv, Alone
<1>7. QED
  BY <1>2, <1>3, <1>5, <1>6 DEF PromptInv

(* And a step of the holder, or of who becomes the holder.                 *)
LEMMA HolderKeeps ==
    ASSUME TypeOK, PromptInv, NEW p \in Process,
           \A q \in Process : q # p => pc[q] \notin Holding /\ pc'[q] = pc[q],
           pc[p] # "down", pc[p] \notin Taking,
           pc'[p] \in Holding, HolderOwns(p)'
    PROVE  PromptInv'
<1>1. pc'[p] # "down" /\ pc'[p] \notin Taking
  BY DEF Holding, Callback, Leaving, Taking
<1>2. \A q \in Process : pc[q] \notin Taking
  BY DEF PromptInv, Alone
<1>3. \A q \in Process : pc'[q] \notin Taking
  BY <1>1, <1>2
<1>4. QED
  BY <1>1, <1>3 DEF PromptInv, HolderOwns

LEMMA PromptKept ==
    ASSUME TypeOK, PromptInv, [Next]_vars, FewTakeOver
    PROVE  PromptInv'
<1>0. /\ "write" \notin Env /\ "stall" \notin Env /\ "restart" \notin Env
      /\ "crashMarked" \notin Env /\ StaleMs > 0 /\ None \notin Process
  BY LockAssumption DEF FewTakeOver
<1>1. ASSUME NEW p \in Process, Begin(p) \/ Retry(p) \/ GiveUp(p)
      PROVE  PromptInv'
  <2>1. pc[p] \in {"idle", "waiting"} /\ pc[p] \notin Holding
    BY <1>1 DEF Begin, Retry, GiveUp, Holding, Callback, Leaving
  <2>2. Go(p, "trying") \/ Go(p, "idle")
    BY <1>1 DEF Begin, Retry, GiveUp
  <2>3. QED
    BY <1>1, <2>1, <2>2, WaiterKeeps
    DEF Begin, Retry, GiveUp, lockVars, Taking
<1>2. ASSUME NEW p \in Process, Restart(p) \/ WriteOwnerFails(p)
      PROVE  FALSE
  BY <1>0, <1>2
  DEF Restart, WriteOwnerFails, WriteMayFail, PromptInv, HolderOwns, Holding
<1>3. ASSUME NEW p \in Process, MakeLock(p) PROVE PromptInv'
  <2>1. \A q \in Process : pc[q] \notin Holding
    BY <1>3 DEF MakeLock, PromptInv, HolderOwns
  <2>2. pc'[p] = "made" /\ \A q \in Process : q # p => pc'[q] = pc[q]
    BY <1>3 DEF MakeLock, Go, TypeOK
  <2>3. HolderOwns(p)'
    BY <1>0, <1>3, <2>2 DEF MakeLock, HolderOwns, Callback
  <2>4. QED
    BY <1>3, <2>1, <2>2, <2>3, HolderKeeps DEF MakeLock, Taking, Holding
<1>4. ASSUME NEW p \in Process, pc[p] \in Holding, pc'[p] \in Holding,
             HolderOwns(p)', pc' = [pc EXCEPT ![p] = pc'[p]]
      PROVE  PromptInv'
  <2>1. \A q \in Process : q # p => pc[q] \notin Holding /\ pc'[q] = pc[q]
    BY <1>4 DEF PromptInv, TypeOK
  <2>2. QED
    BY <1>4, <2>1, HolderKeeps DEF Taking, Holding, Callback, Leaving
<1> USE DEF TypeOK
<1>5. ASSUME NEW p \in Process, WriteOwner(p) PROVE PromptInv'
  <2>1. pc[p] \in Holding /\ HolderOwns(p)
    BY <1>5 DEF WriteOwner, PromptInv, Holding
  <2>2. pc'[p] = "held" /\ pc' = [pc EXCEPT ![p] = pc'[p]]
    BY <1>5 DEF WriteOwner, Go
  <2>3. HolderOwns(p)'
    BY <1>0, <1>5, <2>1, <2>2 DEF WriteOwner, PutOwner, HolderOwns, Callback
  <2>4. QED
    BY <1>4, <2>1, <2>2, <2>3 DEF Holding, Callback
<1>6. ASSUME NEW p \in Process, Inspect(p) PROVE PromptInv'
  <2>1. CASE ~Stale
    BY <1>6, <2>1, WaiterKeeps
    DEF Inspect, lockVars, Taking, Holding, Callback, Leaving
  <2>2. CASE Stale
    <3>1. \A q \in Process : pc[q] \notin Holding
      BY <2>2 DEF Stale, PromptInv, HolderOwns
    <3>2. PICK d \in Process : pc[d] = "down"
      BY <2>2, <3>1 DEF Stale, PromptInv
    <3>3. Alone(p)
      BY <1>6, <3>2 DEF Inspect, FewTakeOver, PromptInv, Alone
    <3>4. QED
      BY <1>6, <2>2, <3>1, <3>3, WaiterKeeps DEF Inspect, lockVars, Taking
  <2>3. QED
    BY <2>1, <2>2
<1>7. ASSUME NEW p \in Process,
             MarkStale(p) \/ Recheck(p) \/ MoveAside(p) \/ Unmark(p)
      PROVE  PromptInv'
  <2>1. /\ pc[p] \in Taking /\ pc[p] # "down" /\ pc[p] \notin Holding
        /\ exists' = exists \/ ~exists'
    BY <1>7 DEF MarkStale, Recheck, MoveAside, Unmark, lockVars, Taking,
       Holding, Callback, Leaving
  <2>2. Alone(p)
    BY <2>1 DEF PromptInv
  <2>3. \E at \in {"idle", "trying", "waiting"} \union Taking : Go(p, at)
    BY <1>7 DEF MarkStale, Recheck, MoveAside, Unmark, Taking
  <2>4. QED
    BY <2>1, <2>2, <2>3, WaiterKeeps
<1>8. ASSUME NEW p \in Process, RenewStep(p) PROVE PromptInv'
  <2>1. pc[p] \in Holding /\ HolderOwns(p)
    BY <1>8 DEF RenewStep, RenewMark, RenewEnds, RenewCheck, RenewWrite,
       RenewWriteFails, RenewUnmark, PromptInv, Holding, Callback
  <2>2. /\ pc'[p] \in Callback /\ pc' = [pc EXCEPT ![p] = pc'[p]]
        /\ HolderOwns(p)'
    <3>1. CASE RenewMark(p)
      BY <1>0, <2>1, <3>1
      DEF RenewMark, HolderOwns, Go, Callback, Touched
    <3>2. CASE RenewCheck(p)
      BY <1>0, <2>1, <3>2 DEF RenewCheck, Owns, HolderOwns, Go, Callback,
         lockVars
    <3>3. CASE RenewWrite(p)
      BY <1>0, <2>1, <3>3 DEF RenewWrite, PutOwner, HolderOwns, Go, Callback
    <3>4. CASE RenewUnmark(p)
      BY <1>0, <2>1, <3>4
      DEF RenewUnmark, HolderOwns, Go, Callback, Touched
    <3>5. ~RenewWriteFails(p)
      BY <1>0, <2>1 DEF RenewWriteFails, WriteMayFail, HolderOwns
    <3>6. QED
      BY <1>8, <3>1, <3>2, <3>3, <3>4, <3>5 DEF RenewStep, RenewEnds
  <2>3. QED
    BY <1>4, <2>1, <2>2 DEF Holding
<1>9. ASSUME NEW p \in Process,
             \/ ReleaseMark(p) \/ ReleaseCheck(p)
             \/ ReleaseUnlink(p) \/ ReleaseUnmark(p)
      PROVE  PromptInv'
  <2>1. pc[p] \in Holding /\ HolderOwns(p)
    BY <1>9 DEF ReleaseMark, ReleaseCheck, ReleaseUnlink, ReleaseUnmark,
       PromptInv, Holding, Callback, Leaving
  <2>2. /\ pc'[p] \in Leaving /\ pc' = [pc EXCEPT ![p] = pc'[p]]
        /\ HolderOwns(p)'
    <3>1. CASE ReleaseMark(p)
      BY <1>0, <2>1, <3>1
      DEF ReleaseMark, HolderOwns, Go, Callback, Leaving, Touched
    <3>2. CASE ReleaseCheck(p)
      BY <1>0, <2>1, <3>2
      DEF ReleaseCheck, Owns, HolderOwns, Go, Callback, Leaving, lockVars
    <3>3. CASE ReleaseUnlink(p)
      BY <1>0, <2>1, <3>3
      DEF ReleaseUnlink, HolderOwns, Go, Callback, Leaving
    <3>4. CASE ReleaseUnmark(p)
      BY <1>0, <2>1, <3>4
      DEF ReleaseUnmark, HolderOwns, Go, Callback, Leaving, Touched
    <3>5. QED
      BY <1>9, <3>1, <3>2, <3>3, <3>4
  <2>3. QED
    BY <1>4, <2>1, <2>2 DEF Holding
<1>10. ASSUME NEW p \in Process, ReleaseRemove(p) PROVE PromptInv'
  <2>1. pc[p] = "emptied" /\ pc[p] \in Holding /\ HolderOwns(p)
    BY <1>10 DEF ReleaseRemove, PromptInv, Holding, Leaving
  <2>2. ~exists' /\ pc' = [pc EXCEPT ![p] = "idle"]
    BY <1>10, <2>1 DEF ReleaseRemove, Leave, Go, HolderOwns
  <2>3. \A q \in Process : pc'[q] \notin Holding
    BY <2>1, <2>2 DEF PromptInv, Holding, Callback, Leaving
  <2>4. \A q \in Process : pc'[q] \notin Taking
    BY <2>1, <2>2 DEF PromptInv, Alone, Taking
  <2>5. QED
    BY <2>2, <2>3, <2>4 DEF PromptInv
<1>11. ASSUME NEW p \in Process, Crash(p) PROVE PromptInv'
  <2>1. /\ pc' = [pc EXCEPT ![p] = "down"] /\ Env # {}
        /\ UNCHANGED <<exists, owner, marker, fresh, maker>>
    BY <1>11 DEF Crash, Go, lockVars
  <2>2. \A q \in Process : /\ q = p => pc'[q] = "down"
                           /\ q # p => pc'[q] = pc[q]
    BY <2>1
  <2>3. "down" \notin Holding /\ "down" \notin Taking
    BY DEF Holding, Callback, Leaving, Taking
  <2>4. \A q \in Process : pc'[q] \in Holding => HolderOwns(q)'
    BY <2>1, <2>2, <2>3 DEF PromptInv, HolderOwns
  <2>5. \A q \in Process : pc'[q] \in Taking => Alone(q)'
    BY <2>2, <2>3 DEF PromptInv, Alone
  <2>6. QED
    BY <2>1, <2>2, <2>3, <2>4, <2>5 DEF PromptInv
<1>12. CASE Tick
  <2>1. /\ pc' = pc /\ UNCHANGED <<exists, owner, marker, maker>>
        /\ fresh' = fresh - 1 /\ Prompt
    BY <1>0, <1>12 DEF Tick
  <2>2. \A p \in Process : pc[p] \in Holding => HolderOwns(p)'
    BY <2>1 DEF Prompt, PromptInv, HolderOwns
  <2>3. QED
    BY <2>1, <2>2 DEF PromptInv, Alone
<1>13. CASE UNCHANGED vars
  BY <1>13 DEF vars, lockVars, PromptInv, HolderOwns, Alone
<1>14. ASSUME NEW p \in Process, ReleaseFail(p) PROVE FALSE
  BY <1>14 DEF ReleaseFail, PromptInv, HolderOwns, Holding, Leaving
<1>15. ASSUME NEW p \in Process, AcquireStep(p) PROVE PromptInv'
  BY <1>1, <1>2, <1>3, <1>5, <1>6, <1>7, <1>15 DEF AcquireStep
<1>16. ASSUME NEW p \in Process, ReleaseStep(p) PROVE PromptInv'
  BY <1>9, <1>10, <1>14, <1>16 DEF ReleaseStep
<1>17. QED
  BY <1>1, <1>2, <1>8, <1>11, <1>12, <1>13, <1>15, <1>16 DEF Next

LEMMA PromptAlways == FewTakeOver /\ Spec => []PromptInv
<1>1. Init => PromptInv
  BY DEF Init, PromptInv, Holding, Callback, Leaving, Taking
<1>2. FewTakeOver /\ TypeOK /\ PromptInv /\ [Next]_vars => PromptInv'
  BY PromptKept
<1>3. CASE FewTakeOver
  BY <1>1, <1>2, <1>3, LockTypeCorrect, PTL DEF Spec
<1>4. QED
  BY <1>3

(* As long as holders renew in time and nobody dies, any number of callers *)
(* run their callbacks one at a time, and so do two of which one dies: the *)
(* operations of the queue are single steps to each other.                 *)
THEOREM CallbacksExclude == FewTakeOver /\ Spec => []MutualExclusion
<1>1. PromptInv => MutualExclusion
  BY DEF PromptInv, MutualExclusion, InCallback, Holding
<1>2. QED
  BY <1>1, PromptAlways, PTL
=============================================================================
