------------------------ MODULE MomentSelectionProofs ------------------------
(* Proofs about MomentSelection, for every number of providers, models,     *)
(* chunks, requests and candidates: a completion is given up only when      *)
(* nothing of its chain is left, the posts for one model are bounded, the   *)
(* session keeps to its budget, and the ranking fills the slots.  The       *)
(* ranking's walks over sequences are reasoned about step by step, by an    *)
(* induction that takes a set.                                              *)
EXTENDS MomentSelection, TLAPS, FiniteSetTheorems, WellFoundedInduction

(* Position p was tried, on cooldown, or follows a refused key of its own  *)
(* provider.                                                               *)
Passed(f, from, p) ==
    \/ f[p] # None
    \/ \E q \in from..p: Provider[q] = Provider[p] /\ f[q] = "auth"

(* The completion: each post but the first has its reason, and everything  *)
(* from the start of the chain to the model asked now was passed.          *)
Reasons(c) == c.retries + (IF c.nudged THEN 1 ELSE 0) + Cardinality(c.adapted)
CallInv ==
    call # None =>
        /\ call \in Call /\ reply = None
        /\ call.posts <= Reasons(call)
        /\ call.from <= call.at
        /\ \A p \in call.from..call.at-1: Passed(call.failures, call.from, p)
ReplyInv ==
    reply # None =>
        /\ reply \in Reply
        /\ reply.answer = 0 =>
              \A p \in reply.from..Len(Order): Passed(reply.failures, reply.from, p)

(* The session: no stage ends the propose requests silently, and once a    *)
(* top-up was asked a request stays for the rerank until it is asked.      *)
ChunkInv ==
    /\ session.chunk \in 1..Len(plan)+1
    /\ session.stage = "propose" /\ session.chunk > Len(plan) => Free
    /\ ~session.partial =>
          session.answered = IF session.stage = "propose" THEN 1..session.chunk-1 ELSE 1..Len(plan)
    /\ session.answered \subseteq 1..Len(plan)
    /\ session.answered # {} => session.last \in Position
ReserveInv ==
    /\ session.requests \in Nat
    /\ session.toppedUp => session.stage \notin {"propose", "retry"}
    /\ session.toppedUp /\ RerankWanted =>
          /\ session.stage = "topup" => session.requests < MaxRequests
          /\ session.stage = "rerank" => ~Free \/ session.requests < MaxRequests
          /\ session.stage = "return" => session.reranked \/ elapsed >= Deadline
SessionFields == [stage: Stages, requests: Nat, chunk: Nat,
                  answered: SUBSET Nat, partial: BOOLEAN, last: Position \union {0},
                  pool: SUBSET Moment, toppedUp: BOOLEAN, topup: SUBSET Moment,
                  reranked: BOOLEAN, ranked: {session.ranked}]   \* any
SessionInv ==
    /\ plan \in Plans /\ elapsed \in Nat
    /\ session \in SessionFields
    /\ ChunkInv /\ ReserveInv
SelectInv == CallInv /\ ReplyInv /\ SessionInv
-----------------------------------------------------------------------------
(* Facts about the chains.                                                 *)

LEMMA ChainBounds ==
    ASSUME NEW p \in Position
    PROVE  /\ LastOf(p) \in Position /\ p <= LastOf(p)
           /\ \A q \in p..LastOf(p): Provider[q] = Provider[p]
           /\ FirstOf(p) \in Position
<1>1. PICK first, last \in Position: {q \in Position: Provider[q] = Provider[p]} = first..last
  BY ChainAssumption DEF Position
<1>2. Len(Order) \in Nat BY ClientAssumption
<1>3. p \in first..last BY <1>1
<1>4. /\ first \in Int /\ last \in Int /\ p \in Int /\ first <= p /\ p <= last
      /\ Position \subseteq Int
  BY <1>2, <1>3 DEF Position
<1>5. \A q \in Position: Provider[q] = Provider[p] <=> first <= q /\ q <= last
  BY <1>1, <1>4
<1>6. LastOf(p) = last
  <2>1. Provider[last] = Provider[p] /\ \A r \in Position: Provider[r] = Provider[p] => r <= last
    BY <1>4, <1>5
  <2>2. \A q \in Position: Provider[q] = Provider[p]
                           /\ (\A r \in Position: Provider[r] = Provider[p] => r <= q) => q = last
    BY <1>4, <1>5
  <2>. QED BY <2>1, <2>2 DEF LastOf
<1>7. FirstOf(p) = first
  <2>1. Provider[first] = Provider[p] /\ \A r \in Position: Provider[r] = Provider[p] => first <= r
    BY <1>4, <1>5
  <2>2. \A q \in Position: Provider[q] = Provider[p]
                           /\ (\A r \in Position: Provider[r] = Provider[p] => q <= r) => q = first
    BY <1>4, <1>5
  <2>. QED BY <2>1, <2>2 DEF FirstOf
<1>8. \A q \in p..last: q \in Position /\ first <= q /\ q <= last BY <1>2, <1>4 DEF Position
<1>9. \A q \in p..LastOf(p): Provider[q] = Provider[p] BY <1>5, <1>6, <1>8
<1>. QED BY <1>4, <1>6, <1>7, <1>9

LEMMA AdaptationsAreFinite ==
    /\ IsFiniteSet(Adaptations) /\ Cardinality(Adaptations) \in Nat
    /\ \A S \in SUBSET Adaptations:
          /\ IsFiniteSet(S) /\ Cardinality(S) \in Nat
          /\ Cardinality(S) <= Cardinality(Adaptations)
<1>1. IsFiniteSet(TokenParams)
  <2>1. IsFiniteSet({"max_tokens"}) BY FS_Singleton
  <2>2. TokenParams = {"max_tokens"} \union {"max_completion_tokens"} BY DEF TokenParams
  <2>. QED BY <2>1, <2>2, FS_AddElement
<1>2. IsFiniteSet(Adaptations) BY <1>1, ClientAssumption, FS_Union DEF Adaptations
<1>. QED BY <1>2, FS_CardinalityType, FS_Subset
-----------------------------------------------------------------------------
(* The completion.                                                         *)

LEMMA BudgetOfPosts ==
    ASSUME NEW c, c.retries \in 0..MaxRetries, c.nudged \in BOOLEAN,
           c.adapted \in SUBSET Adaptations, NEW n \in Nat, n <= Reasons(c)
    PROVE  n \in 0..MaxRetries + 1 + Cardinality(Adaptations)
<1>1. Cardinality(c.adapted) \in Nat /\ Cardinality(c.adapted) <= Cardinality(Adaptations)
  BY AdaptationsAreFinite
<1>2. Cardinality(Adaptations) \in Nat /\ MaxRetries \in Nat
  BY AdaptationsAreFinite, ClientAssumption
<1>. QED BY <1>1, <1>2 DEF Reasons

LEMMA EnteredIsGood ==
    ASSUME NEW from \in Position, NEW p \in Position, NEW own \in 0..Len(Order), from <= p,
           NEW failures \in [Position -> Codes \union {None}],
           \A q \in from..p-1: Passed(failures, from, q),
           NEW c \in Entered(from, p, own, failures)
    PROVE  /\ c \in Call /\ c # None
           /\ c.posts <= Reasons(c)
           /\ c.from <= c.at
           /\ \A q \in c.from..c.at-1: Passed(c.failures, c.from, q)
<1>1. PICK dropped \in SUBSET Droppable, token \in TokenParams:
        c = [at |-> p, from |-> from, own |-> own, retries |-> 0, adapted |-> {}, nudged |-> FALSE,
             dropped |-> dropped, token |-> token, posts |-> 0, failures |-> failures]
  BY DEF Entered
<1>2. Reasons(c) = 0
  <2>1. Cardinality({}) = 0 BY FS_EmptySet
  <2>. QED BY <1>1, <2>1 DEF Reasons
<1>3. 0 \in 0..MaxRetries /\ 0 \in 0..MaxRetries + 1 + Cardinality(Adaptations)
  BY AdaptationsAreFinite, ClientAssumption
<1>4. c \in Call BY <1>1, <1>3 DEF Call
<1>5. c # None BY <1>4, NoneAssumption
<1>. QED BY <1>1, <1>2, <1>4, <1>5

LEMMA AskStarts ==
    ASSUME NEW from \in Position, NEW own \in 0..Len(Order), Ask(from, own)
    PROVE  CallInv' /\ ReplyInv' /\ call' # None
<1>1. [p \in Position |-> None] \in [Position -> Codes \union {None}] OBVIOUS
<1>2. \A q \in from..from-1: Passed([p \in Position |-> None], from, q) BY DEF Position
<1>3. from <= from BY DEF Position
<1>. QED BY <1>1, <1>2, <1>3, EnteredIsGood DEF Ask, CallInv, ReplyInv

LEMMA GiveUpMovesOn ==
    ASSUME CallInv, call # None, NEW code \in Codes, GiveUp(code)
    PROVE  CallInv' /\ ReplyInv' /\ (call' # None \/ reply' # None)
<1>. DEFINE failures == [call.failures EXCEPT ![call.at] = code]
            next == NextToAsk(code)
<1>1. /\ call.at \in Position /\ call.from \in Position /\ call.own \in 0..Len(Order)
      /\ call.failures \in [Position -> Codes \union {None}] /\ call.from <= call.at
      /\ Len(Order) \in Nat /\ Position = 1..Len(Order)
  BY ClientAssumption DEF CallInv, Call, Position
<1>2. /\ failures \in [Position -> Codes \union {None}] /\ failures[call.at] = code
      /\ \A q \in Position: q # call.at => failures[q] = call.failures[q]
      /\ code # None
  BY <1>1, NoneAssumption
<1>3. \A q \in call.from..call.at-1: Passed(failures, call.from, q)
  <2>. SUFFICES ASSUME NEW q \in call.from..call.at-1 PROVE Passed(failures, call.from, q)
    OBVIOUS
  <2>1. q \in Position /\ q # call.at BY <1>1
  <2>2. \A r \in call.from..q: r \in Position /\ r # call.at BY <1>1
  <2>3. Passed(call.failures, call.from, q) BY DEF CallInv
  <2>. QED BY <1>2, <2>1, <2>2, <2>3 DEF Passed
<1>4. Passed(failures, call.from, call.at) BY <1>2 DEF Passed
<1>5. /\ next \in Int /\ call.at < next /\ next <= Len(Order) + 1
      /\ \A q \in call.at+1..next-1: code = "auth" /\ Provider[call.at] = Provider[q]
  <2>1. CASE code = "auth"
    <3>1. /\ LastOf(call.at) \in Position /\ call.at <= LastOf(call.at)
          /\ \A q \in call.at..LastOf(call.at): Provider[q] = Provider[call.at]
      BY <1>1, ChainBounds
    <3>2. next = LastOf(call.at) + 1 BY <2>1 DEF NextToAsk
    <3>3. \A q \in call.at+1..next-1: q \in call.at..LastOf(call.at) BY <1>1, <3>1, <3>2
    <3>. QED BY <1>1, <2>1, <3>1, <3>2, <3>3
  <2>2. CASE code # "auth"
    <3>1. next = call.at + 1 BY <2>2 DEF NextToAsk
    <3>. QED BY <1>1, <3>1
  <2>. QED BY <2>1, <2>2
<1>6. \A q \in call.from..next-1: Passed(failures, call.from, q)
  <2>. SUFFICES ASSUME NEW q \in call.from..next-1 PROVE Passed(failures, call.from, q)
    OBVIOUS
  <2>1. CASE q < call.at
    <3>1. q \in call.from..call.at-1 BY <1>1, <2>1
    <3>. HIDE DEF failures
    <3>. QED BY <1>3, <3>1
  <2>2. CASE q = call.at BY <1>4, <2>2
  <2>3. CASE q > call.at
    <3>1. q \in call.at+1..next-1 /\ call.at \in call.from..q BY <1>1, <1>5, <2>3
    <3>2. code = "auth" /\ Provider[call.at] = Provider[q] BY <1>5, <3>1
    <3>. QED BY <1>2, <3>1, <3>2 DEF Passed
  <2>. QED BY <1>1, <2>1, <2>2, <2>3
<1>. HIDE DEF failures, next
<1>7. CASE next \in Position
  <2>1. call' \in Entered(call.from, next, call.own, failures) /\ reply' = None
    BY <1>7 DEF GiveUp, failures, next
  <2>2. call.from <= next BY <1>1, <1>5
  <2>3. /\ call' \in Call /\ call' # None
        /\ call'.posts <= Reasons(call')
        /\ call'.from <= call'.at
        /\ \A q \in call'.from..call'.at-1: Passed(call'.failures, call'.from, q)
    BY <1>1, <1>2, <1>6, <1>7, <2>1, <2>2, EnteredIsGood
  <2>. QED BY <2>1, <2>3 DEF CallInv, ReplyInv
<1>8. CASE next \notin Position
  <2>1. call' = None /\ reply' = [answer |-> 0, from |-> call.from, failures |-> failures]
    BY <1>8 DEF GiveUp, failures, next
  <2>2. next = Len(Order) + 1 BY <1>1, <1>5, <1>8
  <2>3. \A q \in call.from..Len(Order): Passed(failures, call.from, q) BY <1>1, <1>6, <2>2
  <2>4. reply' \in Reply BY <1>1, <1>2, <2>1 DEF Reply
  <2>. QED BY <2>1, <2>3, <2>4, NoneAssumption DEF CallInv, ReplyInv
<1>. QED BY <1>7, <1>8

(* A call that only counts one more post, with its reason, stays good.     *)
LEMMA PostAgain ==
    ASSUME CallInv, call # None, NEW c \in Call, c # None, call' = c, reply' = reply,
           c.at = call.at, c.from = call.from, c.failures = call.failures,
           c.posts <= Reasons(c)
    PROVE  CallInv' /\ ReplyInv' /\ call' # None
BY DEF CallInv, ReplyInv

LEMMA RefusedParameter ==
    ASSUME CallInv, NEW a \in Adaptations, RefuseParameter(a)
    PROVE  CallInv' /\ ReplyInv' /\ call' # None
<1>1. /\ call # None /\ call \in Call /\ call.posts <= Reasons(call)
      /\ a \in Refusable /\ a \notin call.adapted /\ call' = Adapted(a) /\ reply' = reply
  BY DEF CallInv, RefuseParameter, Asking
<1>2. /\ call.retries \in 0..MaxRetries /\ call.nudged \in BOOLEAN
      /\ call.adapted \in SUBSET Adaptations /\ call.posts \in Nat
      /\ MaxRetries \in Nat
  BY <1>1, ClientAssumption, AdaptationsAreFinite DEF Call
<1>. DEFINE c == Adapted(a)
<1>3. /\ c.at = call.at /\ c.from = call.from /\ c.failures = call.failures
      /\ c.retries = call.retries /\ c.nudged = call.nudged
      /\ c.adapted = call.adapted \union {a} /\ c.posts = call.posts + 1
  BY <1>1 DEF Adapted, Call
<1>4. Cardinality(c.adapted) = Cardinality(call.adapted) + 1
  BY <1>1, <1>2, <1>3, AdaptationsAreFinite, FS_AddElement
<1>5. c.posts <= Reasons(c)
  <2>1. Cardinality(call.adapted) \in Nat BY <1>2, AdaptationsAreFinite
  <2>. QED BY <1>1, <1>2, <1>3, <1>4, <2>1 DEF Reasons
<1>6. c.posts \in 0..MaxRetries + 1 + Cardinality(Adaptations)
  <2>1. c.posts \in Nat /\ c.adapted \in SUBSET Adaptations BY <1>2, <1>3
  <2>. HIDE DEF c
  <2>. QED BY <1>2, <1>3, <1>5, <2>1, BudgetOfPosts
<1>7. c \in Call
  <2>1. OtherToken \in TokenParams BY DEF OtherToken, TokenParams
  <2>2. c.posts = call.posts + 1 BY <1>3
  <2>. QED BY <1>1, <1>6, <2>1, <2>2 DEF Adapted, Call
<1>. HIDE DEF c
<1>8. call' = c /\ c # None BY <1>1, <1>7, NoneAssumption DEF c
<1>. QED BY <1>1, <1>3, <1>5, <1>7, <1>8, PostAgain

LEMMA TransientFailure ==
    ASSUME CallInv, Transient
    PROVE  CallInv' /\ ReplyInv' /\ (call' # None \/ reply' # None)
<1>1. call # None /\ call \in Call /\ call.posts <= Reasons(call) BY DEF CallInv, Transient, Asking
<1>2. CASE call.retries < MaxRetries
  <2>. DEFINE c == [call EXCEPT !.retries = @ + 1, !.posts = @ + 1]
  <2>1. call' = c /\ reply' = reply BY <1>2 DEF Transient
  <2>2. /\ call.retries \in 0..MaxRetries /\ call.nudged \in BOOLEAN
        /\ call.adapted \in SUBSET Adaptations /\ call.posts \in Nat /\ MaxRetries \in Nat
        /\ Cardinality(call.adapted) \in Nat
    BY <1>1, ClientAssumption, AdaptationsAreFinite DEF Call
  <2>3. /\ c.at = call.at /\ c.from = call.from /\ c.failures = call.failures
        /\ c.retries = call.retries + 1 /\ c.nudged = call.nudged
        /\ c.adapted = call.adapted /\ c.posts = call.posts + 1
    BY <1>1 DEF Call
  <2>4. c.posts <= Reasons(c) BY <1>1, <2>2, <2>3 DEF Reasons
  <2>5. c.retries \in 0..MaxRetries /\ c.posts \in Nat BY <1>2, <2>2, <2>3
  <2>6. c.posts \in 0..MaxRetries + 1 + Cardinality(Adaptations)
    <3>. HIDE DEF c
    <3>. QED BY <2>2, <2>3, <2>4, <2>5, BudgetOfPosts
  <2>7. c \in Call BY <1>1, <2>3, <2>5, <2>6 DEF Call
  <2>. HIDE DEF c
  <2>8. c # None BY <2>7, NoneAssumption
  <2>. QED BY <1>1, <2>1, <2>3, <2>4, <2>7, <2>8, PostAgain
<1>3. CASE ~(call.retries < MaxRetries)
  <2>1. GiveUp("other") /\ "other" \in Codes BY <1>3 DEF Transient, Codes
  <2>. QED BY <1>1, <2>1, GiveUpMovesOn
<1>. QED BY <1>2, <1>3

LEMMA BadAnswer ==
    ASSUME CallInv, BadJSON
    PROVE  CallInv' /\ ReplyInv' /\ (call' # None \/ reply' # None)
<1>1. call # None /\ call \in Call /\ call.posts <= Reasons(call) BY DEF CallInv, BadJSON, Asking
<1>2. CASE ~call.nudged
  <2>. DEFINE c == [call EXCEPT !.nudged = TRUE, !.posts = @ + 1]
  <2>1. call' = c /\ reply' = reply BY <1>2 DEF BadJSON
  <2>2. /\ call.retries \in 0..MaxRetries /\ MaxRetries \in Nat
        /\ call.adapted \in SUBSET Adaptations /\ call.posts \in Nat
        /\ Cardinality(call.adapted) \in Nat
    BY <1>1, ClientAssumption, AdaptationsAreFinite DEF Call
  <2>3. /\ c.at = call.at /\ c.from = call.from /\ c.failures = call.failures
        /\ c.retries = call.retries /\ c.nudged = TRUE
        /\ c.adapted = call.adapted /\ c.posts = call.posts + 1
    BY <1>1 DEF Call
  <2>4. c.posts <= Reasons(c) /\ c.posts \in Nat BY <1>1, <1>2, <2>2, <2>3 DEF Reasons
  <2>5. c.posts \in 0..MaxRetries + 1 + Cardinality(Adaptations)
    <3>. HIDE DEF c
    <3>. QED BY <2>2, <2>3, <2>4, BudgetOfPosts
  <2>6. c \in Call BY <1>1, <2>3, <2>5 DEF Call
  <2>. HIDE DEF c
  <2>7. c # None BY <2>6, NoneAssumption
  <2>. QED BY <1>1, <2>1, <2>3, <2>4, <2>6, <2>7, PostAgain
<1>3. CASE call.nudged
  <2>1. GiveUp("other") /\ "other" \in Codes BY <1>3 DEF BadJSON, Codes
  <2>. QED BY <1>1, <2>1, GiveUpMovesOn
<1>. QED BY <1>2, <1>3

LEMMA ServerKeepsCall ==
    ASSUME CallInv, ReplyInv, SkipCooling \/ Post \/ \E p \in Position: CooldownEnds(p)
    PROVE  CallInv' /\ ReplyInv' /\ (Free' <=> Free)
<1>0. "other" \in Codes /\ "auth" \in Codes BY DEF Codes
<1>1. CASE SkipCooling
  BY <1>0, <1>1, GiveUpMovesOn DEF SkipCooling, Free
<1>2. CASE Answer
  <2>1. call # None /\ call \in Call BY <1>2 DEF Answer, Asking, CallInv
  <2>2. /\ call' = None
        /\ reply' = [answer |-> call.at, from |-> call.from, failures |-> call.failures]
    BY <1>2 DEF Answer
  <2>3. reply' \in Reply BY <2>1, <2>2 DEF Call, Reply
  <2>4. call.at # 0 BY <2>1 DEF Call, Position
  <2>5. reply' # None BY <2>3, NoneAssumption
  <2>6. reply'.answer # 0 BY <2>2, <2>4
  <2>7. CallInv' BY <2>2 DEF CallInv
  <2>8. ReplyInv' BY <2>3, <2>6 DEF ReplyInv
  <2>. QED BY <2>1, <2>5, <2>7, <2>8 DEF Free
<1>3. CASE Transient
  <2>1. call # None BY <1>3 DEF Transient, Asking
  <2>. QED BY <1>3, <2>1, TransientFailure DEF Free
<1>4. CASE BadJSON
  <2>1. call # None BY <1>4 DEF BadJSON, Asking
  <2>. QED BY <1>4, <2>1, BadAnswer DEF Free
<1>5. CASE QuotaExhausted
  BY <1>0, <1>5, GiveUpMovesOn DEF QuotaExhausted, Asking, Free
<1>6. CASE \E a \in Adaptations: RefuseParameter(a)
  <2>1. call # None BY <1>6 DEF RefuseParameter, Asking
  <2>. QED BY <1>6, <2>1, RefusedParameter DEF Free
<1>7. CASE \E code \in {"auth", "other"}: Rejected(code)
  BY <1>0, <1>7, GiveUpMovesOn DEF Rejected, Asking, Free
<1>8. CASE \E p \in Position: CooldownEnds(p)
  BY <1>8 DEF CooldownEnds, CallInv, ReplyInv, Free
<1>. QED BY <1>1, <1>2, <1>3, <1>4, <1>5, <1>6, <1>7, <1>8 DEF Post

-----------------------------------------------------------------------------
(* The session.                                                            *)

LEMMA PlanIsChunks ==
    ASSUME plan \in Plans
    PROVE  Len(plan) \in Nat /\ \A i \in 1..Len(plan): plan[i] \subseteq Moment
<1>1. plan \in Seq(SUBSET Moment) BY SelectionAssumption
<1>. QED BY <1>1

LEMMA FirstPosition == 1 \in Position /\ Position \subseteq Nat /\ 0 \in 0..Len(Order)
BY ClientAssumption DEF Position

LEMMA SamePool ==
    ASSUME session'.pool = session.pool
    PROVE  RerankWanted' = RerankWanted
BY DEF RerankWanted, Kept

LEMMA NewSessionIsGood ==
    ASSUME plan \in Plans, session = NewSession, elapsed = 0, Free
    PROVE  SessionInv
<1>1. Len(plan) \in Nat BY PlanIsChunks
<1>2. /\ session.stage = "propose" /\ session.requests = 0 /\ session.chunk = 1
      /\ session.answered = {} /\ session.toppedUp = FALSE
  BY DEF NewSession
<1>3. session \in SessionFields BY DEF NewSession, SessionFields, Stages
<1>4. ChunkInv BY <1>1, <1>2 DEF ChunkInv
<1>5. ReserveInv BY <1>2 DEF ReserveInv
<1>. QED BY <1>3, <1>4, <1>5 DEF SessionInv

LEMMA InitHolds == ASSUME Init PROVE SelectInv
<1>1. Free BY DEF Init, LlmInit, Free
<1>2. SessionInv BY <1>1, NewSessionIsGood DEF Init
<1>3. CallInv /\ ReplyInv BY DEF Init, LlmInit, CallInv, ReplyInv
<1>. QED BY <1>2, <1>3 DEF SelectInv

LEMMA EndedHolds == ASSUME SelectInv, NEW o, Ended(o) PROVE SelectInv'
<1>1. /\ session' = NewSession /\ elapsed' = 0 /\ Free' /\ plan' = plan
      /\ call' = None /\ reply' = None
  BY DEF Ended, Free
<1>2. SessionInv'
  <2>1. (plan \in Plans)' BY <1>1 DEF SelectInv, SessionInv
  <2>2. Len(plan') \in Nat BY <1>1, PlanIsChunks DEF SelectInv, SessionInv
  <2>3. /\ session'.stage = "propose" /\ session'.requests = 0 /\ session'.chunk = 1
        /\ session'.answered = {} /\ session'.toppedUp = FALSE
    BY <1>1 DEF NewSession
  <2>4. (session \in SessionFields)' BY <1>1 DEF NewSession, SessionFields, Stages
  <2>5. ChunkInv' BY <1>1, <2>2, <2>3 DEF ChunkInv
  <2>6. ReserveInv' BY <2>3 DEF ReserveInv
  <2>. QED BY <1>1, <2>1, <2>4, <2>5, <2>6 DEF SessionInv
<1>3. CallInv' /\ ReplyInv' BY <1>1 DEF CallInv, ReplyInv
<1>. QED BY <1>2, <1>3 DEF SelectInv

(* A step that leaves the session alone; time may pass.                    *)
LEMMA QuietSession ==
    ASSUME SelectInv, CallInv', ReplyInv', Free' <=> Free,
           session' = session, plan' = plan, elapsed' \in Nat, elapsed <= elapsed'
    PROVE  SelectInv'
<1>1. RerankWanted' = RerankWanted BY SamePool
<1>2. (session \in SessionFields)' BY DEF SelectInv, SessionInv, SessionFields
<1>3. ChunkInv' BY DEF SelectInv, SessionInv, ChunkInv
<1>4. ReserveInv'
  <2>1. elapsed \in Nat /\ Deadline \in Nat BY SelectionAssumption DEF SelectInv, SessionInv
  <2>2. elapsed >= Deadline => elapsed' >= Deadline BY <2>1
  <2>. QED BY <1>1, <2>2 DEF SelectInv, SessionInv, ReserveInv
<1>. QED BY <1>2, <1>3, <1>4 DEF SelectInv, SessionInv

LEMMA ServerHolds == ASSUME SelectInv, Server PROVE SelectInv'
<1>1. /\ SkipCooling \/ Post \/ \E p \in Position: CooldownEnds(p)
      /\ session' = session /\ plan' = plan /\ elapsed' = elapsed
  BY DEF Server, Outer
<1>2. CallInv' /\ ReplyInv' /\ (Free' <=> Free) BY <1>1, ServerKeepsCall DEF SelectInv
<1>3. elapsed' \in Nat /\ elapsed <= elapsed' BY <1>1 DEF SelectInv, SessionInv
<1>. QED BY <1>1, <1>2, <1>3, QuietSession

LEMMA RequestHolds ==
    ASSUME SelectInv, NEW from \in Position, NEW own \in 0..Len(Order), NEW top \in BOOLEAN,
           Request(from, own, top),
           session.stage # "return",
           session.stage = "propose" => session.chunk <= Len(plan),
           top => session.stage = "topup",
           session.stage = "topup" /\ RerankWanted => session.requests + 1 < MaxRequests
    PROVE  SelectInv'
<1>1. /\ Ask(from, own) /\ plan' = plan /\ elapsed' = elapsed
      /\ session' = [session EXCEPT !.requests = @ + 1, !.toppedUp = @ \/ top]
  BY DEF Request
<1>2. CallInv' /\ ReplyInv' /\ call' # None BY <1>1, AskStarts
<1>3. ~Free' BY <1>2 DEF Free
<1>4. session \in SessionFields /\ session.toppedUp \in BOOLEAN /\ session.requests \in Nat
  BY DEF SelectInv, SessionInv, SessionFields
<1>5. /\ session'.stage = session.stage /\ session'.chunk = session.chunk
      /\ session'.answered = session.answered /\ session'.partial = session.partial
      /\ session'.last = session.last /\ session'.pool = session.pool
      /\ session'.reranked = session.reranked
      /\ session'.requests = session.requests + 1
      /\ session'.toppedUp = (session.toppedUp \/ top)
  BY <1>1, <1>4 DEF SessionFields
<1>6. RerankWanted' = RerankWanted BY <1>5, SamePool
<1>7. (session \in SessionFields)'
  <2>. DEFINE s == [session EXCEPT !.requests = session.requests + 1]
              t == [s EXCEPT !.toppedUp = session.toppedUp \/ top]
  <2>1. s \in SessionFields /\ s.ranked = session.ranked BY <1>4 DEF SessionFields
  <2>2. t \in SessionFields /\ t.ranked = s.ranked
    <3>1. (session.toppedUp \/ top) \in BOOLEAN OBVIOUS
    <3>. HIDE DEF s
    <3>. QED BY <2>1, <3>1 DEF SessionFields
  <2>3. session' = t
    <3>1. s.toppedUp = session.toppedUp BY <1>4 DEF SessionFields
    <3>. QED BY <1>1
  <2>. HIDE DEF t
  <2>4. session' \in SessionFields /\ session'.ranked = session.ranked
    BY <2>1, <2>2, <2>3
  <2>. QED BY <2>4 DEF SessionFields
<1>8. ChunkInv'
  <2>1. ChunkInv /\ Len(plan) \in Nat BY PlanIsChunks DEF SelectInv, SessionInv
  <2>. QED BY <1>1, <1>5, <2>1 DEF ChunkInv
<1>9. ReserveInv'
  <2>1. ReserveInv BY DEF SelectInv, SessionInv
  <2>. QED BY <1>3, <1>4, <1>5, <1>6, <2>1 DEF ReserveInv
<1>. QED BY <1>1, <1>2, <1>7, <1>8, <1>9 DEF SelectInv, SessionInv

LEMMA GoesOn ==
    ASSUME CallInv, Free \/ reply # None, NEW s, Goes(s)
    PROVE  /\ CallInv' /\ ReplyInv' /\ Free'
           /\ session' = s /\ plan' = plan /\ elapsed' = elapsed
BY DEF Goes, CallInv, ReplyInv, Free

LEMMA ChunksEndHolds == ASSUME SelectInv, ChunksEnd PROVE SelectInv'
<1>. DEFINE s == [session EXCEPT !.stage = "retry", !.partial = @ \/ session.chunk <= Len(plan)]
<1>1. Goes(s) /\ Free /\ session.stage = "propose" /\ (session.chunk > Len(plan) \/ Blocked)
  BY DEF ChunksEnd, At
<1>2. CallInv' /\ ReplyInv' /\ Free' /\ session' = s /\ plan' = plan /\ elapsed' = elapsed
  <2>. HIDE DEF s
  <2>. QED BY <1>1, GoesOn DEF SelectInv
<1>3. /\ session \in SessionFields /\ ChunkInv /\ ReserveInv /\ plan \in Plans
      /\ Len(plan) \in Nat
  BY PlanIsChunks DEF SelectInv, SessionInv
<1>4. /\ s.stage = "retry" /\ s.chunk = session.chunk /\ s.requests = session.requests
      /\ s.partial = (session.partial \/ session.chunk <= Len(plan))
      /\ s.answered = session.answered /\ s.last = session.last
      /\ s.toppedUp = session.toppedUp /\ s.ranked = session.ranked
  BY <1>3 DEF SessionFields
<1>5. s \in SessionFields
  <2>1. (session.partial \/ session.chunk <= Len(plan)) \in BOOLEAN OBVIOUS
  <2>. QED BY <1>3, <2>1 DEF SessionFields, Stages
<1>. HIDE DEF s
<1>6. (session \in SessionFields)' BY <1>2, <1>4, <1>5 DEF SessionFields
<1>7. ChunkInv'
  <2>1. ~s.partial => ~session.partial /\ ~(session.chunk <= Len(plan)) BY <1>4, Zenon
  <2>2. ~(session.chunk <= Len(plan)) => session.chunk - 1 = Len(plan)
    BY <1>3 DEF ChunkInv
  <2>3. ~s.partial => s.answered = 1..Len(plan)
    BY <1>1, <1>3, <1>4, <2>1, <2>2, Zenon DEF ChunkInv
  <2>. QED BY <1>2, <1>3, <1>4, <2>3 DEF ChunkInv
<1>8. ReserveInv' BY <1>1, <1>2, <1>3, <1>4 DEF ReserveInv
<1>. QED BY <1>2, <1>6, <1>7, <1>8 DEF SelectInv, SessionInv

LEMMA ChunkAnsweredHolds == ASSUME SelectInv, ChunkAnswered PROVE SelectInv'
<1>1. PICK found \in SUBSET plan[session.chunk], name \in Named(reply.answer):
        Goes([session EXCEPT !.chunk = @ + 1, !.answered = @ \union {session.chunk},
                             !.pool = @ \union found, !.last = name])
  BY DEF ChunkAnswered
<1>2. reply # None /\ reply.answer # 0 /\ session.stage = "propose"
  BY DEF ChunkAnswered, Answered, At
<1>. DEFINE s == [session EXCEPT !.chunk = @ + 1, !.answered = @ \union {session.chunk},
                                 !.pool = @ \union found, !.last = name]
<1>3. CallInv' /\ ReplyInv' /\ Free' /\ session' = s /\ plan' = plan /\ elapsed' = elapsed
  <2>1. Goes(s) BY <1>1
  <2>. HIDE DEF s
  <2>. QED BY <1>2, <2>1, GoesOn DEF SelectInv
<1>4. /\ session \in SessionFields /\ ChunkInv /\ ReserveInv /\ plan \in Plans
      /\ Len(plan) \in Nat /\ \A i \in 1..Len(plan): plan[i] \subseteq Moment
  BY PlanIsChunks DEF SelectInv, SessionInv
<1>5. session.chunk \in 1..Len(plan) BY <1>2, <1>4 DEF ChunkInv, Free
<1>6. found \subseteq Moment BY <1>4, <1>5
<1>7. name \in Position
  <2>1. reply.answer \in Position BY <1>2 DEF SelectInv, ReplyInv, Reply
  <2>. QED BY <2>1, ChainBounds DEF Named
<1>8. /\ s.stage = session.stage /\ s.chunk = session.chunk + 1 /\ s.requests = session.requests
      /\ s.partial = session.partial /\ s.answered = session.answered \union {session.chunk}
      /\ s.last = name /\ s.toppedUp = session.toppedUp /\ s.ranked = session.ranked
  BY <1>4 DEF SessionFields
<1>9. s \in SessionFields
  <2>1. session.chunk \in Nat /\ session.chunk + 1 \in Nat BY <1>4, <1>5
  <2>2. session.answered \union {session.chunk} \in SUBSET Nat BY <1>4, <2>1 DEF SessionFields
  <2>3. session.pool \union found \in SUBSET Moment BY <1>4, <1>6 DEF SessionFields
  <2>4. name \in Position \union {0} BY <1>7
  <2>. QED BY <1>4, <2>1, <2>2, <2>3, <2>4 DEF SessionFields
<1>. HIDE DEF s
<1>10. (session \in SessionFields)' BY <1>3, <1>8, <1>9 DEF SessionFields
<1>11. ChunkInv'
  <2>1. s.chunk \in 1..Len(plan)+1 /\ s.chunk - 1 = session.chunk BY <1>5, <1>4, <1>8
  <2>2. ~s.partial => session.answered = 1..session.chunk-1
    BY <1>2, <1>4, <1>8, Zenon DEF ChunkInv
  <2>3. (1..session.chunk-1) \union {session.chunk} = 1..session.chunk BY <1>5
  <2>4. ~s.partial => s.answered = 1..s.chunk-1 BY <1>8, <2>1, <2>2, <2>3, Zenon
  <2>5. s.answered \subseteq 1..Len(plan) BY <1>4, <1>5, <1>8 DEF ChunkInv
  <2>. QED BY <1>2, <1>3, <1>7, <1>8, <2>1, <2>4, <2>5 DEF ChunkInv
<1>12. ReserveInv' BY <1>2, <1>3, <1>4, <1>8 DEF ReserveInv
<1>. QED BY <1>3, <1>4, <1>10, <1>11, <1>12 DEF SelectInv, SessionInv

LEMMA ChunkFailedHolds == ASSUME SelectInv, ChunkFailed PROVE SelectInv'
<1>. DEFINE s == [session EXCEPT !.chunk = @ + 1, !.partial = TRUE]
<1>1. Goes(s) /\ reply # None /\ session.stage = "propose" /\ session.answered # {}
  BY DEF ChunkFailed, Unanswered, At
<1>2. CallInv' /\ ReplyInv' /\ Free' /\ session' = s /\ plan' = plan /\ elapsed' = elapsed
  <2>. HIDE DEF s
  <2>. QED BY <1>1, GoesOn DEF SelectInv
<1>3. /\ session \in SessionFields /\ ChunkInv /\ ReserveInv /\ plan \in Plans
      /\ Len(plan) \in Nat
  BY PlanIsChunks DEF SelectInv, SessionInv
<1>4. session.chunk \in 1..Len(plan) BY <1>1, <1>3 DEF ChunkInv, Free
<1>5. /\ s.stage = session.stage /\ s.chunk = session.chunk + 1 /\ s.requests = session.requests
      /\ s.partial = TRUE /\ s.answered = session.answered /\ s.last = session.last
      /\ s.toppedUp = session.toppedUp /\ s.ranked = session.ranked
  BY <1>3 DEF SessionFields
<1>6. s \in SessionFields
  <2>1. session.chunk + 1 \in Nat BY <1>3, <1>4
  <2>. QED BY <1>3, <2>1 DEF SessionFields
<1>. HIDE DEF s
<1>7. (session \in SessionFields)' BY <1>2, <1>5, <1>6 DEF SessionFields
<1>8. ChunkInv'
  <2>1. s.chunk \in 1..Len(plan)+1 BY <1>3, <1>4, <1>5
  <2>. QED BY <1>1, <1>2, <1>3, <1>5, <2>1 DEF ChunkInv
<1>9. ReserveInv' BY <1>1, <1>2, <1>3, <1>5 DEF ReserveInv
<1>. QED BY <1>2, <1>3, <1>7, <1>8, <1>9 DEF SelectInv, SessionInv
-----------------------------------------------------------------------------
(* A step that only leads to a later stage, with the pool it had or, from  *)
(* the retry, a larger one.                                                *)
LEMMA StageEnds ==
    ASSUME SelectInv, Free \/ reply # None, NEW s, Goes(s),
           NEW stage \in {"topup", "rerank", "return"}, session.stage # "propose",
           s \in SessionFields',
           s.stage = stage, s.chunk = session.chunk, s.requests = session.requests,
           s.partial = session.partial, s.answered = session.answered,
           s.last = session.last, s.toppedUp = session.toppedUp,
           s.pool = session.pool \/ session.stage = "retry",
           session.toppedUp /\ RerankWanted =>
              CASE stage = "topup" -> FALSE
                [] stage = "rerank" -> session.requests < MaxRequests
                [] stage = "return" -> s.reranked \/ elapsed >= Deadline
    PROVE  SelectInv'
<1>1. CallInv' /\ ReplyInv' /\ Free' /\ session' = s /\ plan' = plan /\ elapsed' = elapsed
  BY GoesOn DEF SelectInv
<1>2. /\ ChunkInv /\ ReserveInv /\ plan \in Plans
  BY DEF SelectInv, SessionInv
<1>3. ChunkInv' BY <1>1, <1>2 DEF ChunkInv
<1>4. ReserveInv'
  <2>1. CASE session.stage = "retry" BY <1>1, <1>2, <2>1 DEF ReserveInv
  <2>2. CASE session.stage # "retry"
    <3>1. RerankWanted' = RerankWanted BY <1>1, <2>2, SamePool
    <3>. QED BY <1>1, <1>2, <3>1 DEF ReserveInv
  <2>. QED BY <2>1, <2>2
<1>. QED BY <1>1, <1>2, <1>3, <1>4 DEF SelectInv, SessionInv

LEMMA RetryHolds ==
    ASSUME SelectInv, NoRetry \/ RetryAnswered \/ RetryFailed
    PROVE  SelectInv'
<1>1. session \in SessionFields /\ ReserveInv /\ ChunkInv /\ plan \in Plans
  BY DEF SelectInv, SessionInv
<1>2. CASE NoRetry \/ RetryFailed
  <2>. DEFINE s == [session EXCEPT !.stage = "topup"]
  <2>1. Goes(s) /\ (Free \/ reply # None) /\ session.stage = "retry"
    BY <1>2 DEF NoRetry, RetryFailed, Unanswered, At
  <2>2. /\ s.stage = "topup" /\ s.chunk = session.chunk /\ s.requests = session.requests
        /\ s.partial = session.partial /\ s.answered = session.answered
        /\ s.last = session.last /\ s.toppedUp = session.toppedUp
        /\ s.pool = session.pool /\ s.ranked = session.ranked
    BY <1>1 DEF SessionFields
  <2>3. s \in SessionFields BY <1>1 DEF SessionFields, Stages
  <2>. HIDE DEF s
  <2>4. session' = s BY <2>1, GoesOn DEF SelectInv
  <2>5. s \in SessionFields' BY <2>2, <2>3, <2>4 DEF SessionFields
  <2>. QED BY <1>1, <2>1, <2>2, <2>5, StageEnds DEF ReserveInv
<1>3. CASE RetryAnswered
  <2>1. PICK chunk \in Weakest: \E found \in SUBSET plan[chunk]:
          Goes([session EXCEPT !.stage = "topup", !.pool = @ \union found])
    BY <1>3 DEF RetryAnswered
  <2>2. PICK found \in SUBSET plan[chunk]:
          Goes([session EXCEPT !.stage = "topup", !.pool = @ \union found])
    BY <2>1
  <2>3. found \subseteq Moment
    <3>1. chunk \in 1..Len(plan) BY <1>1 DEF Weakest, ChunkInv
    <3>. QED BY <1>1, <3>1, PlanIsChunks
  <2>. DEFINE s == [session EXCEPT !.stage = "topup", !.pool = @ \union found]
  <2>4. Goes(s) /\ reply # None /\ session.stage = "retry"
    BY <1>3, <2>2 DEF RetryAnswered, Answered, At
  <2>5. /\ s.stage = "topup" /\ s.chunk = session.chunk /\ s.requests = session.requests
        /\ s.partial = session.partial /\ s.answered = session.answered
        /\ s.last = session.last /\ s.toppedUp = session.toppedUp
        /\ s.ranked = session.ranked
    BY <1>1 DEF SessionFields
  <2>6. s \in SessionFields
    <3>1. session.pool \union found \in SUBSET Moment BY <1>1, <2>3 DEF SessionFields
    <3>. QED BY <1>1, <3>1 DEF SessionFields, Stages
  <2>. HIDE DEF s
  <2>7. session' = s BY <2>4, GoesOn DEF SelectInv
  <2>8. s \in SessionFields' BY <2>5, <2>6, <2>7 DEF SessionFields
  <2>. QED BY <1>1, <2>4, <2>5, <2>8, StageEnds DEF ReserveInv
<1>. QED BY <1>2, <1>3

LEMMA TopupHolds ==
    ASSUME SelectInv, NoTopup \/ TopupAnswered \/ TopupFailed
    PROVE  SelectInv'
<1>1. session \in SessionFields /\ ReserveInv BY DEF SelectInv, SessionInv
<1>2. PICK found \in SUBSET Moment:
        /\ session.stage = "topup" /\ (Free \/ reply # None)
        /\ \/ Goes([session EXCEPT !.stage = "rerank"])
           \/ Goes([session EXCEPT !.stage = "rerank", !.topup = found])
  BY DEF NoTopup, TopupAnswered, TopupFailed, Answered, Unanswered, At
<1>3. PICK s \in {[session EXCEPT !.stage = "rerank"],
                  [session EXCEPT !.stage = "rerank", !.topup = found]}: Goes(s)
  BY <1>2
<1>4. /\ s.stage = "rerank" /\ s.chunk = session.chunk /\ s.requests = session.requests
      /\ s.partial = session.partial /\ s.answered = session.answered
      /\ s.last = session.last /\ s.toppedUp = session.toppedUp
      /\ s.pool = session.pool /\ s.ranked = session.ranked
      /\ s \in SessionFields
  <2>1. CASE s = [session EXCEPT !.stage = "rerank"] BY <1>1, <2>1 DEF SessionFields, Stages
  <2>2. CASE s = [session EXCEPT !.stage = "rerank", !.topup = found]
    BY <1>1, <2>2 DEF SessionFields, Stages
  <2>. QED BY <2>1, <2>2
<1>5. session' = s BY <1>2, <1>3, GoesOn DEF SelectInv
<1>6. s \in SessionFields' BY <1>4, <1>5 DEF SessionFields
<1>7. session.toppedUp /\ RerankWanted => session.requests < MaxRequests
  BY <1>1, <1>2 DEF ReserveInv
<1>. QED BY <1>2, <1>3, <1>4, <1>6, <1>7, StageEnds

LEMMA RerankHolds ==
    ASSUME SelectInv, NoRerank \/ Reranked \/ RerankFailed
    PROVE  SelectInv'
<1>1. session \in SessionFields /\ ReserveInv /\ elapsed \in Nat
  BY DEF SelectInv, SessionInv
<1>0. PICK order: \E reranked \in BOOLEAN:
        /\ session.stage = "rerank" /\ Ranks(order, reranked)
        /\ ~reranked => Free /\ (~RerankWanted \/ Blocked)
        /\ Free \/ reply # None
  <2>1. CASE NoRerank
    <3>1. Free /\ (~RerankWanted \/ Blocked) /\ Ranks(ByScore(Kept), FALSE)
          /\ session.stage = "rerank"
      BY <2>1 DEF NoRerank, At
    <3>. QED BY <3>1, Zenon
  <2>2. CASE Reranked
    <3>1. PICK order \in SetToSeqs(Kept): Ranks(order, TRUE) BY <2>2 DEF Reranked
    <3>2. session.stage = "rerank" /\ reply # None BY <2>2 DEF Reranked, Answered, At
    <3>. QED BY <3>1, <3>2, Zenon
  <2>3. CASE RerankFailed
    <3>1. Ranks(ByScore(Kept), TRUE) /\ session.stage = "rerank" /\ reply # None
      BY <2>3 DEF RerankFailed, Unanswered, At
    <3>. QED BY <3>1, Zenon
  <2>. QED BY <2>1, <2>2, <2>3
<1>2. PICK reranked \in BOOLEAN:
        /\ session.stage = "rerank" /\ Ranks(order, reranked)
        /\ ~reranked => Free /\ (~RerankWanted \/ Blocked)
        /\ Free \/ reply # None
  BY <1>0
<1>. DEFINE ranked == order \o ByScore(session.topup)
            s == [session EXCEPT !.stage = "return", !.reranked = reranked, !.ranked = ranked]
<1>3. Goes(s) BY <1>2 DEF Ranks
<1>. HIDE DEF ranked
<1>4. /\ s.stage = "return" /\ s.chunk = session.chunk /\ s.requests = session.requests
      /\ s.partial = session.partial /\ s.answered = session.answered
      /\ s.last = session.last /\ s.toppedUp = session.toppedUp
      /\ s.pool = session.pool /\ s.ranked = ranked /\ s.reranked = reranked
  BY <1>1 DEF SessionFields
<1>5. s \in [stage: Stages, requests: Nat, chunk: Nat, answered: SUBSET Nat, partial: BOOLEAN,
             last: Position \union {0}, pool: SUBSET Moment, toppedUp: BOOLEAN,
             topup: SUBSET Moment, reranked: BOOLEAN, ranked: {ranked}]
  <2>. DEFINE r == [session EXCEPT !.stage = "return", !.reranked = reranked]
  <2>1. r \in SessionFields BY <1>1, <1>2 DEF SessionFields, Stages
  <2>2. s = [r EXCEPT !.ranked = ranked] OBVIOUS
  <2>. HIDE DEF r, s
  <2>. QED BY <2>1, <2>2 DEF SessionFields
<1>. HIDE DEF s
<1>6. session' = s BY <1>2, <1>3, GoesOn DEF SelectInv
<1>7. s \in SessionFields' BY <1>4, <1>5, <1>6 DEF SessionFields
<1>8. session.toppedUp /\ RerankWanted => s.reranked \/ elapsed >= Deadline
  <2>1. CASE reranked BY <1>4, <2>1
  <2>2. CASE ~reranked
    <3>1. session.toppedUp /\ RerankWanted => session.requests < MaxRequests
      BY <1>1, <1>2, <2>2 DEF ReserveInv
    <3>2. session.requests \in Nat /\ MaxRequests \in Nat
      BY <1>1, SelectionAssumption DEF ReserveInv
    <3>. QED BY <1>2, <2>2, <3>1, <3>2 DEF Blocked
  <2>. QED BY <2>1, <2>2
<1>. QED BY <1>2, <1>3, <1>4, <1>7, <1>8, StageEnds

LEMMA AskHolds ==
    ASSUME SelectInv, AskChunk \/ AskRetry \/ AskTopup \/ AskRerank
    PROVE  SelectInv'
<1>1. CASE AskChunk
  <2>1. session.stage = "propose" /\ session.chunk <= Len(plan) /\ Request(1, 0, FALSE)
    BY <1>1 DEF AskChunk, At
  <2>. QED BY <2>1, FirstPosition, RequestHolds
<1>2. CASE AskRetry
  <2>1. session.stage = "retry" /\ RetryWanted BY <1>2 DEF AskRetry, At
  <2>2. session.last \in Position
    BY <2>1 DEF RetryWanted, SelectInv, SessionInv, ChunkInv
  <2>3. CASE Following(session.last) = 0
    <3>1. Request(1, 0, FALSE) BY <1>2, <2>3 DEF AskRetry
    <3>. QED BY <2>1, <3>1, FirstPosition, RequestHolds
  <2>4. CASE Following(session.last) # 0
    <3>1. Following(session.last) \in Position BY <2>4 DEF Following
    <3>2. OwnOf(session.last) \in 0..Len(Order)
      <4>1. LastOf(session.last) \in Position BY <2>2, ChainBounds
      <4>2. Position \subseteq 0..Len(Order) BY ClientAssumption DEF Position
      <4>. QED BY <4>1, <4>2, FirstPosition DEF OwnOf
    <3>3. Request(Following(session.last), OwnOf(session.last), FALSE)
      BY <1>2, <2>4 DEF AskRetry
    <3>. QED BY <2>1, <3>1, <3>2, <3>3, RequestHolds
  <2>. QED BY <2>3, <2>4
<1>3. CASE AskTopup
  <2>1. /\ session.stage = "topup" /\ MaxRequests - session.requests > Reserve
        /\ Request(1, 0, TRUE)
    BY <1>3 DEF AskTopup, At
  <2>2. session.requests \in Nat /\ MaxRequests \in Nat
    BY SelectionAssumption DEF SelectInv, SessionInv, ReserveInv
  <2>3. RerankWanted => session.requests + 1 < MaxRequests
    BY <2>1, <2>2 DEF RerankWanted, Reserve
  <2>. QED BY <2>1, <2>3, FirstPosition, RequestHolds
<1>4. CASE AskRerank
  <2>1. session.stage = "rerank" /\ Request(1, 0, FALSE) BY <1>4 DEF AskRerank, At
  <2>. QED BY <2>1, FirstPosition, RequestHolds
<1>. QED BY <1>1, <1>2, <1>3, <1>4

LEMMA NextHolds == ASSUME SelectInv, [Next]_vars PROVE SelectInv'
<1>0. elapsed \in Nat BY DEF SelectInv, SessionInv
<1>1. CASE Server BY <1>1, ServerHolds
<1>2. CASE AskChunk \/ AskRetry \/ AskTopup \/ AskRerank BY <1>2, AskHolds
<1>3. CASE ChunksEnd BY <1>3, ChunksEndHolds
<1>4. CASE ChunkAnswered BY <1>4, ChunkAnsweredHolds
<1>5. CASE ChunkFailed BY <1>5, ChunkFailedHolds
<1>6. CASE NoRetry \/ RetryAnswered \/ RetryFailed BY <1>6, RetryHolds
<1>7. CASE NoTopup \/ TopupAnswered \/ TopupFailed BY <1>7, TopupHolds
<1>8. CASE NoRerank \/ Reranked \/ RerankFailed BY <1>8, RerankHolds
<1>9. CASE FirstFails BY <1>9, EndedHolds DEF FirstFails
<1>10. CASE Return BY <1>10, EndedHolds DEF Return
<1>11. CASE Abandon BY <1>11, EndedHolds DEF Abandon
<1>12. CASE Select \/ Done \/ UNCHANGED vars
  <2>1. UNCHANGED <<cooling, call, reply, plan, elapsed, session>>
    BY <1>12 DEF Select, Rest, Done, vars, llmVars
  <2>2. CallInv' /\ ReplyInv' /\ (Free' <=> Free)
    BY <2>1 DEF SelectInv, CallInv, ReplyInv, Free
  <2>. QED BY <1>0, <2>1, <2>2, QuietSession
<1>13. CASE Elapse
  <2>1. UNCHANGED <<cooling, call, reply, plan, session>> /\ elapsed' = elapsed + 1
    BY <1>13 DEF Elapse, llmVars
  <2>2. CallInv' /\ ReplyInv' /\ (Free' <=> Free)
    BY <2>1 DEF SelectInv, CallInv, ReplyInv, Free
  <2>. QED BY <1>0, <2>1, <2>2, QuietSession
<1>. QED BY <1>1, <1>2, <1>3, <1>4, <1>5, <1>6, <1>7, <1>8, <1>9, <1>10, <1>11, <1>12, <1>13
         DEF Next, SessionStep
-----------------------------------------------------------------------------
(* Induction and recursion.  The library's induction theorems take an      *)
(* operator; these take a set, so that they can be cited.                  *)

LEMMA Least ==
    ASSUME NEW T \in SUBSET Nat, T # {}
    PROVE  \E n \in T: \A m \in T: n <= m
<1>1. IsWellFoundedOn(OpToRel(<, Nat), Nat) BY NatLessThanWellFounded
<1>2. PICK n \in T: \A m \in T: ~(<<m, n>> \in OpToRel(<, Nat))
  <2>. HIDE DEF OpToRel
  <2>. QED BY <1>1, WFMin
<1>3. \A m \in T: ~(m < n) BY <1>2 DEF OpToRel
<1>. QED BY <1>3

LEMMA Induction ==
    ASSUME NEW n \in Nat, NEW T, 0 \in T, \A i \in 1..n: i-1 \in T => i \in T
    PROVE  \A i \in 0..n: i \in T
<1>. SUFFICES ASSUME ~(0..n \subseteq T) PROVE FALSE OBVIOUS
<1>1. 0..n \ T \subseteq Nat /\ 0..n \ T # {} OBVIOUS
<1>2. PICK i \in 0..n \ T: \A m \in 0..n \ T: i <= m BY <1>1, Least
<1>. QED BY <1>2

\* at is the walk's way through the first n elements.
Steps(at, step, base, seq, n) ==
    at = [i \in 0..n |-> IF i = 0 THEN base ELSE step[seq[i]][at[i-1]]]

LEMMA StepsExist ==
    ASSUME NEW step, NEW base, NEW seq, NEW n \in Nat
    PROVE  \E at: Steps(at, step, base, seq, n)
<1>. DEFINE T == {m \in 0..n: \E at: Steps(at, step, base, seq, m)}
<1>1. 0 \in T
  <2>1. Steps([i \in 0..0 |-> base], step, base, seq, 0) BY DEF Steps
  <2>. QED BY <2>1
<1>2. ASSUME NEW m \in 1..n, m-1 \in T PROVE m \in T
  <2>1. PICK g: Steps(g, step, base, seq, m-1) BY <1>2
  <2>. DEFINE h == [i \in 0..m |-> IF i = m THEN step[seq[m]][g[m-1]] ELSE g[i]]
  <2>2. \A i \in 0..m-1: g[i] = IF i = 0 THEN base ELSE step[seq[i]][g[i-1]] BY <2>1 DEF Steps
  <2>3. \A i \in 0..m: h[i] = IF i = 0 THEN base ELSE step[seq[i]][h[i-1]] BY <2>2
  <2>4. h = [i \in 0..m |-> h[i]] OBVIOUS
  <2>5. Steps(h, step, base, seq, m)
    <3>. HIDE DEF h
    <3>. QED BY <2>3, <2>4 DEF Steps
  <2>6. \E at: Steps(at, step, base, seq, m) BY <2>5, Zenon
  <2>. QED BY <2>6
<1>3. \A i \in 0..n: i \in T
  <2>. HIDE DEF T
  <2>. QED BY <1>1, <1>2, Induction
<1>. QED BY <1>3

\* What the proofs below know of a walk.
Way(at, step, base, seq) ==
    /\ at[0] = base
    /\ \A i \in 1..Len(seq): at[i] = step[seq[i]][at[i-1]]
    /\ Walk(step, base, seq) = at[Len(seq)]

LEMMA WalkSteps ==
    ASSUME NEW step, NEW base, NEW seq, Len(seq) \in Nat
    PROVE  \E at: Way(at, step, base, seq)
<1>. DEFINE f == CHOOSE at: Steps(at, step, base, seq, Len(seq))
<1>1. \E at: Steps(at, step, base, seq, Len(seq)) BY StepsExist
<1>2. Steps(f, step, base, seq, Len(seq)) BY <1>1
<1>3. Walk(step, base, seq) = f[Len(seq)] BY Zenon DEF Walk, Steps
<1>. HIDE DEF f
<1>4. \A i \in 0..Len(seq): f[i] = IF i = 0 THEN base ELSE step[seq[i]][f[i-1]]
  BY <1>2 DEF Steps
<1>5. f[0] = base BY <1>4
<1>6. \A i \in 1..Len(seq): f[i] = step[seq[i]][f[i-1]] BY <1>4
<1>7. Way(f, step, base, seq) BY <1>3, <1>5, <1>6 DEF Way
<1>. QED BY <1>7, Zenon

\* A walk over one sequence and then another.
LEMMA WalkConcat ==
    ASSUME NEW S, NEW p \in Seq(S), NEW q \in Seq(S), NEW step, NEW base
    PROVE  Walk(step, base, p \o q) = Walk(step, Walk(step, base, p), q)
<1>0. /\ Len(p) \in Nat /\ Len(q) \in Nat /\ Len(p \o q) = Len(p) + Len(q)
      /\ \A i \in 1..Len(p): (p \o q)[i] = p[i]
      /\ \A i \in 1..Len(q): (p \o q)[Len(p) + i] = q[i]
  OBVIOUS
<1>. Len(p \o q) \in Nat OBVIOUS
<1>1. PICK all: Way(all, step, base, p \o q) BY WalkSteps, Zenon
<1>2. PICK one: Way(one, step, base, p) BY <1>0, WalkSteps
<1>3. PICK two: Way(two, step, Walk(step, base, p), q) BY <1>0, WalkSteps
<1>4. \A i \in 0..Len(p): all[i] = one[i]
  <2>. DEFINE T == {i \in 0..Len(p): all[i] = one[i]}
  <2>1. 0 \in T BY <1>0, <1>1, <1>2 DEF Way
  <2>2. ASSUME NEW i \in 1..Len(p), i-1 \in T PROVE i \in T
    <3>1. i \in 1..Len(p \o q) /\ (p \o q)[i] = p[i] BY <1>0
    <3>2. all[i-1] = one[i-1] BY <2>2
    <3>3. all[i] = step[p[i]][all[i-1]] BY <1>1, <3>1 DEF Way
    <3>4. one[i] = step[p[i]][one[i-1]] BY <1>2 DEF Way
    <3>. QED BY <3>2, <3>3, <3>4
  <2>3. \A i \in 0..Len(p): i \in T
    <3>. HIDE DEF T
    <3>. QED BY <1>0, <2>1, <2>2, Induction
  <2>. QED BY <2>3
<1>5. all[Len(p)] = two[0] BY <1>0, <1>2, <1>3, <1>4 DEF Way
<1>6. \A i \in 0..Len(q): all[Len(p) + i] = two[i]
  <2>. DEFINE T == {i \in 0..Len(q): all[Len(p) + i] = two[i]}
  <2>1. 0 \in T BY <1>0, <1>5
  <2>2. ASSUME NEW i \in 1..Len(q), i-1 \in T PROVE i \in T
    <3>. DEFINE k == Len(p) + i
    <3>1. k \in 1..Len(p \o q) /\ (p \o q)[k] = q[i] /\ k-1 = Len(p) + (i-1) BY <1>0
    <3>2. all[k-1] = two[i-1] BY <2>2, <3>1
    <3>3. all[k] = step[q[i]][all[k-1]]
      <4>. HIDE DEF k
      <4>. QED BY <1>1, <3>1 DEF Way
    <3>4. two[i] = step[q[i]][two[i-1]] BY <1>3 DEF Way
    <3>. QED BY <3>2, <3>3, <3>4
  <2>3. \A i \in 0..Len(q): i \in T
    <3>. HIDE DEF T
    <3>. QED BY <1>0, <2>1, <2>2, Induction
  <2>. QED BY <2>3
<1>7. Walk(step, base, p \o q) = all[Len(p) + Len(q)] BY <1>0, <1>1 DEF Way
<1>8. all[Len(p) + Len(q)] = two[Len(q)] BY <1>0, <1>6
<1>. QED BY <1>3, <1>7, <1>8 DEF Way
-----------------------------------------------------------------------------
(* Sequences of candidates.                                                *)

LEMMA Overlaps ==
    /\ \A c \in Candidate: Overlap(c, c)
    /\ \A c, d \in Candidate: Overlap(c, d) <=> Overlap(d, c)
<1>1. \A c \in Candidate: Span[c][1] \in Int /\ Span[c][2] \in Int /\ Span[c][1] <= Span[c][2]
  BY RankingAssumption
<1>. QED BY <1>1 DEF Overlap

LEMMA ElemsOf ==
    ASSUME NEW S, NEW s \in Seq(S)
    PROVE  /\ Len(s) \in Nat /\ Elems(s) \in SUBSET S
           /\ \A i \in 1..Len(s): s[i] \in Elems(s)
           /\ \A c \in Elems(s): \E i \in 1..Len(s): s[i] = c
BY DEF Elems

LEMMA SeqOfElems ==
    ASSUME NEW S, NEW s \in Seq(S), NEW T, Elems(s) \subseteq T
    PROVE  s \in Seq(T)
<1>1. Len(s) \in Nat /\ \A i \in 1..Len(s): s[i] \in T BY ElemsOf
<1>2. s = [i \in 1..Len(s) |-> s[i]] OBVIOUS
<1>. QED BY <1>1, <1>2

LEMMA ElemsOfEmpty == Elems(<< >>) = {} BY DEF Elems

LEMMA ElemsOfAppend ==
    ASSUME NEW S, NEW s \in Seq(S), NEW c \in S
    PROVE  /\ Append(s, c) \in Seq(S) /\ Len(Append(s, c)) = Len(s) + 1
           /\ Append(s, c)[Len(s) + 1] = c
           /\ \A i \in 1..Len(s): Append(s, c)[i] = s[i]
           /\ Elems(Append(s, c)) = Elems(s) \union {c}
<1>1. /\ Append(s, c) \in Seq(S) /\ Len(Append(s, c)) = Len(s) + 1 /\ Len(s) \in Nat
      /\ Append(s, c)[Len(s) + 1] = c
      /\ \A i \in 1..Len(s): Append(s, c)[i] = s[i]
  OBVIOUS
<1>2. DOMAIN Append(s, c) = 1..Len(s)+1 /\ DOMAIN s = 1..Len(s) OBVIOUS
<1>3. Elems(Append(s, c)) = Elems(s) \union {c}
  <2>. DEFINE r == Append(s, c)
  <2>1. \A i \in 1..Len(s)+1: i = Len(s)+1 \/ i \in 1..Len(s) BY <1>1
  <2>2. Len(s)+1 \in 1..Len(s)+1 /\ \A i \in 1..Len(s): i \in 1..Len(s)+1 BY <1>1
  <2>. HIDE DEF r
  <2>3. /\ DOMAIN r = 1..Len(s)+1 /\ r[Len(s)+1] = c /\ \A i \in 1..Len(s): r[i] = s[i]
    BY <1>1, <1>2 DEF r
  <2>4. Elems(r) = Elems(s) \union {c} BY <1>2, <2>1, <2>2, <2>3 DEF Elems
  <2>. QED BY <2>4 DEF r
<1>. QED BY <1>1, <1>3

LEMMA ElemsOfConcat ==
    ASSUME NEW S, NEW s \in Seq(S), NEW t \in Seq(S)
    PROVE  s \o t \in Seq(S) /\ Elems(s \o t) = Elems(s) \union Elems(t)
<1>. DEFINE r == s \o t
<1>1. /\ r \in Seq(S) /\ Len(s) \in Nat /\ Len(t) \in Nat /\ Len(r) = Len(s) + Len(t)
      /\ \A i \in 1..Len(s): r[i] = s[i]
      /\ \A i \in 1..Len(t): r[Len(s) + i] = t[i]
  OBVIOUS
<1>. HIDE DEF r
<1>2. /\ Elems(r) = {r[i]: i \in 1..Len(r)} /\ Elems(s) = {s[i]: i \in 1..Len(s)}
      /\ Elems(t) = {t[i]: i \in 1..Len(t)}
  <2>1. DOMAIN r = 1..Len(r) /\ DOMAIN s = 1..Len(s) /\ DOMAIN t = 1..Len(t) BY <1>1
  <2>. QED BY <2>1, Zenon DEF Elems
<1>3. Elems(r) \subseteq Elems(s) \union Elems(t)
  <2>. SUFFICES ASSUME NEW i \in 1..Len(r) PROVE r[i] \in Elems(s) \union Elems(t)
    BY <1>2
  <2>1. CASE i \in 1..Len(s) BY <1>1, <1>2, <2>1
  <2>2. CASE i \notin 1..Len(s)
    <3>. DEFINE k == i - Len(s)
    <3>1. k \in 1..Len(t) /\ i = Len(s) + k BY <1>1, <2>2
    <3>. HIDE DEF k
    <3>2. r[i] = t[k] BY <1>1, <3>1
    <3>. QED BY <1>2, <3>1, <3>2
  <2>. QED BY <2>1, <2>2
<1>4. Elems(s) \subseteq Elems(r)
  <2>1. \A i \in 1..Len(s): i \in 1..Len(r) BY <1>1
  <2>. QED BY <1>1, <1>2, <2>1
<1>5. Elems(t) \subseteq Elems(r)
  <2>1. \A i \in 1..Len(t): Len(s) + i \in 1..Len(r) BY <1>1
  <2>2. \A i \in 1..Len(t): t[i] \in Elems(r) BY <1>1, <1>2, <2>1
  <2>. QED BY <1>2, <2>2
<1>6. r \in Seq(S) /\ Elems(r) = Elems(s) \union Elems(t) BY <1>1, <1>3, <1>4, <1>5
<1>. QED BY <1>6 DEF r

\* A filter keeps what is in the set.
LEMMA WhereKeeps ==
    ASSUME NEW seq \in Clips, NEW S
    PROVE  Where(seq, S) \in Clips /\ Elems(Where(seq, S)) = Elems(seq) \cap S
<1>. DEFINE step == [c \in Candidate |-> [kept \in Clips |->
                       IF c \in S THEN Append(kept, c) ELSE kept]]
<1>1. \A c \in Candidate, kept \in Clips: step[c][kept] = IF c \in S THEN Append(kept, c) ELSE kept
  OBVIOUS
<1>2. Where(seq, S) = Walk(step, << >>, seq) BY DEF Where
<1>. HIDE DEF step
<1>3. Len(seq) \in Nat /\ \A i \in 1..Len(seq): seq[i] \in Candidate BY DEF Clips
<1>4. PICK at: Way(at, step, << >>, seq) BY <1>3, WalkSteps
<1>. DEFINE T == {i \in 0..Len(seq): /\ at[i] \in Clips
                                     /\ Elems(at[i]) = {seq[j]: j \in 1..i} \cap S}
<1>5. 0 \in T
  <2>1. at[0] = << >> /\ << >> \in Clips BY <1>4 DEF Way, Clips
  <2>. QED BY <1>3, <2>1, ElemsOfEmpty
<1>6. ASSUME NEW i \in 1..Len(seq), i-1 \in T PROVE i \in T
  <2>1. at[i-1] \in Clips /\ Elems(at[i-1]) = {seq[j]: j \in 1..i-1} \cap S BY <1>6
  <2>2. at[i] = IF seq[i] \in S THEN Append(at[i-1], seq[i]) ELSE at[i-1]
    BY <1>1, <1>3, <1>4, <2>1 DEF Way
  <2>3. {seq[j]: j \in 1..i} = {seq[j]: j \in 1..i-1} \union {seq[i]}
    <3>1. \A j \in 1..i: j = i \/ j \in 1..i-1 BY <1>3
    <3>2. i \in 1..i /\ \A j \in 1..i-1: j \in 1..i BY <1>3
    <3>. QED BY <3>1, <3>2
  <2>4. seq[i] \in S => at[i] \in Clips /\ Elems(at[i]) = Elems(at[i-1]) \union {seq[i]}
    BY <1>3, <2>1, <2>2, ElemsOfAppend DEF Clips
  <2>5. i \in 0..Len(seq) BY <1>3
  <2>6. at[i] \in Clips BY <2>1, <2>2, <2>4
  <2>7. Elems(at[i]) = {seq[j]: j \in 1..i} \cap S BY <2>1, <2>2, <2>3, <2>4
  <2>. QED BY <2>5, <2>6, <2>7
<1>7. \A i \in 0..Len(seq): i \in T
  <2>. HIDE DEF T
  <2>. QED BY <1>3, <1>5, <1>6, Induction
<1>8. Len(seq) \in T BY <1>3, <1>7
<1>9. Elems(seq) = {seq[j]: j \in 1..Len(seq)} BY DEF Elems, Clips
<1>. QED BY <1>2, <1>4, <1>8, <1>9 DEF Way
-----------------------------------------------------------------------------
(* The clips grow: what a group adds is apart from everything.            *)

(* s continues t with clips of S that share no unit with any other clip.   *)
Grown(t, s, S) ==
    /\ s \in Clips /\ Len(t) <= Len(s)
    /\ \A i \in 1..Len(t): s[i] = t[i]
    /\ \A i, j \in 1..Len(s): i # j /\ i > Len(t) => ~Overlap(s[i], s[j])
    /\ Elems(s) \subseteq Elems(t) \union S

LEMMA GrownSame ==
    ASSUME NEW t \in Clips, NEW S
    PROVE  Grown(t, t, S)
<1>1. Len(t) \in Nat BY DEF Clips
<1>. QED BY <1>1 DEF Grown

LEMMA GrownMore ==
    ASSUME NEW t \in Clips, NEW s, NEW S, Grown(t, s, S),
           NEW c \in Candidate, c \in S, ~OverlapsAny(c, s)
    PROVE  Grown(t, Append(s, c), S)
<1>. DEFINE r == Append(s, c)
<1>0. s \in Clips /\ Len(t) \in Nat /\ Len(s) \in Nat BY DEF Grown, Clips
<1>1. /\ r \in Clips /\ Len(r) = Len(s) + 1 /\ r[Len(s)+1] = c
      /\ \A i \in 1..Len(s): r[i] = s[i]
      /\ Elems(r) = Elems(s) \union {c}
  BY <1>0, ElemsOfAppend DEF Clips
<1>2. \A i \in 1..Len(s): s[i] \in Candidate /\ s[i] \in Elems(s) BY <1>0, ElemsOf DEF Clips
<1>. HIDE DEF r
<1>3. \A i \in 1..Len(t): i \in 1..Len(s) /\ r[i] = t[i] BY <1>0, <1>1 DEF Grown
<1>4. ASSUME NEW i \in 1..Len(r), NEW j \in 1..Len(r), i # j, i > Len(t)
      PROVE ~Overlap(r[i], r[j])
  <2>1. CASE i = Len(s)+1
    <3>1. j \in 1..Len(s) BY <1>0, <1>1, <1>4, <2>1
    <3>. QED BY <1>1, <1>2, <2>1, <3>1 DEF OverlapsAny
  <2>2. CASE j = Len(s)+1
    <3>1. i \in 1..Len(s) BY <1>0, <1>1, <1>4, <2>2
    <3>2. ~Overlap(c, s[i]) BY <1>2, <3>1 DEF OverlapsAny
    <3>. QED BY <1>1, <1>2, <2>2, <3>1, <3>2, Overlaps
  <2>3. CASE i \in 1..Len(s) /\ j \in 1..Len(s) BY <1>1, <1>4, <2>3 DEF Grown
  <2>. QED BY <1>0, <1>1, <2>1, <2>2, <2>3
<1>5. Elems(r) \subseteq Elems(t) \union S BY <1>1 DEF Grown
<1>6. Len(t) <= Len(r) BY <1>0, <1>1 DEF Grown
<1>7. Grown(t, r, S) BY <1>1, <1>3, <1>4, <1>5, <1>6 DEF Grown
<1>. QED BY <1>7 DEF r

LEMMA GrownTwice ==
    ASSUME NEW t \in Clips, NEW s, NEW r, NEW S, NEW R, Grown(t, s, S), Grown(s, r, R)
    PROVE  Grown(t, r, S \union R)
<1>0. s \in Clips /\ r \in Clips /\ Len(t) \in Nat /\ Len(s) \in Nat /\ Len(r) \in Nat
      /\ Len(t) <= Len(s) /\ Len(s) <= Len(r)
  BY DEF Grown, Clips
<1>1. \A i \in 1..Len(r): r[i] \in Candidate BY <1>0 DEF Clips
<1>2. \A i \in 1..Len(s): r[i] = s[i] BY DEF Grown
<1>3. \A i \in 1..Len(t): r[i] = t[i]
  <2>1. \A i \in 1..Len(t): i \in 1..Len(s) /\ s[i] = t[i] BY <1>0 DEF Grown
  <2>. QED BY <1>2, <2>1
<1>4. ASSUME NEW i \in 1..Len(r), NEW j \in 1..Len(r), i # j, i > Len(t)
      PROVE ~Overlap(r[i], r[j])
  <2>1. CASE i > Len(s) BY <1>4, <2>1 DEF Grown
  <2>2. CASE j > Len(s)
    <3>1. ~Overlap(r[j], r[i]) BY <1>4, <2>2 DEF Grown
    <3>. QED BY <1>1, <3>1, Overlaps
  <2>3. CASE i \in 1..Len(s) /\ j \in 1..Len(s)
    <3>1. ~Overlap(s[i], s[j]) BY <1>4, <2>3 DEF Grown
    <3>. QED BY <1>2, <2>3, <3>1
  <2>. QED BY <1>0, <2>1, <2>2, <2>3
<1>5. Elems(r) \subseteq Elems(t) \union (S \union R) BY DEF Grown
<1>6. Len(t) <= Len(r) BY <1>0
<1>. QED BY <1>0, <1>3, <1>4, <1>5, <1>6 DEF Grown

\* The same without positions: clips stay, and a new one means there are more.
LEMMA GrownElems ==
    ASSUME NEW t \in Clips, NEW s, NEW S, Grown(t, s, S)
    PROVE  /\ Elems(t) \subseteq Elems(s)
           /\ \A c \in Elems(s) \ Elems(t): c \in S /\ Len(t) < Len(s)
           /\ \A i \in Len(t)+1..Len(s): s[i] \notin Elems(t)
           /\ \A c: OverlapsAny(c, t) => OverlapsAny(c, s)
<1>0. s \in Clips /\ Len(t) \in Nat /\ Len(s) \in Nat BY DEF Grown, Clips
<1>1. /\ Elems(t) = {t[i]: i \in 1..Len(t)} /\ Elems(s) = {s[i]: i \in 1..Len(s)}
      /\ \A i \in 1..Len(t): t[i] \in Candidate
      /\ \A i \in 1..Len(s): s[i] \in Candidate
  BY <1>0 DEF Elems, Clips
<1>2. \A i \in 1..Len(t): i \in 1..Len(s) /\ s[i] = t[i] BY <1>0 DEF Grown
<1>3. Elems(t) \subseteq Elems(s) BY <1>1, <1>2
<1>4. ASSUME NEW i \in 1..Len(s), s[i] \notin Elems(t) PROVE s[i] \in S /\ Len(t) < Len(s)
  <2>1. i \notin 1..Len(t) BY <1>1, <1>2, <1>4
  <2>2. s[i] \in Elems(s) BY <1>1
  <2>. QED BY <1>0, <1>4, <2>1, <2>2 DEF Grown
<1>5. ASSUME NEW i \in Len(t)+1..Len(s), NEW j \in 1..Len(t), s[i] = t[j] PROVE FALSE
  <2>1. i \in 1..Len(s) /\ j \in 1..Len(s) /\ i # j /\ i > Len(t) BY <1>0, <1>2
  <2>2. ~Overlap(s[i], s[j]) BY <2>1 DEF Grown
  <2>. QED BY <1>1, <1>2, <1>5, <2>1, <2>2, Overlaps
<1>6. \A i \in Len(t)+1..Len(s): s[i] \notin Elems(t) BY <1>1, <1>5
<1>. QED BY <1>1, <1>3, <1>4, <1>6 DEF OverlapsAny
-----------------------------------------------------------------------------
(* A group: the look through it, and the second one at what it deferred.  *)

\* What a look through the first n of a group made of the clips taken before.
Looked(taken, group, n, limit, s) ==
    /\ s \in [chosen: Clips, deferred: Clips]
    /\ Grown(taken, s.chosen, Elems(group))
    /\ Len(s.chosen) <= limit /\ Elems(s.deferred) \subseteq Elems(group)
    /\ \A j \in 1..n: \/ Len(s.chosen) = limit
                      \/ OverlapsAny(group[j], s.chosen) \/ group[j] \in Elems(s.deferred)

\* One element, one step of the look.
LEMMA LookAtOne ==
    ASSUME NEW limit \in Nat, NEW c \in Candidate, NEW s \in [chosen: Clips, deferred: Clips]
    PROVE  Look(limit)[c][s] =
             IF Len(s.chosen) >= limit \/ OverlapsAny(c, s.chosen) THEN s
             ELSE IF Near(c, s.chosen) THEN [s EXCEPT !.deferred = Append(@, c)]
             ELSE [s EXCEPT !.chosen = Append(@, c)]
BY DEF Look

LEMMA LookStep ==
    ASSUME NEW limit \in Nat, NEW taken \in Clips, NEW group \in Clips,
           NEW i \in 1..Len(group), NEW s, Looked(taken, group, i-1, limit, s)
    PROVE  Looked(taken, group, i, limit, Look(limit)[group[i]][s])
<1>. DEFINE c == group[i]
            r == Look(limit)[c][s]
<1>0. /\ c \in Candidate /\ c \in Elems(group) /\ Len(group) \in Nat /\ i \in Nat
      /\ \A j \in 1..Len(group): group[j] \in Candidate
  BY ElemsOf DEF Clips
<1>1. s \in [chosen: Clips, deferred: Clips] /\ s.chosen \in Clips /\ s.deferred \in Clips
      /\ Len(s.chosen) \in Nat
  BY DEF Looked, Clips
<1>2. r = IF Len(s.chosen) >= limit \/ OverlapsAny(c, s.chosen) THEN s
          ELSE IF Near(c, s.chosen) THEN [s EXCEPT !.deferred = Append(@, c)]
          ELSE [s EXCEPT !.chosen = Append(@, c)]
  BY <1>0, <1>1, LookAtOne
<1>. HIDE DEF c, r
<1>3. \A j \in 1..i: j = i \/ j \in 1..i-1 BY <1>0
<1>4. CASE Len(s.chosen) >= limit \/ OverlapsAny(c, s.chosen)
  <2>1. r = s BY <1>2, <1>4
  <2>2. Len(s.chosen) = limit \/ OverlapsAny(c, s.chosen) BY <1>1, <1>4 DEF Looked
  <2>. QED BY <1>3, <2>1, <2>2 DEF Looked, c, r
<1>5. CASE ~(Len(s.chosen) >= limit \/ OverlapsAny(c, s.chosen)) /\ Near(c, s.chosen)
  <2>1. r = [s EXCEPT !.deferred = Append(@, c)] BY <1>2, <1>5
  <2>2. /\ Append(s.deferred, c) \in Clips
        /\ Elems(Append(s.deferred, c)) = Elems(s.deferred) \union {c}
    BY <1>0, <1>1, ElemsOfAppend DEF Clips
  <2>3. /\ r \in [chosen: Clips, deferred: Clips] /\ r.chosen = s.chosen
        /\ r.deferred = Append(s.deferred, c)
    BY <1>1, <2>1, <2>2
  <2>4. Elems(r.deferred) = Elems(s.deferred) \union {c} BY <2>2, <2>3
  <2>5. Looked(taken, group, i, limit, r) BY <1>0, <1>3, <2>3, <2>4 DEF Looked, c
  <2>. QED BY <2>5 DEF r, c
<1>6. CASE ~(Len(s.chosen) >= limit \/ OverlapsAny(c, s.chosen)) /\ ~Near(c, s.chosen)
  <2>1. r = [s EXCEPT !.chosen = Append(@, c)] BY <1>2, <1>6
  <2>2. /\ Append(s.chosen, c) \in Clips /\ Len(Append(s.chosen, c)) = Len(s.chosen) + 1
        /\ Elems(Append(s.chosen, c)) = Elems(s.chosen) \union {c}
    BY <1>0, <1>1, ElemsOfAppend DEF Clips
  <2>3. /\ r \in [chosen: Clips, deferred: Clips] /\ r.chosen = Append(s.chosen, c)
        /\ r.deferred = s.deferred
    BY <1>1, <2>1, <2>2
  <2>4. Grown(taken, r.chosen, Elems(group)) BY <1>0, <1>6, <2>3, GrownMore DEF Looked
  <2>5. Len(r.chosen) <= limit /\ Len(s.chosen) # limit BY <1>1, <1>6, <2>2, <2>3
  <2>6. \A d: OverlapsAny(d, s.chosen) => OverlapsAny(d, r.chosen)
    BY <2>2, <2>3 DEF OverlapsAny
  <2>7. OverlapsAny(c, r.chosen) BY <1>0, <2>2, <2>3, Overlaps DEF OverlapsAny
  <2>8. \A j \in 1..i: OverlapsAny(group[j], r.chosen) \/ group[j] \in Elems(r.deferred)
    BY <1>3, <2>3, <2>5, <2>6, <2>7 DEF Looked, c
  <2>9. Looked(taken, group, i, limit, r) BY <2>3, <2>4, <2>5, <2>8 DEF Looked
  <2>. QED BY <2>9 DEF r, c
<1>. QED BY <1>4, <1>5, <1>6

LEMMA LookThrough ==
    ASSUME NEW limit \in Nat, NEW taken \in Clips, Len(taken) <= limit, NEW group \in Clips
    PROVE  Looked(taken, group, Len(group), limit,
                  Walk(Look(limit), [chosen |-> taken, deferred |-> << >>], group))
<1>. DEFINE base == [chosen |-> taken, deferred |-> << >>]
            step == Look(limit)
<1>0. Len(group) \in Nat BY DEF Clips
<1>. HIDE DEF step
<1>1. PICK at: Way(at, step, base, group) BY <1>0, WalkSteps, Zenon
<1>. DEFINE T == {i \in 0..Len(group): Looked(taken, group, i, limit, at[i])}
<1>2. 0 \in T
  <2>1. at[0] = base BY <1>1 DEF Way
  <2>2. << >> \in Clips BY DEF Clips
  <2>3. base \in [chosen: Clips, deferred: Clips] /\ base.chosen = taken /\ base.deferred = << >>
    BY <2>2
  <2>. HIDE DEF base
  <2>4. Elems(base.deferred) = {} BY <2>3, ElemsOfEmpty
  <2>5. Grown(taken, base.chosen, Elems(group)) BY <2>3, GrownSame
  <2>6. Looked(taken, group, 0, limit, base) BY <2>3, <2>4, <2>5 DEF Looked
  <2>. QED BY <1>0, <2>1, <2>6
<1>3. ASSUME NEW i \in 1..Len(group), i-1 \in T PROVE i \in T
  <2>1. Looked(taken, group, i-1, limit, at[i-1]) BY <1>3
  <2>2. at[i] = step[group[i]][at[i-1]] BY <1>1 DEF Way
  <2>3. Looked(taken, group, i, limit, at[i]) BY <2>1, <2>2, LookStep DEF step
  <2>4. i \in 0..Len(group) BY <1>0
  <2>. QED BY <2>3, <2>4
<1>4. \A i \in 0..Len(group): i \in T
  <2>. HIDE DEF T
  <2>. QED BY <1>0, <1>2, <1>3, Induction
<1>5. Looked(taken, group, Len(group), limit, at[Len(group)]) BY <1>0, <1>4
<1>. QED BY <1>1, <1>5 DEF Way, step

\* The second look keeps to the limit, and each point of its way continues the earlier ones.
LEMMA AgainAtOne ==
    ASSUME NEW limit \in Nat, NEW c \in Candidate, NEW s \in Clips
    PROVE  Again(limit)[c][s] = IF Len(s) >= limit \/ OverlapsAny(c, s) THEN s ELSE Append(s, c)
BY DEF Again

LEMMA AgainWay ==
    ASSUME NEW limit \in Nat, NEW base \in Clips, Len(base) <= limit, NEW seq \in Clips,
           NEW at, Way(at, Again(limit), base, seq)
    PROVE  \A i \in 0..Len(seq): at[i] \in Clips /\ Len(at[i]) <= limit
<1>. DEFINE T == {i \in 0..Len(seq): at[i] \in Clips /\ Len(at[i]) <= limit}
<1>0. Len(seq) \in Nat /\ \A i \in 1..Len(seq): seq[i] \in Candidate BY DEF Clips
<1>1. 0 \in T BY <1>0 DEF Way
<1>2. ASSUME NEW i \in 1..Len(seq), i-1 \in T PROVE i \in T
  <2>1. at[i-1] \in Clips /\ Len(at[i-1]) <= limit /\ Len(at[i-1]) \in Nat BY <1>2 DEF Clips
  <2>2. at[i] = Again(limit)[seq[i]][at[i-1]] BY DEF Way
  <2>3. seq[i] \in Candidate BY <1>0
  <2>4. at[i] = IF Len(at[i-1]) >= limit \/ OverlapsAny(seq[i], at[i-1]) THEN at[i-1]
                ELSE Append(at[i-1], seq[i])
    BY <2>1, <2>2, <2>3, AgainAtOne, Zenon
  <2>5. /\ Append(at[i-1], seq[i]) \in Clips
        /\ Len(Append(at[i-1], seq[i])) = Len(at[i-1]) + 1
    BY <2>1, <2>3, ElemsOfAppend DEF Clips
  <2>6. i \in 0..Len(seq) BY <1>0
  <2>7. at[i] \in Clips /\ Len(at[i]) <= limit BY <2>1, <2>4, <2>5
  <2>. QED BY <2>6, <2>7
<1>3. \A i \in 0..Len(seq): i \in T
  <2>. HIDE DEF T
  <2>. QED BY <1>0, <1>1, <1>2, Induction
<1>. QED BY <1>3

LEMMA AgainGrows ==
    ASSUME NEW limit \in Nat, NEW base \in Clips, Len(base) <= limit, NEW seq \in Clips,
           NEW at, Way(at, Again(limit), base, seq), NEW i \in 0..Len(seq), NEW k \in i..Len(seq)
    PROVE  Grown(at[i], at[k], Elems(seq))
<1>. DEFINE T == {n \in 0..Len(seq)-i: Grown(at[i], at[i+n], Elems(seq))}
<1>0. /\ Len(seq) \in Nat /\ i \in Nat /\ k \in Nat /\ k - i \in 0..Len(seq)-i
      /\ Len(seq)-i \in Nat /\ i + (k-i) = k /\ i + 0 = i
      /\ \A j \in 1..Len(seq): seq[j] \in Candidate /\ seq[j] \in Elems(seq)
  BY ElemsOf DEF Clips
<1>1. 0 \in T
  <2>1. at[i] \in Clips BY AgainWay
  <2>2. Grown(at[i], at[i], Elems(seq)) BY <2>1, GrownSame
  <2>. QED BY <1>0, <2>2
<1>2. ASSUME NEW n \in 1..Len(seq)-i, n-1 \in T PROVE n \in T
  <2>. DEFINE m == i + n
  <2>1. m \in 1..Len(seq) /\ m-1 = i + (n-1) /\ m-1 \in 0..Len(seq) /\ n \in 0..Len(seq)-i BY <1>0
  <2>2. Grown(at[i], at[m-1], Elems(seq)) BY <1>2, <2>1
  <2>. HIDE DEF m
  <2>3. at[i] \in Clips /\ at[m-1] \in Clips BY <2>1, AgainWay
  <2>4. at[m] = Again(limit)[seq[m]][at[m-1]] BY <2>1 DEF Way
  <2>5. at[m] = at[m-1] \/ (~OverlapsAny(seq[m], at[m-1]) /\ at[m] = Append(at[m-1], seq[m]))
    BY <1>0, <2>1, <2>3, <2>4, AgainAtOne
  <2>6. Grown(at[i], at[m], Elems(seq)) BY <1>0, <2>1, <2>2, <2>3, <2>5, GrownMore
  <2>. QED BY <2>1, <2>6 DEF m
<1>3. \A n \in 0..Len(seq)-i: n \in T
  <2>. HIDE DEF T
  <2>. QED BY <1>0, <1>1, <1>2, Induction
<1>4. Grown(at[i], at[i + (k-i)], Elems(seq)) BY <1>0, <1>3
<1>. QED BY <1>0, <1>4

LEMMA AgainThrough ==
    ASSUME NEW limit \in Nat, NEW base \in Clips, Len(base) <= limit, NEW seq \in Clips
    PROVE  LET r == Walk(Again(limit), base, seq)
           IN /\ Grown(base, r, Elems(seq)) /\ r \in Clips /\ Len(r) <= limit
              /\ \A c \in Elems(seq): Len(r) = limit \/ OverlapsAny(c, r)
<1>. DEFINE r == Walk(Again(limit), base, seq)
            n == Len(seq)
<1>0. n \in Nat /\ 0 \in 0..n /\ n \in 0..n /\ \A j \in 1..n: seq[j] \in Candidate BY DEF Clips
<1>1. PICK at: Way(at, Again(limit), base, seq) BY <1>0, WalkSteps, Zenon
<1>2. r = at[n] /\ at[0] = base BY <1>1 DEF Way
<1>. HIDE DEF r
<1>3. \A i \in 0..n: at[i] \in Clips /\ Len(at[i]) <= limit /\ Len(at[i]) \in Nat
  BY <1>1, AgainWay DEF Clips
<1>4. Grown(base, r, Elems(seq))
  <2>1. n \in 0..Len(seq) /\ 0 \in 0..Len(seq) /\ n \in 0..n BY <1>0
  <2>. QED BY <1>1, <1>2, <2>1, AgainGrows
<1>5. ASSUME NEW c \in Elems(seq) PROVE Len(r) = limit \/ OverlapsAny(c, r)
  <2>1. PICK i \in 1..n: seq[i] = c BY ElemsOf DEF Clips
  <2>2. i-1 \in 0..n /\ i \in 0..n /\ n \in i..n /\ n \in i-1..n BY <1>0, <2>1
  <2>3. at[i] = Again(limit)[c][at[i-1]] BY <1>1, <2>1 DEF Way
  <2>4. /\ at[i] = IF Len(at[i-1]) >= limit \/ OverlapsAny(c, at[i-1]) THEN at[i-1]
                   ELSE Append(at[i-1], c)
        /\ c \in Candidate /\ at[i-1] \in Clips
    BY <1>0, <1>3, <2>1, <2>2, <2>3, AgainAtOne
  <2>5. Elems(Append(at[i-1], c)) = Elems(at[i-1]) \union {c} BY <2>4, ElemsOfAppend DEF Clips
  <2>6. OverlapsAny(c, Append(at[i-1], c)) BY <2>4, <2>5, Overlaps DEF OverlapsAny
  <2>7. Len(at[i]) = limit \/ OverlapsAny(c, at[i]) BY <1>3, <2>2, <2>4, <2>6
  <2>8. Grown(at[i], r, Elems(seq)) BY <1>1, <1>2, <2>2, AgainGrows
  <2>9. Len(at[i]) <= Len(r) /\ Len(r) <= limit /\ Len(r) \in Nat /\ Len(at[i]) \in Nat
    BY <1>0, <1>2, <1>3, <2>2, <2>8 DEF Grown
  <2>10. OverlapsAny(c, at[i]) => OverlapsAny(c, r) BY <1>3, <2>2, <2>8, GrownElems
  <2>. QED BY <2>7, <2>9, <2>10
<1>6. r \in Clips /\ Len(r) <= limit BY <1>0, <1>2, <1>3
<1>. QED BY <1>4, <1>5, <1>6 DEF r

\* Taking a group adds clips of it, apart from all others, until every slot is
\* taken or all that is left of it shares a unit with a clip.
LEMMA GroupTaken ==
    ASSUME NEW limit \in Nat, NEW taken \in Clips, Len(taken) <= limit, NEW group \in Clips
    PROVE  LET r == TakeGroup(limit, taken, group)
           IN /\ Grown(taken, r, Elems(group)) /\ r \in Clips /\ Len(r) <= limit
              /\ \A c \in Elems(group): Len(r) = limit \/ OverlapsAny(c, r)
<1>. DEFINE first == Walk(Look(limit), [chosen |-> taken, deferred |-> << >>], group)
            r == Walk(Again(limit), first.chosen, first.deferred)
<1>0. TakeGroup(limit, taken, group) = r BY DEF TakeGroup
<1>1. Looked(taken, group, Len(group), limit, first) BY LookThrough
<1>. HIDE DEF first
<1>2. first.chosen \in Clips /\ Len(first.chosen) <= limit /\ first.deferred \in Clips
      /\ Len(first.chosen) \in Nat
  BY <1>1 DEF Looked, Clips
<1>3. /\ Grown(first.chosen, r, Elems(first.deferred)) /\ r \in Clips /\ Len(r) <= limit
      /\ \A c \in Elems(first.deferred): Len(r) = limit \/ OverlapsAny(c, r)
  BY <1>2, AgainThrough
<1>. HIDE DEF r
<1>4. Grown(taken, r, Elems(group) \union Elems(first.deferred))
  BY <1>1, <1>3, GrownTwice DEF Looked
<1>5. Elems(group) \union Elems(first.deferred) = Elems(group) BY <1>1 DEF Looked
<1>6. ASSUME NEW c \in Elems(group) PROVE Len(r) = limit \/ OverlapsAny(c, r)
  <2>1. PICK i \in 1..Len(group): group[i] = c BY ElemsOf DEF Clips
  <2>2. Len(first.chosen) = limit \/ OverlapsAny(c, first.chosen) \/ c \in Elems(first.deferred)
    BY <1>1, <2>1 DEF Looked
  <2>3. Len(first.chosen) <= Len(r) /\ Len(r) \in Nat BY <1>3 DEF Grown, Clips
  <2>4. OverlapsAny(c, first.chosen) => OverlapsAny(c, r) BY <1>2, <1>3, GrownElems
  <2>. QED BY <1>2, <1>3, <2>2, <2>3, <2>4
<1>7. Grown(taken, r, Elems(group)) BY <1>4, <1>5
<1>. QED BY <1>0, <1>3, <1>6, <1>7 DEF r
-----------------------------------------------------------------------------
(* The groups, one after another.                                         *)

\* What the groups after the i-th and up to the k-th hold.
Later(groups, i, k) == UNION {Elems(groups[j]): j \in i+1..k}

\* The clips after each group.
RankWay(at, groups, limit) ==
    /\ at[0] = Typed /\ Rank(groups, limit) = at[Len(groups)]
    /\ \A i \in 0..Len(groups): at[i] \in Clips /\ Len(at[i]) <= limit
    /\ \A i \in 1..Len(groups): at[i] = TakeGroup(limit, at[i-1], groups[i])

LEMMA TypedClips == Typed \in Clips
<1>1. Elems(Typed) \subseteq Candidate /\ Typed \in Seq(Elems(Typed))
  BY RankingAssumption DEF Candidate
<1>. QED BY <1>1, SeqOfElems DEF Clips

LEMMA RankSteps ==
    ASSUME NEW limit \in Nat, Len(Typed) <= limit, NEW groups \in Seq(Clips)
    PROVE  \E at: RankWay(at, groups, limit)
<1>. DEFINE step == [group \in Clips |-> [taken \in Clips |-> TakeGroup(limit, taken, group)]]
<1>0. Len(groups) \in Nat /\ \A i \in 1..Len(groups): groups[i] \in Clips OBVIOUS
<1>1. \A g, t \in Clips: step[g][t] = TakeGroup(limit, t, g) OBVIOUS
<1>2. Rank(groups, limit) = Walk(step, Typed, groups) BY DEF Rank
<1>. HIDE DEF step
<1>3. PICK at: Way(at, step, Typed, groups) BY <1>0, WalkSteps, Zenon
<1>. DEFINE T == {i \in 0..Len(groups): /\ at[i] \in Clips /\ Len(at[i]) <= limit
                                        /\ i > 0 => at[i] = TakeGroup(limit, at[i-1], groups[i])}
<1>4. 0 \in T BY <1>0, <1>3, TypedClips DEF Way
<1>5. ASSUME NEW i \in 1..Len(groups), i-1 \in T PROVE i \in T
  <2>1. at[i-1] \in Clips /\ Len(at[i-1]) <= limit BY <1>5
  <2>2. at[i] = step[groups[i]][at[i-1]] /\ groups[i] \in Clips BY <1>0, <1>3 DEF Way
  <2>3. at[i] = TakeGroup(limit, at[i-1], groups[i]) BY <1>1, <2>1, <2>2
  <2>4. at[i] \in Clips /\ Len(at[i]) <= limit BY <2>1, <2>2, <2>3, GroupTaken
  <2>5. i \in 0..Len(groups) BY <1>0
  <2>. QED BY <2>3, <2>4, <2>5
<1>6. \A i \in 0..Len(groups): i \in T
  <2>. HIDE DEF T
  <2>. QED BY <1>0, <1>4, <1>5, Induction
<1>7. \A i \in 1..Len(groups): i \in 0..Len(groups) /\ i > 0 BY <1>0
<1>8. RankWay(at, groups, limit) BY <1>2, <1>3, <1>6, <1>7 DEF RankWay, Way
<1>. QED BY <1>8, Zenon

LEMMA RankGrows ==
    ASSUME NEW limit \in Nat, NEW groups \in Seq(Clips), NEW at, RankWay(at, groups, limit),
           NEW i \in 0..Len(groups), NEW k \in i..Len(groups)
    PROVE  Grown(at[i], at[k], Later(groups, i, k))
<1>. DEFINE T == {n \in 0..Len(groups)-i: Grown(at[i], at[i+n], Later(groups, i, i+n))}
<1>0. /\ Len(groups) \in Nat /\ i \in Nat /\ k \in Nat /\ k - i \in 0..Len(groups)-i
      /\ Len(groups)-i \in Nat /\ i + (k-i) = k /\ i + 0 = i
  OBVIOUS
<1>1. 0 \in T
  <2>1. at[i] \in Clips BY DEF RankWay
  <2>2. Grown(at[i], at[i], Later(groups, i, i)) BY <2>1, GrownSame
  <2>. QED BY <1>0, <2>2
<1>2. ASSUME NEW n \in 1..Len(groups)-i, n-1 \in T PROVE n \in T
  <2>. DEFINE m == i + n
  <2>1. m \in 1..Len(groups) /\ m-1 = i + (n-1) /\ m-1 \in i..Len(groups)
        /\ m-1 \in 0..Len(groups) /\ n \in 0..Len(groups)-i
    BY <1>0
  <2>2. Grown(at[i], at[m-1], Later(groups, i, m-1)) BY <1>2, <2>1
  <2>. HIDE DEF m
  <2>3. /\ at[i] \in Clips /\ at[m-1] \in Clips /\ Len(at[m-1]) <= limit
        /\ groups[m] \in Clips /\ at[m] = TakeGroup(limit, at[m-1], groups[m])
    BY <2>1 DEF RankWay
  <2>4. Grown(at[m-1], at[m], Elems(groups[m])) BY <2>3, GroupTaken
  <2>5. Grown(at[i], at[m], Later(groups, i, m-1) \union Elems(groups[m]))
    BY <2>2, <2>3, <2>4, GrownTwice
  <2>6. Later(groups, i, m-1) \union Elems(groups[m]) = Later(groups, i, m)
    <3>1. \A j \in i+1..m: j = m \/ j \in i+1..m-1 BY <1>0, <2>1
    <3>2. m \in i+1..m /\ \A j \in i+1..m-1: j \in i+1..m BY <1>0, <2>1
    <3>. QED BY <3>1, <3>2 DEF Later
  <2>7. Grown(at[i], at[m], Later(groups, i, m)) BY <2>5, <2>6
  <2>. QED BY <2>1, <2>7 DEF m
<1>3. \A n \in 0..Len(groups)-i: n \in T
  <2>. HIDE DEF T
  <2>. QED BY <1>0, <1>1, <1>2, Induction
<1>4. Grown(at[i], at[i + (k-i)], Later(groups, i, i + (k-i))) BY <1>0, <1>3
<1>. QED BY <1>0, <1>4

LEMMA RankFills ==
    ASSUME NEW limit \in Nat, Len(Typed) <= limit, NEW groups \in Seq(Clips)
    PROVE  LET r == Rank(groups, limit)
           IN /\ Grown(Typed, r, Later(groups, 0, Len(groups))) /\ r \in Clips /\ Len(r) <= limit
              /\ \A i \in 1..Len(groups): \A c \in Elems(groups[i]):
                    Len(r) = limit \/ OverlapsAny(c, r)
<1>. DEFINE r == Rank(groups, limit)
            n == Len(groups)
<1>0. n \in Nat /\ 0 \in 0..n /\ n \in 0..n /\ \A j \in 1..n: groups[j] \in Clips OBVIOUS
<1>1. PICK at: RankWay(at, groups, limit) BY RankSteps, Zenon
<1>2. r = at[n] /\ at[0] = Typed BY <1>1 DEF RankWay
<1>. HIDE DEF r
<1>3. \A i \in 0..n: at[i] \in Clips /\ Len(at[i]) <= limit /\ Len(at[i]) \in Nat
  BY <1>1 DEF RankWay, Clips
<1>4. Grown(Typed, r, Later(groups, 0, n)) BY <1>0, <1>1, <1>2, RankGrows
<1>5. ASSUME NEW i \in 1..n, NEW c \in Elems(groups[i])
      PROVE  Len(r) = limit \/ OverlapsAny(c, r)
  <2>1. i-1 \in 0..n /\ i \in 0..n /\ n \in i..n BY <1>0
  <2>2. at[i] = TakeGroup(limit, at[i-1], groups[i]) BY <1>1 DEF RankWay
  <2>3. Len(at[i]) = limit \/ OverlapsAny(c, at[i])
    <3>. DEFINE taken == at[i-1]
                group == groups[i]
                clips == at[i]
    <3>1. /\ taken \in Clips /\ Len(taken) <= limit /\ group \in Clips
          /\ clips = TakeGroup(limit, taken, group) /\ c \in Elems(group)
      BY <1>0, <1>3, <2>1, <2>2
    <3>. HIDE DEF taken, group, clips
    <3>2. Len(clips) = limit \/ OverlapsAny(c, clips) BY <3>1, GroupTaken
    <3>. QED BY <3>2 DEF clips
  <2>4. Grown(at[i], r, Later(groups, i, n)) BY <1>1, <1>2, <2>1, RankGrows
  <2>5. Len(at[i]) <= Len(r) /\ Len(r) <= limit /\ Len(r) \in Nat /\ Len(at[i]) \in Nat
    BY <1>0, <1>2, <1>3, <2>1, <2>4 DEF Grown
  <2>6. OverlapsAny(c, at[i]) => OverlapsAny(c, r) BY <1>3, <2>1, <2>4, GrownElems
  <2>. QED BY <2>3, <2>5, <2>6
<1>6. r \in Clips /\ Len(r) <= limit BY <1>0, <1>2, <1>3
<1>. QED BY <1>4, <1>5, <1>6 DEF r
-----------------------------------------------------------------------------
(* The groups hold the candidates outside the typed ranges, all of them    *)
(* and no others.                                                          *)

Share(seq, moments, weak, part) ==
    Where(Outside(seq), {c \in Candidate: Part(c, weak, Judged(moments)) = part})

LEMMA OutsideElems ==
    ASSUME NEW seq \in Clips
    PROVE  /\ Outside(seq) \in Clips
           /\ Elems(Outside(seq)) = {c \in Elems(seq): c \notin InTyped}
<1>1. Elems(seq) \subseteq Candidate BY ElemsOf DEF Clips
<1>. QED BY <1>1, WhereKeeps DEF Outside

LEMMA ShareElems ==
    ASSUME NEW seq \in Clips, NEW moments, NEW weak, NEW part
    PROVE  /\ Share(seq, moments, weak, part) \in Clips
           /\ Elems(Share(seq, moments, weak, part)) =
                {c \in Elems(seq): c \notin InTyped /\ Part(c, weak, Judged(moments)) = part}
<1>1. Elems(seq) \subseteq Candidate BY ElemsOf DEF Clips
<1>2. Outside(seq) \in Clips /\ Elems(Outside(seq)) = {c \in Elems(seq): c \notin InTyped}
  BY OutsideElems
<1>. QED BY <1>1, <1>2, WhereKeeps DEF Share

LEMMA FocusGroups ==
    ASSUME NEW moments, NEW windows, NEW extras, NEW weak
    PROVE  Groups(moments, windows, extras, TRUE, weak) =
             <<Share(moments, moments, weak, "literal"), Share(moments, moments, weak, "semantic"),
               Share(windows, moments, weak, "literal") \o extras,
               Share(moments, moments, weak, "none"), Share(windows, moments, weak, "none")>>
BY DEF Groups, Share

LEMMA Parts ==
    ASSUME NEW c, NEW weak, NEW judged
    PROVE  /\ Part(c, weak, judged) \in {"literal", "semantic", "none"}
           /\ c \in Windows => Part(c, weak, judged) # "semantic"
BY RankingAssumption DEF Part, FocusMatch

Cover(groups, candidates, extras) ==
    /\ groups \in Seq(Clips)
    /\ \A c \in candidates: \/ c \in InTyped
                           \/ \E i \in 1..Len(groups): c \in Elems(groups[i])
    /\ Elems(extras) \cap InTyped = {} =>
          \A i \in 1..Len(groups): Elems(groups[i]) \cap InTyped = {}

LEMMA GroupsCover ==
    ASSUME NEW moments \in Clips, Elems(moments) \subseteq Moment,
           NEW windows \in Clips, Elems(windows) \subseteq Windows,
           NEW extras \in Clips, NEW focused \in BOOLEAN, ~focused => extras = << >>, NEW weak
    PROVE  Cover(Groups(moments, windows, extras, focused, weak),
                 Elems(moments) \union Elems(windows) \union Elems(extras), extras)
<1>. DEFINE groups == Groups(moments, windows, extras, focused, weak)
            Covers(c) == c \in InTyped \/ \E i \in 1..Len(groups): c \in Elems(groups[i])
<1>1. CASE ~focused
  <2>1. groups = <<Outside(moments), Outside(windows)>> BY <1>1 DEF Groups
  <2>. HIDE DEF groups
  <2>2. /\ Outside(moments) \in Clips /\ Outside(windows) \in Clips
        /\ Elems(Outside(moments)) = {c \in Elems(moments): c \notin InTyped}
        /\ Elems(Outside(windows)) = {c \in Elems(windows): c \notin InTyped}
    BY OutsideElems
  <2>3. Elems(extras) = {} BY <1>1, ElemsOfEmpty
  <2>4. /\ groups \in Seq(Clips) /\ Len(groups) = 2
        /\ groups[1] = Outside(moments) /\ groups[2] = Outside(windows)
    BY <2>1, <2>2
  <2>5. ASSUME NEW c \in Elems(moments) PROVE Covers(c) BY <2>2, <2>4
  <2>6. ASSUME NEW c \in Elems(windows) PROVE Covers(c) BY <2>2, <2>4
  <2>7. \A i \in 1..Len(groups): Elems(groups[i]) \cap InTyped = {} BY <2>2, <2>4
  <2>. QED BY <2>3, <2>4, <2>5, <2>6, <2>7 DEF groups, Cover
<1>2. CASE focused
  <2>. DEFINE a == Share(moments, moments, weak, "literal")
              b == Share(moments, moments, weak, "semantic")
              p == Share(windows, moments, weak, "literal")
              d == Share(moments, moments, weak, "none")
              e == Share(windows, moments, weak, "none")
  <2>1. groups = <<a, b, p \o extras, d, e>> BY <1>2, FocusGroups
  <2>2. /\ a \in Clips /\ b \in Clips /\ p \in Clips /\ d \in Clips /\ e \in Clips
        /\ p \o extras \in Clips /\ Elems(p \o extras) = Elems(p) \union Elems(extras)
    BY ShareElems, ElemsOfConcat DEF Clips
  <2>3. /\ \A c \in Elems(moments): c \notin InTyped
                                    => c \in Elems(a) \/ c \in Elems(b) \/ c \in Elems(d)
        /\ \A c \in Elems(windows): c \notin InTyped => c \in Elems(p) \/ c \in Elems(e)
        /\ (Elems(a) \union Elems(b) \union Elems(p) \union Elems(d) \union Elems(e))
              \cap InTyped = {}
    BY ShareElems, Parts
  <2>. HIDE DEF groups, a, b, p, d, e
  <2>4. /\ groups \in Seq(Clips) /\ Len(groups) = 5 /\ groups[1] = a /\ groups[2] = b
        /\ groups[3] = p \o extras /\ groups[4] = d /\ groups[5] = e
    BY <2>1, <2>2
  <2>5. 1 \in 1..Len(groups) /\ 2 \in 1..Len(groups) /\ 3 \in 1..Len(groups)
        /\ 4 \in 1..Len(groups) /\ 5 \in 1..Len(groups)
    BY <2>4
  <2>6. ASSUME NEW c \in Elems(moments) PROVE Covers(c) BY <2>3, <2>4, <2>5
  <2>7. ASSUME NEW c \in Elems(windows) PROVE Covers(c) BY <2>2, <2>3, <2>4, <2>5
  <2>8. ASSUME NEW c \in Elems(extras) PROVE Covers(c) BY <2>2, <2>4, <2>5
  <2>9. ASSUME Elems(extras) \cap InTyped = {}, NEW i \in 1..Len(groups)
        PROVE  Elems(groups[i]) \cap InTyped = {}
    <3>1. i \in {1, 2, 3, 4, 5} BY <2>4
    <3>. QED BY <2>2, <2>3, <2>4, <2>9, <3>1
  <2>. QED BY <2>4, <2>6, <2>7, <2>8, <2>9 DEF groups, Cover
<1>. QED BY <1>1, <1>2
-----------------------------------------------------------------------------
(* Without a focus the heuristic only fills.                              *)

LEMMA HeuristicOnlyFills ==
    ASSUME NEW k \in Nat, Len(Typed) <= k,
           NEW moments \in Clips, Elems(moments) \subseteq Moment,
           NEW windows \in Clips, Elems(windows) \subseteq Windows, NEW weak
    PROVE  LET r == Chosen(moments, windows, << >>, FALSE, weak, k)
           IN Elems(r) \intersect Windows # {} =>
                \A c \in Elems(moments) \ InTyped: \E d \in Elems(r) \ Windows: Overlap(c, d)
<1>. DEFINE groups == <<Outside(moments), Outside(windows)>>
            r == Rank(groups, k)
<1>0. Chosen(moments, windows, << >>, FALSE, weak, k) = r BY DEF Chosen, Groups
<1>1. /\ Outside(moments) \in Clips /\ Outside(windows) \in Clips
      /\ Elems(Outside(moments)) = {c \in Elems(moments): c \notin InTyped}
      /\ Elems(Outside(windows)) = {c \in Elems(windows): c \notin InTyped}
  BY OutsideElems
<1>2. /\ groups \in Seq(Clips) /\ Len(groups) = 2
      /\ groups[1] = Outside(moments) /\ groups[2] = Outside(windows)
  BY <1>1
<1>. HIDE DEF groups
<1>3. PICK at: RankWay(at, groups, k) BY <1>2, RankSteps, Zenon
<1>4. /\ 0 \in 0..Len(groups) /\ 1 \in 0..Len(groups) /\ 2 \in 0..Len(groups)
      /\ 1 \in 0..Len(groups) /\ 2 \in 1..Len(groups) /\ 1 \in 1..Len(groups)
  BY <1>2
<1>5. /\ at[0] = Typed /\ r = at[2] /\ at[1] \in Clips /\ Len(at[1]) <= k
      /\ at[1] = TakeGroup(k, Typed, Outside(moments))
      /\ at[2] = TakeGroup(k, at[1], Outside(windows))
  BY <1>2, <1>3, <1>4 DEF RankWay
<1>6. /\ Grown(Typed, at[1], Elems(Outside(moments)))
      /\ \A c \in Elems(Outside(moments)): Len(at[1]) = k \/ OverlapsAny(c, at[1])
  <2>. DEFINE group == Outside(moments)
              clips == at[1]
  <2>1. group \in Clips /\ clips = TakeGroup(k, Typed, group) BY <1>1, <1>5
  <2>2. Typed \in Clips /\ Len(Typed) <= k BY TypedClips
  <2>. HIDE DEF group, clips
  <2>3. /\ Grown(Typed, clips, Elems(group))
        /\ \A c \in Elems(group): Len(clips) = k \/ OverlapsAny(c, clips)
    BY <2>1, <2>2, GroupTaken
  <2>. QED BY <2>3 DEF group, clips
<1>7. Grown(at[1], r, Elems(Outside(windows))) /\ r \in Clips /\ Len(r) <= k
  BY <1>1, <1>5, GroupTaken
<1>. HIDE DEF r
<1>8. Len(at[1]) \in Nat /\ Len(r) \in Nat BY <1>5, <1>7 DEF Clips
<1>9. Elems(at[1]) \subseteq Elems(r) /\ \A c \in Elems(r) \ Elems(at[1]): Len(at[1]) < Len(r)
  BY <1>5, <1>7, GrownElems
<1>10. Elems(at[1]) \intersect Windows = {}
  <2>1. Elems(at[1]) \subseteq Elems(Typed) \union Moment BY <1>1, <1>6 DEF Grown
  <2>. QED BY <2>1, RankingAssumption
<1>11. ASSUME NEW w \in Elems(r) \intersect Windows, NEW c \in Elems(moments) \ InTyped
       PROVE  \E d \in Elems(r) \ Windows: Overlap(c, d)
  <2>1. Len(at[1]) < k BY <1>7, <1>8, <1>9, <1>10, <1>11
  <2>2. OverlapsAny(c, at[1]) BY <1>1, <1>6, <1>8, <2>1
  <2>3. PICK d \in Elems(at[1]): Overlap(c, d) BY <2>2 DEF OverlapsAny
  <2>. QED BY <1>9, <1>10, <2>3
<1>. QED BY <1>0, <1>11 DEF r
-----------------------------------------------------------------------------
(* With a focus: the windows added leave the clips of the focus.          *)

\* A look that goes on with more: what it deferred stays in front.
LEMMA LookGoesOn ==
    ASSUME NEW limit \in Nat, NEW s \in [chosen: Clips, deferred: Clips], Len(s.chosen) <= limit,
           NEW extras \in Clips
    PROVE  LET r == Walk(Look(limit), s, extras)
           IN /\ r \in [chosen: Clips, deferred: Clips] /\ Len(r.chosen) <= limit
              /\ Grown(s.chosen, r.chosen, Elems(extras))
              /\ Len(r.chosen) <= Len(s.chosen) + Len(extras)
              /\ Len(s.deferred) <= Len(r.deferred)
              /\ \A i \in 1..Len(s.deferred): r.deferred[i] = s.deferred[i]
<1>. DEFINE Went(r, n) == /\ r \in [chosen: Clips, deferred: Clips] /\ Len(r.chosen) <= limit
                          /\ Grown(s.chosen, r.chosen, Elems(extras))
                          /\ Len(r.chosen) <= Len(s.chosen) + n
                          /\ Len(s.deferred) <= Len(r.deferred)
                          /\ \A i \in 1..Len(s.deferred): r.deferred[i] = s.deferred[i]
<1>0. /\ Len(extras) \in Nat /\ s.chosen \in Clips /\ s.deferred \in Clips
      /\ Len(s.chosen) \in Nat /\ Len(s.deferred) \in Nat
      /\ \A i \in 1..Len(extras): extras[i] \in Candidate /\ extras[i] \in Elems(extras)
  BY ElemsOf DEF Clips
<1>1. PICK at: Way(at, Look(limit), s, extras) BY <1>0, WalkSteps, Zenon
<1>. DEFINE T == {n \in 0..Len(extras): Went(at[n], n)}
<1>2. 0 \in T
  <2>1. at[0] = s BY <1>1 DEF Way
  <2>2. Went(s, 0) BY <1>0, GrownSame
  <2>. QED BY <1>0, <2>1, <2>2
<1>3. ASSUME NEW n \in 1..Len(extras), n-1 \in T PROVE n \in T
  <2>. DEFINE a == at[n-1]
              r == at[n]
              c == extras[n]
  <2>1. Went(a, n-1) BY <1>3
  <2>2. c \in Candidate /\ c \in Elems(extras) /\ n \in Nat /\ n \in 0..Len(extras) BY <1>0
  <2>3. r = Look(limit)[c][a] BY <1>1 DEF Way
  <2>4. a \in [chosen: Clips, deferred: Clips] /\ a.chosen \in Clips /\ a.deferred \in Clips
        /\ Len(a.chosen) \in Nat /\ Len(a.deferred) \in Nat
    BY <2>1 DEF Clips
  <2>. HIDE DEF a, r, c
  <2>5. r = IF Len(a.chosen) >= limit \/ OverlapsAny(c, a.chosen) THEN a
            ELSE IF Near(c, a.chosen) THEN [a EXCEPT !.deferred = Append(@, c)]
            ELSE [a EXCEPT !.chosen = Append(@, c)]
    BY <2>2, <2>3, <2>4, LookAtOne
  <2>6. CASE r = a BY <1>0, <2>1, <2>2, <2>4, <2>6 DEF r
  <2>7. CASE r = [a EXCEPT !.deferred = Append(@, c)]
    <3>1. /\ Append(a.deferred, c) \in Clips /\ Len(Append(a.deferred, c)) = Len(a.deferred) + 1
          /\ \A i \in 1..Len(a.deferred): Append(a.deferred, c)[i] = a.deferred[i]
      BY <2>2, <2>4, ElemsOfAppend DEF Clips
    <3>2. /\ r \in [chosen: Clips, deferred: Clips] /\ r.chosen = a.chosen
          /\ r.deferred = Append(a.deferred, c)
      BY <2>4, <2>7, <3>1
    <3>3. \A i \in 1..Len(s.deferred): i \in 1..Len(a.deferred) BY <1>0, <2>1, <2>4
    <3>4. \A i \in 1..Len(s.deferred): r.deferred[i] = s.deferred[i] BY <2>1, <3>1, <3>2, <3>3
    <3>5. Len(s.deferred) <= Len(r.deferred) /\ Len(r.chosen) <= Len(s.chosen) + n
      BY <1>0, <2>1, <2>2, <2>4, <3>1, <3>2
    <3>6. Went(r, n) BY <2>1, <3>2, <3>4, <3>5
    <3>. QED BY <2>2, <3>6 DEF r
  <2>8. CASE ~(Len(a.chosen) >= limit \/ OverlapsAny(c, a.chosen))
             /\ r = [a EXCEPT !.chosen = Append(@, c)]
    <3>1. /\ Append(a.chosen, c) \in Clips /\ Len(Append(a.chosen, c)) = Len(a.chosen) + 1
      BY <2>2, <2>4, ElemsOfAppend DEF Clips
    <3>2. /\ r \in [chosen: Clips, deferred: Clips] /\ r.chosen = Append(a.chosen, c)
          /\ r.deferred = a.deferred
      BY <2>4, <2>8, <3>1
    <3>3. Grown(s.chosen, r.chosen, Elems(extras))
      BY <1>0, <2>1, <2>2, <2>8, <3>2, GrownMore
    <3>4. Len(r.chosen) <= limit /\ Len(r.chosen) <= Len(s.chosen) + n
      BY <1>0, <2>1, <2>2, <2>4, <2>8, <3>1, <3>2
    <3>5. Went(r, n) BY <2>1, <3>2, <3>3, <3>4
    <3>. QED BY <2>2, <3>5 DEF r
  <2>. QED BY <2>5, <2>6, <2>7, <2>8
<1>4. \A n \in 0..Len(extras): n \in T
  <2>. HIDE DEF T
  <2>. QED BY <1>0, <1>2, <1>3, Induction
<1>5. Went(at[Len(extras)], Len(extras)) BY <1>0, <1>4
<1>6. Walk(Look(limit), s, extras) = at[Len(extras)] BY <1>1 DEF Way
<1>. QED BY <1>5, <1>6

\* A second look that starts with more clips, and goes further, takes all it took
\* without them, as there is room for them and they share nothing with what it took.
LEMMA AgainWithMore ==
    ASSUME NEW limit \in Nat, NEW base \in Clips, Len(base) <= limit,
           NEW more, NEW X, Grown(base, more, X), Len(more) <= limit,
           NEW seq \in Clips, NEW longer \in Clips, Len(seq) <= Len(longer),
           \A i \in 1..Len(seq): longer[i] = seq[i],
           Len(Walk(Again(limit), base, seq)) + Len(more) - Len(base) <= limit,
           \A c \in Elems(Walk(Again(limit), base, seq)), x \in X: ~Overlap(c, x)
    PROVE  Elems(Walk(Again(limit), base, seq)) \subseteq Elems(Walk(Again(limit), more, longer))
<1>. DEFINE r == Walk(Again(limit), base, seq)
            n == Len(more) - Len(base)
            m == Len(seq)
<1>0. /\ more \in Clips /\ Len(base) \in Nat /\ Len(more) \in Nat /\ n \in Nat
      /\ m \in Nat /\ Len(longer) \in Nat
      /\ \A i \in 1..m: seq[i] \in Candidate /\ i \in 1..Len(longer) /\ longer[i] = seq[i]
  BY DEF Grown, Clips
<1>1. PICK one: Way(one, Again(limit), base, seq) BY <1>0, WalkSteps, Zenon
<1>2. PICK two: Way(two, Again(limit), more, longer) BY <1>0, WalkSteps, Zenon
<1>3. r = one[m] /\ one[0] = base /\ two[0] = more
      /\ Walk(Again(limit), more, longer) = two[Len(longer)]
  BY <1>1, <1>2 DEF Way
<1>4. \A i \in 0..m: one[i] \in Clips /\ Len(one[i]) <= limit /\ Len(one[i]) \in Nat
  BY <1>1, AgainWay DEF Clips
<1>5. \A i \in 0..Len(longer): two[i] \in Clips /\ Len(two[i]) <= limit /\ Len(two[i]) \in Nat
  BY <1>0, <1>2, AgainWay DEF Clips
<1>6. \A i \in 0..m: Elems(one[i]) \subseteq Elems(r) /\ Len(one[i]) <= Len(r)
  <2>. SUFFICES ASSUME NEW i \in 0..m
                PROVE  Elems(one[i]) \subseteq Elems(r) /\ Len(one[i]) <= Len(r)
    OBVIOUS
  <2>1. m \in i..Len(seq) BY <1>0
  <2>2. Grown(one[i], one[m], Elems(seq)) BY <1>1, <2>1, AgainGrows
  <2>3. one[i] \in Clips BY <1>4
  <2>4. Elems(one[i]) \subseteq Elems(one[m]) BY <2>2, <2>3, GrownElems
  <2>5. Len(one[i]) <= Len(one[m]) BY <2>2 DEF Grown
  <2>. QED BY <1>3, <2>4, <2>5
<1>. DEFINE T == {i \in 0..m: /\ Elems(one[i]) \subseteq Elems(two[i])
                              /\ Elems(two[i]) \subseteq Elems(one[i]) \union X
                              /\ Len(two[i]) = Len(one[i]) + n}
<1>7. 0 \in T
  <2>1. Elems(base) \subseteq Elems(more) BY GrownElems
  <2>2. Elems(more) \subseteq Elems(base) \union X BY DEF Grown
  <2>3. Len(more) = Len(base) + n BY <1>0
  <2>4. 0 \in 0..m BY <1>0
  <2>. HIDE DEF n, m, r
  <2>. QED BY <1>3, <2>1, <2>2, <2>3, <2>4
<1>8. ASSUME NEW i \in 1..m, i-1 \in T PROVE i \in T
  <2>. DEFINE a == one[i-1]
              b == two[i-1]
              c == seq[i]
  <2>0. i-1 \in 0..m /\ i \in 0..m /\ i-1 \in 0..Len(longer) /\ i \in 1..Len(longer) BY <1>0
  <2>1. /\ Elems(a) \subseteq Elems(b) /\ Elems(b) \subseteq Elems(a) \union X
        /\ Len(b) = Len(a) + n
    BY <1>8
  <2>2. a \in Clips /\ b \in Clips /\ Len(a) \in Nat /\ Len(b) \in Nat /\ c \in Candidate
    BY <1>0, <1>4, <1>5, <2>0
  <2>3. one[i] = Again(limit)[c][a] BY <1>1 DEF Way
  <2>4. two[i] = Again(limit)[c][b] BY <1>0, <1>2, <2>0 DEF Way
  <2>. HIDE DEF a, b, c
  <2>5. /\ one[i] = IF Len(a) >= limit \/ OverlapsAny(c, a) THEN a ELSE Append(a, c)
        /\ two[i] = IF Len(b) >= limit \/ OverlapsAny(c, b) THEN b ELSE Append(b, c)
    BY <2>2, <2>3, <2>4, AgainAtOne
  <2>6. /\ Elems(Append(a, c)) = Elems(a) \union {c} /\ Len(Append(a, c)) = Len(a) + 1
        /\ Elems(Append(b, c)) = Elems(b) \union {c} /\ Len(Append(b, c)) = Len(b) + 1
    BY <2>2, ElemsOfAppend DEF Clips
  <2>7. CASE Len(a) >= limit \/ OverlapsAny(c, a)
    <3>1. Len(b) >= limit \/ OverlapsAny(c, b) BY <1>0, <2>1, <2>2, <2>7 DEF OverlapsAny
    <3>2. one[i] = a /\ two[i] = b BY <2>5, <2>7, <3>1
    <3>. QED BY <2>0, <2>1, <3>2
  <2>8. CASE ~(Len(a) >= limit \/ OverlapsAny(c, a))
    <3>1. one[i] = Append(a, c) BY <2>5, <2>8
    <3>2. c \in Elems(r) /\ Len(a) + 1 <= Len(r) BY <1>6, <2>0, <2>6, <3>1
    <3>3. Len(r) \in Nat /\ Len(r) + n <= limit BY <1>0, <1>3, <1>4
    <3>4. ~(Len(b) >= limit)
      <4>. HIDE DEF r, n
      <4>. QED BY <1>0, <2>1, <2>2, <3>2, <3>3
    <3>5. \A d \in Elems(b): ~Overlap(c, d) BY <2>1, <2>8, <3>2 DEF OverlapsAny
    <3>6. two[i] = Append(b, c) BY <2>5, <3>4, <3>5 DEF OverlapsAny
    <3>7. Len(two[i]) = Len(one[i]) + n
      <4>. HIDE DEF n
      <4>. QED BY <1>0, <2>1, <2>2, <2>6, <3>1, <3>6
    <3>8. Elems(one[i]) \subseteq Elems(two[i]) /\ Elems(two[i]) \subseteq Elems(one[i]) \union X
      BY <2>1, <2>6, <3>1, <3>6
    <3>. QED BY <2>0, <3>7, <3>8
  <2>. QED BY <2>7, <2>8
<1>9. \A i \in 0..m: i \in T
  <2>. HIDE DEF T
  <2>. QED BY <1>0, <1>7, <1>8, Induction
<1>10. Elems(r) \subseteq Elems(two[m])
  <2>1. m \in T
    <3>1. m \in 0..m BY <1>0
    <3>. HIDE DEF T, m
    <3>. QED BY <1>9, <3>1
  <2>2. Elems(one[m]) \subseteq Elems(two[m]) BY <2>1
  <2>. QED BY <1>3, <2>2
<1>11. m \in 0..Len(longer) /\ Len(longer) \in m..Len(longer) BY <1>0
<1>12. Grown(two[m], two[Len(longer)], Elems(longer)) BY <1>0, <1>2, <1>11, AgainGrows
<1>13. Elems(two[m]) \subseteq Elems(two[Len(longer)]) BY <1>5, <1>11, <1>12, GrownElems
<1>. QED BY <1>3, <1>10, <1>13

\* New clips are different from each other and from the old ones.
LEMMA NewOnesCounted ==
    ASSUME NEW t \in Clips, NEW s, NEW S, Grown(t, s, S)
    PROVE  /\ IsFiniteSet(Elems(s) \ Elems(t))
           /\ Cardinality(Elems(s) \ Elems(t)) \in Nat
           /\ Len(s) - Len(t) <= Cardinality(Elems(s) \ Elems(t))
<1>. DEFINE f == [i \in 1..Len(s) |-> s[i]]
            D == Len(t)+1..Len(s)
            N == Elems(s) \ Elems(t)
            g == [i \in D |-> s[i]]
<1>0. s \in Clips /\ Len(t) \in Nat /\ Len(s) \in Nat /\ Len(t) <= Len(s) BY DEF Grown, Clips
<1>1. \A i \in 1..Len(s): s[i] \in Elems(s) /\ s[i] \in Candidate BY <1>0, ElemsOf DEF Clips
<1>2. Elems(s) = {s[i]: i \in 1..Len(s)} BY <1>0 DEF Elems, Clips
<1>3. IsFiniteSet(1..Len(s)) BY <1>0, FS_Interval
<1>4. IsFiniteSet(Elems(s))
  <2>1. f \in [1..Len(s) -> Elems(s)] BY <1>1
  <2>2. f \in Surjection(1..Len(s), Elems(s)) BY <1>2, <2>1 DEF Surjection
  <2>. HIDE DEF f
  <2>. QED BY <1>3, <2>2, FS_Surjection
<1>5. IsFiniteSet(N) /\ Cardinality(N) \in Nat BY <1>4, FS_Subset, FS_CardinalityType
<1>6. Cardinality(D) = Len(s) - Len(t)
  <2>1. Len(t)+1 \in Int /\ Len(s) \in Int BY <1>0
  <2>2. Cardinality(D) = IF Len(t)+1 > Len(s) THEN 0 ELSE Len(s) - (Len(t)+1) + 1
    BY <2>1, FS_Interval
  <2>. HIDE DEF D
  <2>. QED BY <1>0, <2>2
<1>7. g \in Injection(D, N)
  <2>1. \A i \in D: i \in 1..Len(s) /\ i > Len(t) BY <1>0
  <2>2. \A i \in D: s[i] \in N BY <1>1, <2>1, GrownElems
  <2>3. ASSUME NEW i \in D, NEW j \in D, s[i] = s[j] PROVE i = j
    <3>. SUFFICES ASSUME i # j PROVE FALSE OBVIOUS
    <3>1. ~Overlap(s[i], s[j]) BY <2>1 DEF Grown
    <3>. QED BY <1>1, <2>1, <2>3, <3>1, Overlaps
  <2>. HIDE DEF D, N
  <2>4. g \in [D -> N] /\ \A i \in D: g[i] = s[i] BY <2>2
  <2>. HIDE DEF g
  <2>. QED BY <2>3, <2>4 DEF Injection, IsInjective
<1>8. Cardinality(D) <= Cardinality(N)
  <2>. HIDE DEF D, N, g
  <2>. QED BY <1>5, <1>7, FS_Injection
<1>. QED BY <1>5, <1>6, <1>8
\* The windows that may be added: candidates around mentions, each fits.
LEMMA ExtrasFit ==
    ASSUME NEW k \in Nat, NEW clips, NEW moments, NEW weak,
           NEW s \in Extras(clips, moments, weak, k)
    PROVE  /\ s \in Clips /\ Elems(s) \subseteq Around \ InTyped
           /\ Len(s) <= Room(clips, moments, weak, k)
           /\ \A x \in Elems(s), d \in Blocking(clips, moments, weak): ~Overlap(x, d)
<1>. DEFINE open == DOMAIN Mention \ (Judged(moments) \union SaidBy(Elems(clips)))
            fitting == {c \in Around: /\ Says(c) \cap open # {} /\ c \notin InTyped
                                      /\ \A d \in Blocking(clips, moments, weak): ~Overlap(c, d)}
<1>1. PICK S \in SUBSET fitting: s \in SetToSeqs(S) BY DEF Extras
<1>2. Len(s) <= Room(clips, moments, weak, k) BY DEF Extras
<1>3. IsFiniteSet(S) /\ Cardinality(S) \in Nat
  BY <1>1, RankingAssumption, FS_Subset, FS_CardinalityType
<1>4. s \in [1..Cardinality(S) -> S] BY <1>1 DEF SetToSeqs
<1>5. s \in Seq(S) BY <1>3, <1>4
<1>6. Elems(s) \subseteq S BY <1>5, ElemsOf
<1>7. Elems(s) \subseteq fitting BY <1>1, <1>6
<1>8. s \in Clips
  <2>1. Elems(s) \subseteq Candidate BY <1>7 DEF Candidate
  <2>. QED BY <1>5, <2>1, SeqOfElems DEF Clips
<1>. QED BY <1>2, <1>7, <1>8

\* Both rankings have the same first two groups; in the third the windows added
\* come last, there is room for them, and they fit.
LEMMA FocusClipsStay ==
    ASSUME NEW k \in Nat, Len(Typed) <= k,
           NEW moments \in Clips, Elems(moments) \subseteq Moment,
           NEW windows \in Clips, Elems(windows) \subseteq Windows, NEW weak,
           NEW extras \in Extras(Chosen(moments, windows, << >>, TRUE, weak, k), moments, weak, k)
    PROVE  LET first == Chosen(moments, windows, << >>, TRUE, weak, k)
               clips == Chosen(moments, windows, extras, TRUE, weak, k)
           IN /\ Fixed(first, moments, weak) \subseteq Elems(clips)
              /\ \A x \in Elems(clips) \cap Around, c \in Elems(first) \cap Moment: ~Overlap(x, c)
<1>. DEFINE a == Share(moments, moments, weak, "literal")
            b == Share(moments, moments, weak, "semantic")
            p == Share(windows, moments, weak, "literal")
            d == Share(moments, moments, weak, "none")
            e == Share(windows, moments, weak, "none")
            first == Chosen(moments, windows, << >>, TRUE, weak, k)
            clips == Chosen(moments, windows, extras, TRUE, weak, k)
            before == <<a, b, p \o << >>, d, e>>
            after == <<a, b, p \o extras, d, e>>
<1>1. first = Rank(before, k) /\ clips = Rank(after, k) BY FocusGroups DEF Chosen
<1>2. /\ extras \in Clips /\ Elems(extras) \subseteq Around
      /\ Len(extras) <= Room(first, moments, weak, k)
      /\ \A x \in Elems(extras), c \in Blocking(first, moments, weak): ~Overlap(x, c)
  BY ExtrasFit
<1>3. /\ a \in Clips /\ b \in Clips /\ p \in Clips /\ d \in Clips /\ e \in Clips
      /\ \A c \in Elems(a) \union Elems(b) \union Elems(p): Part(c, weak, Judged(moments)) # "none"
      /\ \A c \in Elems(d) \union Elems(e): Part(c, weak, Judged(moments)) = "none"
      /\ Elems(a) \subseteq Moment /\ Elems(b) \subseteq Moment /\ Elems(d) \subseteq Moment
      /\ Elems(p) \subseteq Windows /\ Elems(e) \subseteq Windows
  BY ShareElems
<1>. HIDE DEF a, b, p, d, e, first, clips
<1>4. p \o << >> = p BY <1>3 DEF Clips
<1>5. p \o extras \in Clips /\ Elems(p \o extras) = Elems(p) \union Elems(extras)
  BY <1>2, <1>3, ElemsOfConcat DEF Clips
<1>6. /\ before \in Seq(Clips) /\ Len(before) = 5 /\ before[1] = a /\ before[2] = b
      /\ before[3] = p /\ before[4] = d /\ before[5] = e
      /\ after \in Seq(Clips) /\ Len(after) = 5 /\ after[1] = a /\ after[2] = b
      /\ after[3] = p \o extras /\ after[4] = d /\ after[5] = e
  BY <1>3, <1>4, <1>5
<1>. HIDE DEF before, after
<1>7. PICK one: RankWay(one, before, k) BY <1>6, RankSteps, Zenon
<1>8. PICK two: RankWay(two, after, k) BY <1>6, RankSteps, Zenon
<1>9. /\ first = one[5] /\ clips = two[5] /\ one[0] = Typed /\ two[0] = Typed
      /\ one[1] = TakeGroup(k, one[0], a) /\ two[1] = TakeGroup(k, two[0], a)
      /\ one[2] = TakeGroup(k, one[1], b) /\ two[2] = TakeGroup(k, two[1], b)
      /\ one[3] = TakeGroup(k, one[2], p) /\ two[3] = TakeGroup(k, two[2], p \o extras)
      /\ \A i \in 0..5: /\ one[i] \in Clips /\ Len(one[i]) <= k
                        /\ two[i] \in Clips /\ Len(two[i]) <= k
  <2>1. 1 \in 1..5 /\ 2 \in 1..5 /\ 3 \in 1..5 OBVIOUS
  <2>2. 1-1 = 0 /\ 2-1 = 1 /\ 3-1 = 2 OBVIOUS
  <2>. QED BY <1>1, <1>6, <1>7, <1>8, <2>1, <2>2 DEF RankWay
<1>. DEFINE taken == one[2]
            r == one[3]
<1>10. two[2] = taken BY <1>9
<1>11. taken \in Clips /\ Len(taken) <= k /\ r \in Clips /\ Len(r) <= k /\ two[3] \in Clips
       /\ Len(r) \in Nat
  <2>1. 2 \in 0..5 /\ 3 \in 0..5 OBVIOUS
  <2>2. taken \in Clips /\ Len(taken) <= k /\ r \in Clips /\ Len(r) <= k /\ two[3] \in Clips
    BY <1>9, <2>1
  <2>. QED BY <2>2 DEF Clips
\* The clips of the focus are those of the first three groups.
<1>12. Grown(Typed, r, Later(before, 0, 3)) /\ Grown(r, first, Later(before, 3, 5))
  <2>1. 0 \in 0..5 /\ 3 \in 0..5 /\ 3 \in 0..5 /\ 5 \in 3..5 OBVIOUS
  <2>. QED BY <1>6, <1>7, <1>9, <2>1, RankGrows
<1>13. /\ Later(before, 0, 3) = Elems(a) \union Elems(b) \union Elems(p)
       /\ Later(before, 3, 5) = Elems(d) \union Elems(e)
  <2>1. 0+1..3 = {1, 2, 3} /\ 3+1..5 = {4, 5} OBVIOUS
  <2>. QED BY <1>6, <2>1 DEF Later
<1>14. Fixed(first, moments, weak) = Elems(r) \ Elems(Typed)
  <2>1. Elems(r) \ Elems(Typed) \subseteq Elems(a) \union Elems(b) \union Elems(p)
    BY <1>12, <1>13 DEF Grown
  <2>2. Elems(first) \ Elems(r) \subseteq Elems(d) \union Elems(e) BY <1>12, <1>13 DEF Grown
  <2>3. Elems(r) \subseteq Elems(first) BY <1>11, <1>12, GrownElems
  <2>. QED BY <1>3, <2>1, <2>2, <2>3 DEF Fixed
<1>15. Len(r) + Len(extras) <= k
  <2>1. /\ Cardinality(Elems(r) \ Elems(Typed)) \in Nat
        /\ Len(r) - Len(Typed) <= Cardinality(Elems(r) \ Elems(Typed))
    BY <1>12, TypedClips, NewOnesCounted
  <2>2. Len(extras) <= k - Len(Typed) - Cardinality(Elems(r) \ Elems(Typed))
    BY <1>2, <1>14 DEF Room
  <2>3. Len(extras) \in Nat /\ Len(Typed) \in Nat BY <1>2, TypedClips DEF Clips
  <2>. HIDE DEF r
  <2>. QED BY <1>11, <2>1, <2>2, <2>3
<1>16. \A c \in Elems(r), x \in Elems(extras): ~Overlap(c, x)
  <2>. SUFFICES ASSUME NEW c \in Elems(r), NEW x \in Elems(extras) PROVE ~Overlap(c, x)
    OBVIOUS
  <2>1. c \in Blocking(first, moments, weak) BY <1>14 DEF Blocking
  <2>2. ~Overlap(x, c) BY <1>2, <2>1
  <2>3. c \in Candidate /\ x \in Candidate BY <1>2, <1>11, ElemsOf DEF Clips
  <2>. QED BY <2>2, <2>3, Overlaps
\* The looks through the third group.
<1>. DEFINE base == [chosen |-> taken, deferred |-> << >>]
            s == Walk(Look(k), base, p)
            t == Walk(Look(k), s, extras)
<1>17. r = Walk(Again(k), s.chosen, s.deferred) BY <1>9 DEF TakeGroup
<1>18. two[3] = Walk(Again(k), t.chosen, t.deferred)
  <2>1. Walk(Look(k), base, p \o extras) = t BY <1>2, <1>3, WalkConcat DEF Clips
  <2>. HIDE DEF t, base, taken
  <2>. QED BY <1>9, <1>10, <2>1 DEF TakeGroup, base
<1>19. Looked(taken, p, Len(p), k, s) BY <1>3, <1>11, LookThrough
<1>. HIDE DEF s
<1>20. /\ s \in [chosen: Clips, deferred: Clips] /\ Len(s.chosen) <= k
       /\ s.chosen \in Clips /\ s.deferred \in Clips /\ Len(s.chosen) \in Nat
  BY <1>19 DEF Looked, Clips
<1>21. /\ t \in [chosen: Clips, deferred: Clips] /\ Len(t.chosen) <= k
       /\ Grown(s.chosen, t.chosen, Elems(extras))
       /\ Len(t.chosen) <= Len(s.chosen) + Len(extras)
       /\ Len(s.deferred) <= Len(t.deferred)
       /\ \A i \in 1..Len(s.deferred): t.deferred[i] = s.deferred[i]
  BY <1>2, <1>20, LookGoesOn
<1>. HIDE DEF t, r
<1>22. t.chosen \in Clips /\ t.deferred \in Clips /\ Len(t.chosen) \in Nat /\ Len(extras) \in Nat
  BY <1>2, <1>21 DEF Clips
<1>23. Len(r) + Len(t.chosen) - Len(s.chosen) <= k BY <1>11, <1>15, <1>20, <1>21, <1>22
<1>24. Elems(r) \subseteq Elems(two[3])
  <2>1. /\ Len(Walk(Again(k), s.chosen, s.deferred)) + Len(t.chosen) - Len(s.chosen) <= k
        /\ \A c \in Elems(Walk(Again(k), s.chosen, s.deferred)), x \in Elems(extras): ~Overlap(c, x)
    BY <1>16, <1>17, <1>23
  <2>2. Elems(Walk(Again(k), s.chosen, s.deferred))
           \subseteq Elems(Walk(Again(k), t.chosen, t.deferred))
    <3>. DEFINE seq == s.deferred
                longer == t.deferred
                X == Elems(extras)
                more == t.chosen
                start == s.chosen
    <3>1. /\ start \in Clips /\ Len(start) <= k /\ Grown(start, more, X) /\ Len(more) <= k
          /\ seq \in Clips /\ longer \in Clips /\ Len(seq) <= Len(longer)
          /\ \A i \in 1..Len(seq): longer[i] = seq[i]
      BY <1>20, <1>21, <1>22
    <3>2. /\ Len(Walk(Again(k), start, seq)) + Len(more) - Len(start) <= k
          /\ \A c \in Elems(Walk(Again(k), start, seq)), x \in X: ~Overlap(c, x)
      BY <2>1
    <3>. HIDE DEF seq, longer, X, more, start
    <3>3. Elems(Walk(Again(k), start, seq)) \subseteq Elems(Walk(Again(k), more, longer))
      BY <3>1, <3>2, AgainWithMore, SMTT(30)
    <3>. QED BY <3>3 DEF start, seq, more, longer
  <2>. QED BY <1>17, <1>18, <2>2
<1>25. Elems(two[3]) \subseteq Elems(clips)
  <2>1. 3 \in 0..5 /\ 5 \in 3..5 OBVIOUS
  <2>2. Grown(two[3], clips, Later(after, 3, 5)) BY <1>6, <1>8, <1>9, <2>1, RankGrows
  <2>. QED BY <1>11, <2>2, GrownElems
<1>26. Fixed(first, moments, weak) \subseteq Elems(clips) BY <1>14, <1>24, <1>25
\* A clip around a mention is one of the windows added.
<1>27. Elems(clips) \cap Around \subseteq Elems(extras)
  <2>1. 0 \in 0..5 /\ 5 \in 0..5 /\ 0+1..5 = {1, 2, 3, 4, 5} OBVIOUS
  <2>2. Grown(Typed, clips, Later(after, 0, 5))
    <3>1. Grown(two[0], two[5], Later(after, 0, 5)) BY <1>6, <1>8, <2>1, RankGrows
    <3>. QED BY <1>9, <3>1
  <2>3. Later(after, 0, 5) = Elems(a) \union Elems(b) \union Elems(p) \union Elems(extras)
                             \union Elems(d) \union Elems(e)
    <3>1. Later(after, 0, 5) = UNION {Elems(after[j]): j \in {1, 2, 3, 4, 5}}
      BY <2>1 DEF Later
    <3>2. {Elems(after[j]): j \in {1, 2, 3, 4, 5}} =
            {Elems(after[1]), Elems(after[2]), Elems(after[3]), Elems(after[4]), Elems(after[5])}
      OBVIOUS
    <3>3. /\ Elems(after[1]) = Elems(a) /\ Elems(after[2]) = Elems(b)
          /\ Elems(after[3]) = Elems(p) \union Elems(extras)
          /\ Elems(after[4]) = Elems(d) /\ Elems(after[5]) = Elems(e)
      BY <1>5, <1>6
    <3>. QED BY <3>1, <3>2, <3>3
  <2>4. Elems(clips) \subseteq Elems(Typed) \union Moment \union Windows \union Elems(extras)
    BY <1>3, <2>2, <2>3 DEF Grown
  <2>. QED BY <2>4, RankingAssumption
<1>28. \A x \in Elems(clips) \cap Around, c \in Elems(first) \cap Moment: ~Overlap(x, c)
  BY <1>2, <1>27 DEF Blocking
<1>. QED BY <1>26, <1>28 DEF first, clips
-----------------------------------------------------------------------------
(* The sequences of the selection.                                        *)

LEMMA WhereKeepsType ==
    ASSUME NEW S, S \subseteq Candidate, NEW seq \in Seq(S), NEW R
    PROVE  /\ Where(seq, R) \in Seq(S) /\ Where(seq, R) \in Clips
           /\ Elems(Where(seq, R)) = Elems(seq) \cap R
<1>1. Elems(seq) \subseteq S /\ seq \in Clips
  <2>1. Elems(seq) \subseteq S BY ElemsOf
  <2>. QED BY <2>1, SeqOfElems DEF Clips
<1>2. Where(seq, R) \in Clips /\ Elems(Where(seq, R)) = Elems(seq) \cap R BY <1>1, WhereKeeps
<1>3. Where(seq, R) \in Seq(Candidate) /\ Elems(Where(seq, R)) \subseteq S
  BY <1>1, <1>2 DEF Clips
<1>4. Where(seq, R) \in Seq(S) BY <1>3, SeqOfElems
<1>. QED BY <1>2, <1>4

LEMMA DedupeKeeps == ASSUME NEW pool PROVE Dedupe(pool) \subseteq Moment
<1>. DEFINE step == [c \in Moment |-> [kept \in Seq(Moment) |->
                       IF c \notin pool \/ \E d \in Elems(kept): Duplicate(c, d)
                       THEN kept ELSE Append(kept, c)]]
<1>1. \A c \in Moment, kept \in Seq(Moment):
        step[c][kept] = kept \/ step[c][kept] = Append(kept, c)
  OBVIOUS
<1>2. Dedupe(pool) = Elems(Walk(step, << >>, Better)) BY DEF Dedupe
<1>. HIDE DEF step
<1>3. Len(Better) \in Nat /\ \A i \in 1..Len(Better): Better[i] \in Moment
  BY SelectionAssumption
<1>4. PICK at: Way(at, step, << >>, Better) BY <1>3, WalkSteps, Zenon
<1>. DEFINE T == {i \in 0..Len(Better): at[i] \in Seq(Moment)}
<1>5. 0 \in T
  <2>1. at[0] = << >> BY <1>4 DEF Way
  <2>2. at[0] \in Seq(Moment) BY <2>1
  <2>. QED BY <1>3, <2>2
<1>6. ASSUME NEW i \in 1..Len(Better), i-1 \in T PROVE i \in T
  <2>1. at[i-1] \in Seq(Moment) BY <1>6
  <2>2. at[i] = step[Better[i]][at[i-1]] /\ Better[i] \in Moment BY <1>3, <1>4 DEF Way
  <2>3. at[i] = at[i-1] \/ at[i] = Append(at[i-1], Better[i]) BY <1>1, <2>1, <2>2
  <2>4. Append(at[i-1], Better[i]) \in Seq(Moment) BY <2>1, <2>2, ElemsOfAppend
  <2>5. i \in 0..Len(Better) BY <1>3
  <2>. QED BY <2>1, <2>3, <2>4, <2>5
<1>7. \A i \in 0..Len(Better): i \in T
  <2>. HIDE DEF T
  <2>. QED BY <1>3, <1>5, <1>6, Induction
<1>8. at[Len(Better)] \in Seq(Moment) BY <1>3, <1>7
<1>9. Elems(at[Len(Better)]) \subseteq Moment BY <1>8, ElemsOf
<1>. QED BY <1>2, <1>4, <1>9 DEF Way

LEMMA MomentsAreCandidates ==
    /\ Moment \subseteq Candidate /\ Windows \subseteq Candidate
    /\ Better \in Seq(Moment) /\ Elems(Better) = Moment
    /\ Window \in Seq(Windows) /\ Elems(Window) = Windows
    /\ K \in Nat /\ Len(Typed) \in Nat /\ Len(Typed) <= K
<1>1. Len(Typed) \in Nat BY TypedClips DEF Clips
<1>. QED BY <1>1, RankingAssumption, SelectionAssumption DEF Candidate, Windows

LEMMA OrdersOfMoments ==
    ASSUME NEW S
    PROVE  /\ ByScore(S) \in Seq(Moment)
           /\ \A order \in SetToSeqs(Dedupe(S)): order \in Seq(Moment)
<1>1. ByScore(S) \in Seq(Moment) BY MomentsAreCandidates, WhereKeepsType DEF ByScore
<1>2. ASSUME NEW order \in SetToSeqs(Dedupe(S)) PROVE order \in Seq(Moment)
  <2>1. Dedupe(S) \subseteq Moment BY DedupeKeeps
  <2>2. Cardinality(Dedupe(S)) \in Nat BY <2>1, RankingAssumption, FS_Subset, FS_CardinalityType
  <2>3. order \in [1..Cardinality(Dedupe(S)) -> Dedupe(S)] BY <1>2 DEF SetToSeqs
  <2>4. order \in Seq(Dedupe(S)) BY <2>2, <2>3
  <2>5. Elems(order) \subseteq Moment BY <2>1, <2>4, ElemsOf
  <2>. QED BY <2>4, <2>5, SeqOfElems
<1>. QED BY <1>1, <1>2
-----------------------------------------------------------------------------
(* A selection, whatever the LLM gave and whatever was lost, fills the     *)
(* slots.                                                                  *)
LEMMA SelectionFills ==
    ASSUME focus \in BOOLEAN, NEW moments \in Clips, Elems(moments) \subseteq Moment,
           NEW windows \in Clips, Elems(windows) \subseteq Windows, NEW weak,
           NEW extras, IF focus
                       THEN extras \in Extras(Chosen(moments, windows, << >>, TRUE, weak, K),
                                              moments, weak, K)
                       ELSE extras = << >>
    PROVE  LET r == Selection(moments, windows, weak, extras)
           IN r.clips \in Clips /\ Filled(r) /\ OnlyFills(r)
<1>. DEFINE r == Selection(moments, windows, weak, extras)
            groups == Groups(moments, windows, extras, focus, weak)
<1>0. /\ r.clips = Chosen(moments, windows, extras, focus, weak, K)
      /\ r.moments = moments /\ r.windows = windows /\ r.weak = weak /\ r.extras = extras
  BY DEF Selection
<1>. HIDE DEF r
<1>1. r.clips = Rank(groups, K) BY <1>0 DEF Chosen
<1>2. extras \in Clips /\ Elems(extras) \cap InTyped = {}
  <2>1. << >> \in Clips /\ Elems(<< >>) = {} BY ElemsOfEmpty DEF Clips
  <2>2. CASE focus BY <2>2, ExtrasFit, MomentsAreCandidates
  <2>. QED BY <2>1, <2>2
<1>3. /\ groups \in Seq(Clips)
      /\ \A c \in Elems(moments) \union Elems(windows) \union Elems(extras):
            \/ c \in InTyped
            \/ \E i \in 1..Len(groups): c \in Elems(groups[i])
      /\ \A i \in 1..Len(groups): Elems(groups[i]) \cap InTyped = {}
  <2>1. ~focus => extras = << >> OBVIOUS
  <2>2. Cover(groups, Elems(moments) \union Elems(windows) \union Elems(extras), extras)
    BY <1>2, <2>1, GroupsCover
  <2>. HIDE DEF groups
  <2>. QED BY <1>2, <2>2 DEF Cover
<1>. HIDE DEF groups
<1>4. /\ Grown(Typed, r.clips, Later(groups, 0, Len(groups)))
      /\ r.clips \in Clips /\ Len(r.clips) <= K
      /\ \A i \in 1..Len(groups): \A c \in Elems(groups[i]):
            Len(r.clips) = K \/ OverlapsAny(c, r.clips)
  BY <1>1, <1>3, MomentsAreCandidates, RankFills
<1>5. Filled(r)
  <2>. DEFINE clips == r.clips
  <2>. HIDE DEF clips
  <2>1. clips \in Clips /\ Len(clips) \in Nat /\ Len(Typed) \in Nat /\ Len(Typed) <= Len(clips)
        /\ Typed \in Clips
    BY <1>4, TypedClips DEF Grown, Clips, clips
  <2>2. SubSeq(clips, 1, Len(Typed)) = Typed
    <3>1. \A i \in 1..Len(Typed): clips[i] = Typed[i] BY <1>4 DEF Grown, clips
    <3>. DEFINE front == SubSeq(clips, 1, Len(Typed))
    <3>2. front \in Seq(Candidate) /\ Len(front) = Len(Typed) BY <2>1 DEF Clips
    <3>3. \A i \in 1..Len(Typed): front[i] = clips[i] BY <2>1 DEF Clips
    <3>. HIDE DEF front
    <3>4. Typed \in Seq(Candidate) /\ \A i \in 1..Len(Typed): front[i] = Typed[i]
      BY <2>1, <3>1, <3>3 DEF Clips
    <3>5. front = Typed BY <3>2, <3>4
    <3>. QED BY <3>5 DEF front
  <2>3. ASSUME NEW i \in DOMAIN clips, NEW j \in DOMAIN clips, i # j, j > Len(Typed)
        PROVE  ~Overlap(clips[i], clips[j])
    <3>1. i \in 1..Len(clips) /\ j \in 1..Len(clips) BY <2>1 DEF Clips
    <3>2. ~Overlap(clips[j], clips[i]) BY <1>4, <2>3, <3>1 DEF Grown, clips
    <3>3. clips[i] \in Candidate /\ clips[j] \in Candidate BY <2>1, <3>1 DEF Clips
    <3>. QED BY <3>2, <3>3, Overlaps
  <2>4. Elems(clips) \cap InTyped = {}
    <3>1. Elems(clips) \subseteq Elems(Typed) \union Later(groups, 0, Len(groups))
      BY <1>4 DEF Grown, clips
    <3>2. Later(groups, 0, Len(groups)) \cap InTyped = {} BY <1>3 DEF Later
    <3>3. Elems(Typed) \cap InTyped = {} BY RankingAssumption
    <3>. QED BY <3>1, <3>2, <3>3
  <2>5. ASSUME NEW c \in (Elems(moments) \union Elems(windows) \union Elems(extras)) \ InTyped
        PROVE  Len(clips) = K \/ OverlapsAny(c, clips)
    BY <1>3, <1>4, <2>5 DEF clips
  <2>. QED BY <1>0, <1>4, <2>2, <2>3, <2>4, <2>5 DEF Filled, clips
<1>6. OnlyFills(r)
  <2>1. CASE ~focus
    <3>1. r.clips = Chosen(moments, windows, << >>, FALSE, weak, K) BY <1>0, <2>1
    <3>. QED BY <1>0, <2>1, <3>1, HeuristicOnlyFills, MomentsAreCandidates DEF OnlyFills
  <2>2. CASE focus
    <3>1. r.clips = Chosen(moments, windows, extras, TRUE, weak, K) BY <1>0, <2>2
    <3>. DEFINE first == Chosen(moments, windows, << >>, TRUE, weak, K)
    <3>2. extras \in Extras(first, moments, weak, K) BY <2>2
    <3>3. /\ Fixed(first, moments, weak) \subseteq Elems(r.clips)
          /\ \A x \in Elems(r.clips) \cap Around, c \in Elems(first) \cap Moment: ~Overlap(x, c)
      BY <3>1, <3>2, FocusClipsStay, MomentsAreCandidates
    <3>4. Chosen(r.moments, r.windows, << >>, TRUE, r.weak, K) = first BY <1>0
    <3>. HIDE DEF first
    <3>. QED BY <1>0, <2>2, <3>3, <3>4 DEF OnlyFills
  <2>. QED BY <2>1, <2>2
<1>. QED BY <1>4, <1>5, <1>6 DEF r
-----------------------------------------------------------------------------
(* With the invariant of the session, the types of the rest; and the       *)
(* selection, once there is one.                                           *)
OutcomeInv ==
    /\ focus \in BOOLEAN /\ cooling \subseteq Position /\ elapsed \in 0..Wait
    /\ session.requests \in 0..MaxRequests /\ session.ranked \in Seq(Moment)
    /\ outcome \in Seq(Moment) \union {None}
    /\ result # None => result.clips \in Clips /\ outcome = None
    /\ SlotsAreFilled

LEMMA SlotsStay ==
    ASSUME SlotsAreFilled, UNCHANGED <<focus, result>>
    PROVE  SlotsAreFilled'
BY DEF SlotsAreFilled, Filled, OnlyFills

LEMMA OutcomeInit == ASSUME Init PROVE OutcomeInv
<1>1. MaxRequests \in Nat /\ Wait \in Nat BY SelectionAssumption
<1>2. NewSession.requests = 0 /\ NewSession.ranked = << >> BY DEF NewSession
<1>. QED BY <1>1, <1>2 DEF Init, LlmInit, OutcomeInv, SlotsAreFilled

\* A request counts, and there was one left.
LEMMA RequestCounts ==
    ASSUME SelectInv, OutcomeInv, ~Blocked, NEW from, NEW own, NEW top \in BOOLEAN,
           Request(from, own, top)
    PROVE  OutcomeInv'
<1>1. session \in SessionFields /\ session.requests \in 0..MaxRequests /\ MaxRequests \in Nat
      /\ elapsed \in Nat /\ Deadline \in Nat /\ ~(session.requests >= MaxRequests)
  BY SelectionAssumption DEF SelectInv, SessionInv, OutcomeInv, Blocked
<1>2. session' = [session EXCEPT !.requests = @ + 1, !.toppedUp = @ \/ top] BY DEF Request
<1>3. session'.requests = session.requests + 1 /\ session'.ranked = session.ranked
  BY <1>1, <1>2 DEF SessionFields
<1>4. session'.requests \in 0..MaxRequests BY <1>1, <1>3
<1>5. UNCHANGED <<cooling, focus, elapsed, outcome, result>> BY DEF Request, Ask
<1>. QED BY <1>3, <1>4, <1>5, SlotsStay DEF OutcomeInv

\* A step of the session that asks nothing.
LEMMA GoesCounts ==
    ASSUME OutcomeInv, NEW s, Goes(s), s.requests = session.requests, s.ranked \in Seq(Moment)
    PROVE  OutcomeInv'
<1>1. session' = s /\ UNCHANGED <<cooling, focus, elapsed, outcome, result>> BY DEF Goes
<1>. QED BY <1>1, SlotsStay DEF OutcomeInv

LEMMA EndedCounts ==
    ASSUME OutcomeInv, result = None, NEW o \in Seq(Moment), Ended(o)
    PROVE  OutcomeInv'
<1>1. MaxRequests \in Nat /\ Wait \in Nat BY SelectionAssumption
<1>2. NewSession.requests = 0 /\ NewSession.ranked = << >> BY DEF NewSession
<1>3. /\ outcome' = o /\ session' = NewSession /\ elapsed' = 0 /\ cooling' = {}
      /\ UNCHANGED <<focus, result>>
  BY DEF Ended
<1>4. session'.requests \in 0..MaxRequests /\ elapsed' \in 0..Wait BY <1>1, <1>2, <1>3
<1>5. session'.ranked \in Seq(Moment)
  <2>1. session'.ranked = << >> BY <1>2, <1>3
  <2>. QED BY <2>1
<1>. QED BY <1>3, <1>4, <1>5, SlotsStay DEF OutcomeInv

LEMMA SessionCounts ==
    ASSUME SelectInv, OutcomeInv,
           \/ ChunksEnd \/ ChunkAnswered \/ ChunkFailed \/ NoRetry \/ RetryAnswered \/ RetryFailed
           \/ NoTopup \/ TopupAnswered \/ TopupFailed
    PROVE  OutcomeInv'
<1>1. session \in SessionFields /\ session.ranked \in Seq(Moment)
  BY DEF SelectInv, SessionInv, OutcomeInv
<1>2. CASE ChunksEnd
  <2>. DEFINE s == [session EXCEPT !.stage = "retry", !.partial = @ \/ session.chunk <= Len(plan)]
  <2>1. Goes(s) /\ s.requests = session.requests /\ s.ranked = session.ranked
    BY <1>1, <1>2 DEF ChunksEnd, SessionFields
  <2>. HIDE DEF s
  <2>. QED BY <1>1, <2>1, GoesCounts
<1>3. CASE ChunkAnswered
  <2>1. PICK found \in SUBSET plan[session.chunk], name \in Named(reply.answer):
          Goes([session EXCEPT !.chunk = @ + 1, !.answered = @ \union {session.chunk},
                               !.pool = @ \union found, !.last = name])
    BY <1>3 DEF ChunkAnswered
  <2>. DEFINE s == [session EXCEPT !.chunk = @ + 1, !.answered = @ \union {session.chunk},
                                   !.pool = @ \union found, !.last = name]
  <2>2. Goes(s) /\ s.requests = session.requests /\ s.ranked = session.ranked
    BY <1>1, <2>1 DEF SessionFields
  <2>. HIDE DEF s
  <2>. QED BY <1>1, <2>2, GoesCounts
<1>4. CASE ChunkFailed
  <2>. DEFINE s == [session EXCEPT !.chunk = @ + 1, !.partial = TRUE]
  <2>1. Goes(s) /\ s.requests = session.requests /\ s.ranked = session.ranked
    BY <1>1, <1>4 DEF ChunkFailed, SessionFields
  <2>. HIDE DEF s
  <2>. QED BY <1>1, <2>1, GoesCounts
<1>5. CASE NoRetry \/ RetryFailed
  <2>. DEFINE s == [session EXCEPT !.stage = "topup"]
  <2>1. Goes(s) /\ s.requests = session.requests /\ s.ranked = session.ranked
    BY <1>1, <1>5 DEF NoRetry, RetryFailed, SessionFields
  <2>. HIDE DEF s
  <2>. QED BY <1>1, <2>1, GoesCounts
<1>6. CASE RetryAnswered
  <2>1. PICK chunk \in Weakest: \E found \in SUBSET plan[chunk]:
          Goes([session EXCEPT !.stage = "topup", !.pool = @ \union found])
    BY <1>6 DEF RetryAnswered
  <2>2. PICK found \in SUBSET plan[chunk]:
          Goes([session EXCEPT !.stage = "topup", !.pool = @ \union found])
    BY <2>1
  <2>. DEFINE s == [session EXCEPT !.stage = "topup", !.pool = @ \union found]
  <2>3. Goes(s) /\ s.requests = session.requests /\ s.ranked = session.ranked
    BY <1>1, <2>2 DEF SessionFields
  <2>. HIDE DEF s
  <2>. QED BY <1>1, <2>3, GoesCounts
<1>7. CASE NoTopup \/ TopupFailed
  <2>. DEFINE s == [session EXCEPT !.stage = "rerank"]
  <2>1. Goes(s) /\ s.requests = session.requests /\ s.ranked = session.ranked
    BY <1>1, <1>7 DEF NoTopup, TopupFailed, SessionFields
  <2>. HIDE DEF s
  <2>. QED BY <1>1, <2>1, GoesCounts
<1>8. CASE TopupAnswered
  <2>1. PICK found: Goes([session EXCEPT !.stage = "rerank", !.topup = found])
    BY <1>8 DEF TopupAnswered
  <2>. DEFINE s == [session EXCEPT !.stage = "rerank", !.topup = found]
  <2>2. Goes(s) /\ s.requests = session.requests /\ s.ranked = session.ranked
    BY <1>1, <2>1 DEF SessionFields
  <2>. HIDE DEF s
  <2>. QED BY <1>1, <2>2, GoesCounts
<1>. QED BY <1>2, <1>3, <1>4, <1>5, <1>6, <1>7, <1>8

LEMMA RanksCounts ==
    ASSUME SelectInv, OutcomeInv, NoRerank \/ Reranked \/ RerankFailed
    PROVE  OutcomeInv'
<1>1. session \in SessionFields BY DEF SelectInv, SessionInv
<1>2. PICK order \in Seq(Moment), reranked \in BOOLEAN: Ranks(order, reranked)
  <2>1. ByScore(Kept) \in Seq(Moment) BY OrdersOfMoments
  <2>2. \A order \in SetToSeqs(Kept): order \in Seq(Moment) BY OrdersOfMoments DEF Kept
  <2>. QED BY <2>1, <2>2, Zenon DEF NoRerank, Reranked, RerankFailed
<1>. DEFINE ranked == order \o ByScore(session.topup)
            s == [session EXCEPT !.stage = "return", !.reranked = reranked, !.ranked = ranked]
<1>3. ranked \in Seq(Moment)
  <2>1. ByScore(session.topup) \in Seq(Moment) BY OrdersOfMoments
  <2>. QED BY <2>1, ElemsOfConcat
<1>4. Goes(s) BY <1>2 DEF Ranks
<1>. HIDE DEF ranked
<1>5. s.requests = session.requests /\ s.ranked = ranked BY <1>1 DEF SessionFields
<1>. HIDE DEF s
<1>. QED BY <1>3, <1>4, <1>5, GoesCounts

LEMMA AskCounts ==
    ASSUME SelectInv, OutcomeInv, AskChunk \/ AskRetry \/ AskTopup \/ AskRerank
    PROVE  OutcomeInv'
<1>1. CASE AskChunk BY <1>1, RequestCounts DEF AskChunk
<1>2. CASE AskRetry BY <1>2, RequestCounts DEF AskRetry
<1>3. CASE AskTopup BY <1>3, RequestCounts DEF AskTopup
<1>4. CASE AskRerank BY <1>4, RequestCounts DEF AskRerank
<1>. QED BY <1>1, <1>2, <1>3, <1>4

LEMMA ServerCounts == ASSUME OutcomeInv, SelectInv, Server PROVE OutcomeInv'
<1>1. UNCHANGED <<focus, elapsed, session, outcome, result>> BY DEF Server, Outer
<1>2. cooling' \subseteq Position
  <2>1. cooling \subseteq Position BY DEF OutcomeInv
  <2>2. CASE SkipCooling BY <2>1, <2>2 DEF SkipCooling
  <2>3. CASE \E p \in Position: CooldownEnds(p) BY <2>1, <2>3 DEF CooldownEnds
  <2>4. CASE Post
    <3>1. cooling' = cooling \/ (cooling' = cooling \union {call.at} /\ call # None)
      BY <2>4 DEF Post, Answer, Transient, BadJSON, QuotaExhausted, RefuseParameter, Rejected,
                  Asking
    <3>2. call # None => call.at \in Position BY DEF SelectInv, CallInv, Call
    <3>. QED BY <2>1, <3>1, <3>2
  <2>. QED BY <2>2, <2>3, <2>4 DEF Server
<1>. QED BY <1>1, <1>2, SlotsStay DEF OutcomeInv

LEMMA SelectCounts == ASSUME OutcomeInv, Select PROVE OutcomeInv'
<1>1. outcome # None /\ outcome \in Seq(Moment) /\ focus \in BOOLEAN BY DEF Select, OutcomeInv
<1>2. UNCHANGED <<cooling, focus, elapsed, session>> /\ outcome' = None
  BY DEF Select, Rest, llmVars
<1>3. PICK lost: LET moments == Where(outcome, Moment \ lost)
                     windows == Where(Window, Windows \ lost)
                 IN \E required \in BOOLEAN:
                      IF moments = << >> /\ required THEN result' = NoClips
                      ELSE \E weak \in Weak(Elems(moments) \union Elems(windows)):
                             RankedWith(moments, windows, weak)
  BY DEF Select
<1>. DEFINE moments == Where(outcome, Moment \ lost)
            windows == Where(Window, Windows \ lost)
<1>4. /\ moments \in Clips /\ Elems(moments) \subseteq Moment
      /\ windows \in Clips /\ Elems(windows) \subseteq Windows
  BY <1>1, MomentsAreCandidates, WhereKeepsType
<1>5. result' = NoClips \/ \E weak: RankedWith(moments, windows, weak) BY <1>3
<1>. HIDE DEF moments, windows
<1>6. result'.clips \in Clips /\ SlotsAreFilled'
  <2>1. CASE result' = NoClips
    <3>1. << >> \in Clips BY DEF Clips
    <3>. QED BY <2>1, <3>1 DEF NoClips, SlotsAreFilled
  <2>2. ASSUME NEW weak, RankedWith(moments, windows, weak)
        PROVE  result'.clips \in Clips /\ SlotsAreFilled'
    <3>1. PICK extras:
            /\ result' = Selection(moments, windows, weak, extras)
            /\ IF focus THEN extras \in Extras(Chosen(moments, windows, << >>, TRUE, weak, K),
                                               moments, weak, K)
               ELSE extras = << >>
      BY <2>2, Zenon DEF RankedWith
    <3>. DEFINE r == Selection(moments, windows, weak, extras)
    <3>2. r.clips \in Clips /\ Filled(r) /\ OnlyFills(r)
      BY <1>1, <1>4, <3>1, SelectionFills
    <3>. HIDE DEF r
    <3>3. result' = r BY <3>1 DEF r
    <3>4. (SlotsAreFilled)' BY <1>2, <3>2, <3>3 DEF SlotsAreFilled, Filled, OnlyFills
    <3>. QED BY <3>2, <3>3, <3>4
  <2>. QED BY <1>5, <2>1, <2>2
<1>. QED BY <1>2, <1>6 DEF OutcomeInv

LEMMA OutcomeNext == ASSUME SelectInv, OutcomeInv, [Next]_vars PROVE OutcomeInv'
<1>1. CASE Server BY <1>1, ServerCounts
<1>2. CASE AskChunk \/ AskRetry \/ AskTopup \/ AskRerank BY <1>2, AskCounts
<1>3. CASE \/ ChunksEnd \/ ChunkAnswered \/ ChunkFailed \/ NoRetry \/ RetryAnswered \/ RetryFailed
           \/ NoTopup \/ TopupAnswered \/ TopupFailed
  BY <1>3, SessionCounts
<1>4. CASE NoRerank \/ Reranked \/ RerankFailed BY <1>4, RanksCounts
<1>5. CASE FirstFails \/ Abandon
  <2>1. << >> \in Seq(Moment) OBVIOUS
  <2>2. result = None /\ Ended(<< >>) BY <1>5 DEF FirstFails, Abandon, At, Selecting
  <2>. QED BY <2>1, <2>2, EndedCounts
<1>6. CASE Return
  <2>1. session.ranked \in Seq(Moment) BY DEF OutcomeInv
  <2>2. result = None /\ Ended(session.ranked) BY <1>6 DEF Return, At, Selecting
  <2>. QED BY <2>1, <2>2, EndedCounts
<1>7. CASE Select BY <1>7, SelectCounts
<1>8. CASE Done \/ UNCHANGED vars
  <2>1. UNCHANGED <<cooling, focus, elapsed, session, outcome, result>>
    BY <1>8 DEF Done, vars, llmVars
  <2>. QED BY <2>1, SlotsStay DEF OutcomeInv
<1>9. CASE Elapse
  <2>1. UNCHANGED <<cooling, focus, session, outcome, result>> /\ elapsed < Wait
        /\ elapsed' = elapsed + 1
    BY <1>9 DEF Elapse, llmVars
  <2>2. elapsed' \in 0..Wait BY <2>1, SelectionAssumption DEF OutcomeInv
  <2>. QED BY <2>1, <2>2, SlotsStay DEF OutcomeInv
<1>. QED BY <1>1, <1>2, <1>3, <1>4, <1>5, <1>6, <1>7, <1>8, <1>9 DEF Next, SessionStep

LEMMA OutcomeInvariant == Spec => [](SelectInv /\ OutcomeInv)
<1>1. Init => SelectInv /\ OutcomeInv BY InitHolds, OutcomeInit
<1>2. SelectInv /\ OutcomeInv /\ [Next]_vars => (SelectInv /\ OutcomeInv)'
  BY NextHolds, OutcomeNext
<1>. QED BY <1>1, <1>2, PTL DEF Spec

-----------------------------------------------------------------------------
LEMMA SelectInvariant == Spec => []SelectInv
<1>1. Init => SelectInv BY InitHolds
<1>2. SelectInv /\ [Next]_vars => SelectInv' BY NextHolds
<1>. QED BY <1>1, <1>2, PTL DEF Spec

(* The loop of posts for one model is bounded by its retries, one nudge    *)
(* and the parameters it can do without or rename, and a completion never  *)
(* leaves its chain (_complete_with_model).                                *)
THEOREM PostsAreBounded == Spec => [](call \in Call \union {None})
<1>1. SelectInv => call \in Call \union {None} BY DEF SelectInv, CallInv
<1>. QED BY <1>1, SelectInvariant, PTL

(* No completion fails before every provider behind its start was asked,   *)
(* for every order of providers and models (FailoverLLMClient).            *)
THEOREM FailoverIsComplete == Spec => []NoProviderIsSkipped
<1>1. ASSUME SelectInv PROVE NoProviderIsSkipped
  <2>. SUFFICES ASSUME Unanswered, NEW p \in reply.from..Len(Order)
                PROVE  \/ reply.failures[p] # None
                       \/ \E q \in reply.from..p:
                             Provider[q] = Provider[p] /\ reply.failures[q] = "auth"
    BY DEF NoProviderIsSkipped
  <2>1. Passed(reply.failures, reply.from, p) BY <1>1 DEF SelectInv, ReplyInv, Unanswered
  <2>. QED BY <2>1 DEF Passed
<1>. QED BY <1>1, SelectInvariant, PTL

(* The budget is kept for every number of chunks and requests: a partial   *)
(* selection says so, and a top-up leaves the rerank its request.          *)
THEOREM BudgetHolds == Spec => []BudgetIsKept
<1>1. ASSUME SelectInv PROVE BudgetIsKept
  <2>. SUFFICES ASSUME At("return")
                PROVE  /\ ~session.partial => session.answered = 1..Len(plan)
                       /\ session.toppedUp /\ RerankWanted /\ elapsed < Deadline
                             => session.reranked
    BY DEF BudgetIsKept
  <2>1. session.stage = "return" /\ ChunkInv /\ ReserveInv /\ elapsed \in Nat /\ Deadline \in Nat
    BY <1>1, SelectionAssumption DEF At, SelectInv, SessionInv
  <2>2. ~session.partial => session.answered = 1..Len(plan) BY <2>1 DEF ChunkInv
  <2>3. session.toppedUp /\ RerankWanted => session.reranked \/ elapsed >= Deadline
    BY <2>1 DEF ReserveInv
  <2>4. elapsed < Deadline => ~(elapsed >= Deadline) BY <2>1
  <2>. QED BY <2>2, <2>3, <2>4, Zenon
<1>. QED BY <1>1, SelectInvariant, PTL

(* Types, for every transcript and budget: no more than MaxRequests        *)
(* requests start, whatever is retried or topped up (_Session.request),    *)
(* and what is returned are moments, what is chosen candidates.            *)
THEOREM SelectTypeCorrect == Spec => []SelectTypeOK
<1>1. ASSUME SelectInv, OutcomeInv PROVE SelectTypeOK
  <2>1. /\ call \in Call \union {None} /\ reply \in Reply \union {None}
        /\ call = None \/ reply = None
    BY <1>1 DEF SelectInv, CallInv, ReplyInv
  <2>2. session \in Session
    <3>1. /\ session \in SessionFields /\ session.requests \in 0..MaxRequests
          /\ session.chunk \in 1..Len(plan)+1 /\ session.answered \in SUBSET (1..Len(plan))
          /\ session.ranked \in Seq(Moment)
      BY <1>1 DEF SelectInv, SessionInv, ChunkInv, OutcomeInv
    <3>. QED BY <3>1 DEF SessionFields, Session
  <2>3. plan \in Plans BY <1>1 DEF SelectInv, SessionInv
  <2>. QED BY <1>1, <2>1, <2>2, <2>3 DEF SelectTypeOK, OutcomeInv, Clips
<1>. QED BY <1>1, OutcomeInvariant, PTL

(* The selection, for every set of candidates with any spans and topics,   *)
(* whatever the LLM proposed and snapping lost: the typed ranges come      *)
(* first, no other clip shares a unit with one, a slot stays empty only    *)
(* when nothing fits it, and the heuristic, with or without a focus, only  *)
(* fills (_rank, _ordered, _focus_extras).                                 *)
THEOREM SlotsFilled == Spec => []SlotsAreFilled
<1>1. OutcomeInv => SlotsAreFilled BY DEF OutcomeInv
<1>. QED BY <1>1, OutcomeInvariant, PTL
=============================================================================
