-------------------------- MODULE MomentSelection --------------------------
(***************************************************************************)
(* The selection of a job's clips (propose_with_llm of llm_selection.py,   *)
(* select_clips_v3 of selection_v3.py, _select_within_deadline of          *)
(* pipeline.py).  One thread asks the LLM within a budget of requests and  *)
(* a deadline: one request per chunk of the transcript, one retry, one     *)
(* focus top-up, one rerank, each a completion of LlmClient; then it ranks *)
(* what came back and lets the heuristic fill the rest (ClipRanking).      *)
(* Another thread waits for it, and goes on without it after a while.      *)
(*                                                                         *)
(* Time is elapsed: below Deadline requests may start, at Wait the waiting *)
(* thread gives up.  An answer is the set of its valid moments; parsing,   *)
(* validation and prompts, with the sizes that must fit the context, are   *)
(* left out, and a moment's span is already the snapped one.               *)
(***************************************************************************)
EXTENDS LlmClient, ClipRanking

CONSTANTS Plans,       \* the chunks of a transcript: the moments each one shows
          Better,      \* the moments from the highest score on
          Fragile,     \* the candidates that snapping may fail to fit in the durations
          K,           \* how many clips the job asks for
          MaxRequests, \* LLM_MAX_REQUESTS
          Deadline,    \* LLM_DEADLINE_SECONDS
          Wait         \* LLM_WAIT_SECONDS

ASSUME SelectionAssumption ==
    /\ Plans \subseteq Seq(SUBSET Moment) /\ << >> \notin Plans
    /\ K \in Nat \ {0} /\ MaxRequests \in Nat \ {0}
    /\ Deadline \in Nat \ {0} /\ Wait \in Nat /\ Deadline < Wait
    /\ Len(Typed) < K
    /\ Better \in Seq(Moment) /\ Elems(Better) = Moment /\ Len(Better) = Cardinality(Moment)

VARIABLES focus,    \* the job has focus terms
          plan,     \* _plan_chunks: the request for each chunk
          elapsed,
          session,  \* propose_with_llm at work
          outcome,  \* what it returned: the ranked moments; or why it failed
          result    \* the selection: clips, source and status

vars == <<llmVars, focus, plan, elapsed, session, outcome, result>>

Stages == {"propose", "retry", "topup", "rerank", "return"}
Session == [stage: Stages, requests: 0..MaxRequests, chunk: 1..Len(plan)+1,
            answered: SUBSET (1..Len(plan)), partial: BOOLEAN, last: Position \union {0},
            pool: SUBSET Moment, toppedUp: BOOLEAN, topup: SUBSET Moment,
            reranked: BOOLEAN, ranked: Seq(Moment)]
NewSession == [stage |-> "propose", requests |-> 0, chunk |-> 1, answered |-> {},
               partial |-> FALSE, last |-> 0, pool |-> {},
               toppedUp |-> FALSE, topup |-> {},
               reranked |-> FALSE, ranked |-> << >>]

Init ==
    /\ LlmInit
    /\ focus \in BOOLEAN /\ plan \in Plans
    /\ elapsed = 0 /\ session = NewSession
    /\ outcome = None /\ result = None

Selecting == outcome = None /\ result = None
At(stage) == Selecting /\ session.stage = stage

\* _Session.blocked and request: a failed request counts too.
Blocked == session.requests >= MaxRequests \/ elapsed >= Deadline
Request(from, own, toppedUp) ==
    /\ call = None /\ reply = None
    /\ Ask(from, own)
    /\ session' = [session EXCEPT !.requests = @ + 1, !.toppedUp = @ \/ toppedUp]
    /\ UNCHANGED <<focus, plan, elapsed, outcome, result>>
Answered == reply # None /\ reply.answer # 0
Unanswered == reply # None /\ reply.answer = 0
Free == call = None /\ reply = None

\* The session goes on as s; a reply is used up.
Goes(s) == session' = s /\ reply' = None /\ UNCHANGED <<cooling, call, focus, plan, elapsed, outcome, result>>

\* The model may call itself by another name, which stands for its provider's first.
Named(p) == {p, FirstOf(p)}

\* _duplicates, _dedupe: of two that nearly coincide the better one is kept.
Units(c) == Span[c][1]..Span[c][2]
Shared(c, d) == Cardinality(Units(c) \cap Units(d))
Duplicate(c, d) ==
    \/ 2 * Shared(c, d) > Cardinality(Units(c) \union Units(d))
    \/ \E e \in {c, d}: 10 * Shared(c, d) >= 8 * Cardinality(Units(e))
Dedupe(pool) ==
    Elems(Walk([c \in Moment |-> [kept \in Seq(Moment) |->
                  IF c \notin pool \/ \E d \in Elems(kept): Duplicate(c, d)
                  THEN kept ELSE Append(kept, c)]],
               << >>, Better))
ByScore(S) == Where(Better, S)
-----------------------------------------------------------------------------
(* The propose requests.                                                   *)

AskChunk ==
    /\ At("propose") /\ session.chunk <= Len(plan) /\ ~Blocked
    /\ Request(1, 0, FALSE)

ChunksEnd ==
    /\ At("propose") /\ Free
    /\ (session.chunk > Len(plan) \/ Blocked)
    /\ Goes([session EXCEPT !.stage = "retry", !.partial = @ \/ session.chunk <= Len(plan)])

ChunkAnswered ==
    /\ At("propose") /\ Answered
    /\ \E found \in SUBSET plan[session.chunk], name \in Named(reply.answer):
         Goes([session EXCEPT !.chunk = @ + 1, !.answered = @ \union {session.chunk},
                              !.pool = @ \union found, !.last = name])

ChunkFailed ==
    /\ At("propose") /\ Unanswered /\ session.answered # {}
    /\ Goes([session EXCEPT !.chunk = @ + 1, !.partial = TRUE])

\* The session and its clients end with the call; nothing of them is kept.
Ended(o) ==
    /\ outcome' = o /\ session' = NewSession /\ elapsed' = 0
    /\ cooling' = {} /\ call' = None /\ reply' = None
    /\ UNCHANGED <<focus, plan, result>>

FirstFails == At("propose") /\ Unanswered /\ session.answered = {} /\ Ended(<<>>)
-----------------------------------------------------------------------------
(* The retry: one request for the weakest chunk when fewer than K/2        *)
(* moments are valid.                                                      *)

RetryWanted == session.answered # {} /\ 2 * Cardinality(Dedupe(session.pool)) < K

AskRetry ==
    /\ At("retry") /\ RetryWanted /\ ~Blocked
    /\ LET next == Following(session.last) IN
       IF next = 0 THEN Request(1, 0, FALSE) ELSE Request(next, OwnOf(session.last), FALSE)

NoRetry ==
    /\ At("retry") /\ Free /\ (~RetryWanted \/ Blocked)
    /\ Goes([session EXCEPT !.stage = "topup"])

Weakest ==
    {c \in session.answered: \A d \in session.answered:
        Cardinality(Dedupe(session.pool) \cap plan[c]) <= Cardinality(Dedupe(session.pool) \cap plan[d])}

RetryAnswered ==
    /\ At("retry") /\ Answered
    /\ \E chunk \in Weakest: \E found \in SUBSET plan[chunk]:
         Goes([session EXCEPT !.stage = "topup", !.pool = @ \union found])

RetryFailed == At("retry") /\ Unanswered /\ Goes([session EXCEPT !.stage = "topup"])
-----------------------------------------------------------------------------
(* The focus top-up: one request around the mentions that no moment says;  *)
(* the last request stays for a rerank that will run.                      *)

Kept == Dedupe(session.pool)
About(c) == FocusMatch(c) # "none"
Uncovered == DOMAIN Mention \ SaidBy(Kept)
TopupWanted ==
    /\ focus /\ session.answered # {}
    /\ Cardinality({c \in Kept: About(c)}) < K /\ Uncovered # {}

\* seeded fault: the top-up takes whatever is left of the budget
ReserveNothing == 0
Reserve == IF Cardinality(Kept) > K THEN 1 ELSE 0

AskTopup ==
    /\ At("topup") /\ TopupWanted /\ ~Blocked /\ MaxRequests - session.requests > Reserve
    /\ Request(1, 0, TRUE)

NoTopup ==
    /\ At("topup") /\ Free
    /\ (~TopupWanted \/ Blocked \/ MaxRequests - session.requests <= Reserve)
    /\ Goes([session EXCEPT !.stage = "rerank"])

TopupAnswered ==
    /\ At("topup") /\ Answered
    /\ \E found \in SUBSET {c \in Moment: Says(c) \cap Uncovered # {}}:
         /\ \A c \in found: /\ \A d \in Kept: ~Duplicate(c, d)
                            /\ \A d \in {e \in Kept: About(e)} \union (found \ {c}): ~Overlap(c, d)
         /\ Goes([session EXCEPT !.stage = "rerank", !.topup = found])

TopupFailed == At("topup") /\ Unanswered /\ Goes([session EXCEPT !.stage = "rerank"])
-----------------------------------------------------------------------------
(* The rerank: an order of the kept moments, or their own when it fails or *)
(* covers too few of them.  The top-up's moments follow.                   *)

RerankWanted == Cardinality(Kept) > K

AskRerank == At("rerank") /\ RerankWanted /\ ~Blocked /\ Request(1, 0, FALSE)

Ranks(order, reranked) ==
    Goes([session EXCEPT !.stage = "return", !.reranked = reranked,
                         !.ranked = order \o ByScore(session.topup)])

NoRerank == At("rerank") /\ Free /\ (~RerankWanted \/ Blocked) /\ Ranks(ByScore(Kept), FALSE)
Reranked == At("rerank") /\ Answered /\ \E order \in SetToSeqs(Kept): Ranks(order, TRUE)
RerankFailed == At("rerank") /\ Unanswered /\ Ranks(ByScore(Kept), TRUE)

Return == At("return") /\ Ended(session.ranked)
-----------------------------------------------------------------------------
(* select_clips_v3 after the LLM: snapping may lose moments; without any   *)
(* the job falls back to the heuristic, or fails when the LLM is required  *)
(* (llm_mode, which nothing before this looks at).                         *)

Selection(moments, windows, weak, extras) ==
    [clips |-> Chosen(moments, windows, extras, focus, weak, K),
     moments |-> moments, windows |-> windows, weak |-> weak, extras |-> extras]
NoClips == [clips |-> << >>, moments |-> << >>, windows |-> << >>, weak |-> {}, extras |-> << >>]

\* Matches whose score is below the floor of their source.
Weak(S) == IF focus THEN SUBSET {c \in S: FocusMatch(c) # "none"} ELSE {{}}

RankedWith(moments, windows, weak) ==
    IF ~focus THEN result' = Selection(moments, windows, weak, << >>)
    ELSE LET first == Chosen(moments, windows, << >>, TRUE, weak, K) IN
         \E extras \in Extras(first, moments, weak, K):
             result' = Selection(moments, windows, weak, extras)

Rest == UNCHANGED <<llmVars, focus, plan, elapsed, session>>

Select ==
    /\ outcome # None /\ result = None
    /\ \E lost \in SUBSET (Fragile \cap (Elems(outcome) \union Windows)):
         LET moments == Where(outcome, Moment \ lost)
             windows == Where(Window, Windows \ lost)
         IN \E required \in BOOLEAN:
            IF moments = << >> /\ required THEN result' = NoClips
            ELSE \E weak \in Weak(Elems(moments) \union Elems(windows)):
                    RankedWith(moments, windows, weak)
    /\ outcome' = None
    /\ Rest

\* The waiting thread goes on as if the LLM had given nothing; the other is abandoned.
\* seeded fault: the time is looked at between two requests only
AbandonBetween == Selecting /\ Free /\ elapsed = Wait /\ Ended(<< >>)
Abandon == Selecting /\ elapsed = Wait /\ Ended(<< >>)

Elapse ==
    /\ Selecting /\ elapsed < Wait
    /\ elapsed' = elapsed + 1
    /\ UNCHANGED <<llmVars, focus, plan, session, outcome, result>>

Outer == <<focus, plan, elapsed, session, outcome, result>>
Server == (SkipCooling \/ Post \/ \E p \in Position: CooldownEnds(p)) /\ Selecting /\ UNCHANGED Outer
SessionStep ==
    \/ AskChunk \/ ChunksEnd \/ ChunkAnswered \/ ChunkFailed \/ FirstFails
    \/ AskRetry \/ NoRetry \/ RetryAnswered \/ RetryFailed
    \/ AskTopup \/ NoTopup \/ TopupAnswered \/ TopupFailed
    \/ AskRerank \/ NoRerank \/ Reranked \/ RerankFailed
    \/ Return \/ Select

Done == result # None /\ UNCHANGED vars
Next == Server \/ SessionStep \/ Elapse \/ Abandon \/ Done

\* Time passes and the waiting thread runs; that a server ever answers, or the
\* thread that asks ever moves, is not assumed.
Fairness == WF_vars(Elapse) /\ WF_vars(Abandon)
Spec == Init /\ [][Next]_vars /\ Fairness
-----------------------------------------------------------------------------
(* The types of the call, the session and the result: the requests stay    *)
(* within the budget, and the loop of posts for one model, which counts    *)
(* only some of them as retries, is bounded (_complete_with_model).        *)
SelectTypeOK ==
    /\ cooling \subseteq Position
    /\ call \in Call \union {None} /\ reply \in Reply \union {None}
    /\ call = None \/ reply = None
    /\ focus \in BOOLEAN /\ plan \in Plans /\ elapsed \in 0..Wait
    /\ session \in Session
    /\ outcome \in Seq(Moment) \union {None}
    /\ result # None => result.clips \in Seq(Candidate) /\ outcome = None

(* A completion fails only after every model of its chain was tried, was   *)
(* on cooldown, or comes after a model of its own provider that refused    *)
(* the key: a refused key, a quota or a bad answer of one provider never   *)
(* keeps another one from being asked (FailoverLLMClient.complete_json).   *)
NoProviderIsSkipped ==
    Unanswered =>
        \A p \in reply.from..Len(Order):
            \/ reply.failures[p] # None
            \/ \E q \in reply.from..p: Provider[q] = Provider[p] /\ reply.failures[q] = "auth"

(* When the requests are over: a selection that does not say it is partial *)
(* asked for the whole transcript and was answered; and a top-up never     *)
(* took the request of the rerank, which then took place unless the        *)
(* deadline had passed (propose_with_llm, reserve).                        *)
BudgetIsKept ==
    At("return") =>
        /\ ~session.partial => session.answered = 1..Len(plan)
        /\ session.toppedUp /\ RerankWanted /\ elapsed < Deadline => session.reranked

(* The clips: the typed ranges first, then others that share no unit with  *)
(* any clip before or after (two ranges typed inside one long sentence may *)
(* share it) and lie in no typed range, extra windows included; and fewer  *)
(* than K only when every candidate left lies in a typed range or shares a *)
(* unit with a clip (_rank, _range_units, _in_typed_range).                *)
Filled(r) ==
    /\ SubSeq(r.clips, 1, Len(Typed)) = Typed /\ Len(r.clips) <= K
    /\ \A i, j \in DOMAIN r.clips:
          i # j /\ j > Len(Typed) => ~Overlap(r.clips[i], r.clips[j])
    /\ Elems(r.clips) \cap InTyped = {}
    /\ \A c \in (Elems(r.moments) \union Elems(r.windows) \union Elems(r.extras)) \ InTyped:
          c \in Elems(r.clips) \/ Len(r.clips) = K \/ OverlapsAny(c, r.clips)
(* The heuristic only fills: without a focus it takes a slot only when     *)
(* every moment of the LLM is a clip, lies in a typed range, or shares a   *)
(* unit with a typed range or with another moment's clip; with a focus the *)
(* windows added around mentions leave every clip of the focus in place,   *)
(* and never cut into one of the LLM's (_rank, _focus_extras).             *)
OnlyFills(r) ==
    IF ~focus
    THEN Elems(r.clips) \cap Windows # {} =>
           \A c \in Elems(r.moments) \ InTyped:
              c \in Elems(r.clips) \/ \E d \in Elems(r.clips) \ Windows: Overlap(c, d)
    ELSE LET first == Chosen(r.moments, r.windows, << >>, TRUE, r.weak, K) IN
         /\ Fixed(first, r.moments, r.weak) \subseteq Elems(r.clips)
         /\ \A x \in Elems(r.clips) \cap Around, c \in Elems(first) \cap Moment: ~Overlap(x, c)
SlotsAreFilled == result \notin {None, NoClips} => Filled(result) /\ OnlyFills(result)

(* The LLM phase ends, although a server may never answer and the thread   *)
(* that waits for it may hang: the other thread abandons it after Wait     *)
(* (_select_within_deadline); what follows computes and waits for nobody.  *)
LlmPhaseEnds == <>~Selecting
=============================================================================
