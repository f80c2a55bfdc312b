----------------------------- MODULE LlmClient -----------------------------
(***************************************************************************)
(* One JSON completion of the LLM clients (llm.py): the failover over      *)
(* providers, each provider's chain of models, and for one model the loop  *)
(* of posts with its retries, its one nudge after bad JSON and its         *)
(* adaptation to parameters the server refuses.  A client remembers over   *)
(* its completions which models are on cooldown; what it learned about a   *)
(* model's parameters before is any choice when the model is next asked.   *)
(*                                                                         *)
(* The providers' chains are taken one after the other, as one sequence.   *)
(* Left out: the waits of the rate limiter and of the backoff, which take  *)
(* time only, and the response cache, which a selection never hits twice.  *)
(***************************************************************************)
EXTENDS Integers, Sequences, FiniteSets

CONSTANTS Order,      \* the models of all providers, in failover order
          Provider,   \* the provider of each position of Order
          Droppable,  \* the parameters a request can do without
          MaxRetries, \* LLMConfig.max_retries
          None

ASSUME ClientAssumption ==
    /\ MaxRetries \in Nat
    /\ IsFiniteSet(Droppable)
    /\ Len(Order) \in Nat \ {0}
    /\ DOMAIN Provider = 1..Len(Order)

\* Each provider's models follow one another.
ASSUME ChainAssumption ==
    \A p \in 1..Len(Order): \E first, last \in 1..Len(Order):
        {q \in 1..Len(Order): Provider[q] = Provider[p]} = first..last

VARIABLES cooling, \* the positions of Order whose model is on cooldown
          call,      \* the completion under way, or None
          reply    \* what the last completion gave, or None

llmVars == <<cooling, call, reply>>

Position == 1..Len(Order)
TokenParams == {"max_tokens", "max_completion_tokens"}
Adaptations == Droppable \union TokenParams
Codes == {"auth", "other"}
Call == [at: Position,                \* the model that is asked
         from: Position,              \* where the chain of this request starts
         own: 0..Len(Order),          \* up to here a client made for this request
         retries: 0..MaxRetries, adapted: SUBSET Adaptations, nudged: BOOLEAN,
         dropped: SUBSET Droppable, token: TokenParams,
         posts: 0..MaxRetries + 1 + Cardinality(Adaptations),
         failures: [Position -> Codes \union {None}]]
Reply == [answer: Position \union {0}, from: Position,
          failures: [Position -> Codes \union {None}]]

ASSUME NoneAssumption == None \notin Codes \union Call \union Reply

LlmInit == cooling = {} /\ call = None /\ reply = None

LastOf(p) == CHOOSE q \in Position:
    /\ Provider[q] = Provider[p]
    /\ \A r \in Position: Provider[r] = Provider[p] => r <= q
FirstOf(p) == CHOOSE q \in Position:
    /\ Provider[q] = Provider[p]
    /\ \A r \in Position: Provider[r] = Provider[p] => q <= r

Entered(from, p, own, failures) ==
    {[at |-> p, from |-> from, own |-> own, retries |-> 0, adapted |-> {}, nudged |-> FALSE,
      dropped |-> dropped, token |-> token, posts |-> 0, failures |-> failures]:
       dropped \in SUBSET Droppable, token \in TokenParams}

\* complete_json of the failover client, or of the rest of its chain.
Ask(from, own) ==
    /\ call = None
    /\ call' \in Entered(from, from, own, [p \in Position |-> None])
    /\ reply' = None
    /\ UNCHANGED cooling

(***************************************************************************)
(* The model at call.at failed: the next one of its provider is asked, or  *)
(* after a refused key (auth) the next provider; without one the           *)
(* completion fails.                                                       *)
(***************************************************************************)
\* seeded fault: a refused key stops the other providers too
NextToAskStops(code) == IF code = "auth" THEN Len(Order) + 1 ELSE call.at + 1
NextToAsk(code) == IF code = "auth" THEN LastOf(call.at) + 1 ELSE call.at + 1
GiveUp(code) ==
    LET failures == [call.failures EXCEPT ![call.at] = code]
        next == NextToAsk(code)
    IN
    IF next \in Position
    THEN call' \in Entered(call.from, next, call.own, failures) /\ reply' = None
    ELSE call' = None /\ reply' = [answer |-> 0, from |-> call.from, failures |-> failures]

\* A client made for this request knows of no cooldown, and nobody learns of its own.
Cooling == call.at \in cooling /\ call.at > call.own
Asking == call # None /\ ~Cooling

SkipCooling ==
    /\ call # None /\ Cooling
    /\ GiveUp("other")
    /\ UNCHANGED cooling

Answer ==
    /\ Asking
    /\ call' = None
    /\ reply' = [answer |-> call.at, from |-> call.from, failures |-> call.failures]
    /\ UNCHANGED cooling

\* _parameter_adaptation: what a 400 can refuse is in the payload.
Refusable == (Droppable \ call.dropped) \union {call.token}
OtherToken == IF call.token = "max_tokens" THEN "max_completion_tokens" ELSE "max_tokens"
Adapted(a) ==
    [call EXCEPT !.adapted = @ \union {a}, !.posts = @ + 1,
                 !.dropped = IF a \in Droppable THEN @ \union {a} ELSE @,
                 !.token = IF a = call.token THEN OtherToken ELSE @]
\* seeded fault: a renamed parameter may be renamed back without end
RefuseParameterAgain(a) ==
    /\ Asking
    /\ a \in Refusable
    /\ call' = Adapted(a)
    /\ UNCHANGED <<cooling, reply>>
RefuseParameter(a) ==
    /\ Asking
    /\ a \in Refusable \ call.adapted
    /\ call' = Adapted(a)
    /\ UNCHANGED <<cooling, reply>>

\* 429, 5xx, a timeout, an unreadable body.
Transient ==
    /\ Asking
    /\ IF call.retries < MaxRetries
       THEN /\ call' = [call EXCEPT !.retries = @ + 1, !.posts = @ + 1]
            /\ UNCHANGED reply
       ELSE GiveUp("other")
    /\ UNCHANGED cooling

BadJSON ==
    /\ Asking
    /\ IF ~call.nudged
       THEN /\ call' = [call EXCEPT !.nudged = TRUE, !.posts = @ + 1]
            /\ UNCHANGED reply
       ELSE GiveUp("other")
    /\ UNCHANGED cooling

QuotaExhausted ==
    /\ Asking
    /\ GiveUp("other")
    /\ cooling' = IF call.at > call.own THEN cooling \union {call.at} ELSE cooling

\* 404, 413, a truncated answer, a parameter refused twice; 401 or 403 is auth.
Rejected(code) ==
    /\ Asking
    /\ code \in {"auth", "other"}
    /\ GiveUp(code)
    /\ UNCHANGED cooling

\* A cooldown that Retry-After made shorter than the selection.
CooldownEnds(p) ==
    /\ p \in cooling
    /\ cooling' = cooling \ {p}
    /\ UNCHANGED <<call, reply>>

Post == \/ Answer \/ Transient \/ BadJSON \/ QuotaExhausted
        \/ \E a \in Adaptations: RefuseParameter(a)
        \/ \E code \in {"auth", "other"}: Rejected(code)

(* next_model_client: the chain after the model that answered, by a client *)
(* of its own as far as that model's provider goes; 0 when nothing is left.*)
Following(p) == IF p + 1 \in Position THEN p + 1 ELSE 0
OwnOf(p) == IF LastOf(p) = p THEN 0 ELSE LastOf(p)
=============================================================================
