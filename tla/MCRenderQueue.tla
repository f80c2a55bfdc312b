---------------------------- MODULE MCRenderQueue ----------------------------
(* Model values, symmetry and bounds for checking RenderQueue with TLC.    *)
(* Posts are ordered, keys and exports are not.                            *)
EXTENDS RenderQueue, TLC

AllFaults == Faults
TwoPosts == {1, 2}

Symmetry == Permutations(Key) \union Permutations(Export)

(* Bound: POSTs of one key interleave without a limit.  Of POSTs of two    *)
(* keys the second comes after the first was answered; their requests are  *)
(* claimed TwoClaims times between them, both of them only when the first  *)
(* has ended; one of them may be claimed at any time while the other waits.*)
TwoClaims == 2
OneKey == asked[1].key = asked[2].key
InTurn == post[2] = "new" \/ post[1] \in {"lost", "ended"}
OneByOne ==
    /\ drawn[1] + drawn[2] <= TwoClaims
    /\ 0 \in {drawn[1], drawn[2]} \/ queue[1].state \in Ended \union {"absent"}
Bound == OneKey \/ (InTurn /\ OneByOne)
=============================================================================
