---------------------------- MODULE ClipRanking ----------------------------
(***************************************************************************)
(* The order in which candidates become clips (selection_v3.py): _rank,    *)
(* _ordered, the focus parts, and the windows added around mentions nobody *)
(* looked at (_focus_extras).  A candidate is a value with a span of       *)
(* sentence units and a topic; a mention is the unit it is said in.        *)
(*                                                                         *)
(* Left out: seconds (spans are those after snapping), but for the         *)
(* candidates that lie in a typed range: the units of a range are those    *)
(* whose middle it holds, so a candidate may share seconds with it and no  *)
(* unit, or a unit and hardly any time.  Left out too are trends and the   *)
(* opening of the episode.  How two moments compare in quality is not      *)
(* computed: the order of the LLM's moments and the set of those too weak  *)
(* to be moved up are parameters.                                          *)
(***************************************************************************)
EXTENDS Integers, Sequences, FiniteSets, SequencesExt

CONSTANTS Moment,   \* what the LLM can propose
          Window,   \* what the heuristic proposes, in its own order
          Around,   \* heuristic windows around single mentions
          Typed,    \* the time ranges a person typed, in their order
          Span,     \* the first and last unit of each candidate
          InTyped,  \* what shares more than half a second with a typed range
          Topic,    \* near-duplicates have the same topic
          Mention,  \* the unit of each mention; each is a cluster of its own
          Claimed   \* the moments the LLM says are about the focus

Elems(s) == {s[i]: i \in DOMAIN s}
Windows == Elems(Window)
Candidate == Moment \union Windows \union Around \union Elems(Typed)
Clips == Seq(Candidate)

ASSUME RankingAssumption ==
    /\ Window \in Seq(Windows) /\ Typed \in Seq(Elems(Typed))
    /\ IsFiniteSet(Moment) /\ IsFiniteSet(Around)
    /\ Moment \cap Windows = {} /\ Around \cap (Moment \union Windows) = {}
    /\ Elems(Typed) \cap (Moment \union Windows \union Around) = {}
    /\ Span \in [Candidate -> Int \X Int]
    /\ \A c \in Candidate: Span[c][1] <= Span[c][2]
    /\ InTyped \subseteq Moment \union Windows \union Around
    /\ Typed = << >> => InTyped = {}

Overlap(c, d) == Span[c][1] <= Span[d][2] /\ Span[d][1] <= Span[c][2]
OverlapsAny(c, chosen) == \E d \in Elems(chosen): Overlap(c, d)
Near(c, chosen) == \E d \in Elems(chosen): Topic[c] = Topic[d]

\* What the elements of seq make of base one after another, e by step[e].
Walk(step, base, seq) ==
    LET at[i \in 0..Len(seq)] == IF i = 0 THEN base ELSE step[seq[i]][at[i-1]]
    IN at[Len(seq)]

\* The elements of seq that are in S.
Where(seq, S) ==
    Walk([c \in Candidate |-> [kept \in Clips |-> IF c \in S THEN Append(kept, c) ELSE kept]],
         << >>, seq)

(***************************************************************************)
(* _rank: group after group, without overlaps, near-duplicates at the end  *)
(* of their own group, at most limit clips.                                *)
(***************************************************************************)
Look(limit) ==
    [c \in Candidate |-> [s \in [chosen: Clips, deferred: Clips] |->
        IF Len(s.chosen) >= limit \/ OverlapsAny(c, s.chosen) THEN s
        ELSE IF Near(c, s.chosen) THEN [s EXCEPT !.deferred = Append(@, c)]
        ELSE [s EXCEPT !.chosen = Append(@, c)]]]
Again(limit) ==
    [c \in Candidate |-> [chosen \in Clips |->
        IF Len(chosen) >= limit \/ OverlapsAny(c, chosen) THEN chosen ELSE Append(chosen, c)]]
\* seeded fault: the deferred ones are not compared with what was taken meanwhile
AgainUnchecked(limit) ==
    [c \in Candidate |-> [chosen \in Clips |->
        IF Len(chosen) >= limit THEN chosen ELSE Append(chosen, c)]]
TakeGroupUnchecked(limit, taken, group) ==
    LET first == Walk(Look(limit), [chosen |-> taken, deferred |-> << >>], group)
    IN Walk(AgainUnchecked(limit), first.chosen, first.deferred)
TakeGroup(limit, taken, group) ==
    LET first == Walk(Look(limit), [chosen |-> taken, deferred |-> << >>], group)
    IN Walk(Again(limit), first.chosen, first.deferred)

Rank(groups, limit) ==
    Walk([group \in Clips |-> [taken \in Clips |-> TakeGroup(limit, taken, group)]], Typed, groups)

(***************************************************************************)
(* The focus.  Says: the span holds the mention.  A match is moved up      *)
(* unless it is too weak, or it is a window whose mentions an LLM moment   *)
(* or a typed range says already (_focus_match, _with_part).               *)
(***************************************************************************)
Says(c) == {n \in DOMAIN Mention: Span[c][1] <= Mention[n] /\ Mention[n] <= Span[c][2]}
FocusMatch(c) ==
    IF Says(c) # {} THEN "literal" ELSE IF c \in Moment \cap Claimed THEN "semantic" ELSE "none"
SaidBy(S) == UNION {Says(c): c \in S}

\* What lies in a typed range for long enough is no candidate (_in_typed_range).
Outside(seq) == Where(seq, Candidate \ InTyped)
Judged(moments) == SaidBy(Elems(Outside(moments)) \union Elems(Typed))

Part(c, weak, judged) ==
    IF c \in weak \/ (c \in Windows /\ Says(c) \subseteq judged) THEN "none" ELSE FocusMatch(c)

(***************************************************************************)
(* _ordered: the groups, the LLM's first; with a focus its parts first.    *)
(* The extra windows come after the heuristic's other literal ones.        *)
(***************************************************************************)
Groups(moments, windows, extras, focused, weak) ==
    LET judged == Judged(moments)
        PartOf(seq, part) == Where(seq, {c \in Candidate: Part(c, weak, judged) = part})
    IN IF ~focused THEN <<Outside(moments), Outside(windows)>>
       ELSE <<PartOf(Outside(moments), "literal"), PartOf(Outside(moments), "semantic"),
              PartOf(Outside(windows), "literal") \o extras,
              PartOf(Outside(moments), "none"), PartOf(Outside(windows), "none")>>

Chosen(moments, windows, extras, focused, weak, k) ==
    Rank(Groups(moments, windows, extras, focused, weak), k)

\* The clips an extra window never replaces, and those it never cuts into.
Fixed(clips, moments, weak) ==
    {c \in Elems(clips) \ Elems(Typed): Part(c, weak, Judged(moments)) # "none"}
Blocking(clips, moments, weak) ==
    Fixed(clips, moments, weak) \union Elems(Typed) \union (Elems(clips) \cap Moment)

\* _focus_extras: any sequence of windows it may add for the mentions still open.
Room(clips, moments, weak, k) == k - Len(Typed) - Cardinality(Fixed(clips, moments, weak))
Extras(clips, moments, weak, k) ==
    LET open == DOMAIN Mention \ (Judged(moments) \union SaidBy(Elems(clips)))
        Fits(c) == /\ Says(c) \cap open # {} /\ c \notin InTyped
                   /\ \A d \in Blocking(clips, moments, weak): ~Overlap(c, d)
        fitting == {c \in Around: Fits(c)}
    IN {s \in UNION {SetToSeqs(S): S \in SUBSET fitting}:
          /\ Len(s) <= Room(clips, moments, weak, k)
          /\ \A i, j \in DOMAIN s: i # j =>
                ~Overlap(s[i], s[j]) /\ Says(s[i]) \cap Says(s[j]) \cap open = {}}
=============================================================================
