------------------------- MODULE MCMomentSelection -------------------------
(* Values for checking MomentSelection: three models of two providers, an  *)
(* episode of one chunk or of two that overlap in a moment, one more       *)
(* moment that only a top-up finds, three heuristic windows, three windows *)
(* around mentions and one typed range.  The range ends early in unit 2,   *)
(* where a moment and a window begin, and holds the middle of unit 1, of   *)
(* which a heuristic window has hardly half a second.                      *)
EXTENDS MomentSelection, TLC

CONSTANTS m1, m2, m3, a, b, c, d, e, h0, h1, h2, x0, x1, x2, t

Models == <<m1, m2, m3>>
Providers == <<"first", "first", "second">>

HeuristicWindows == <<h0, h1, h2>>
Ranges == <<t>>
Spans ==
    a :> <<2, 2>> @@ b :> <<4, 5>> @@ c :> <<7, 9>> @@ d :> <<9, 13>> @@ e :> <<14, 16>>
    @@ h0 :> <<0, 1>> @@ h1 :> <<4, 6>> @@ h2 :> <<12, 15>>
    @@ x0 :> <<2, 3>> @@ x1 :> <<5, 6>> @@ x2 :> <<14, 16>> @@ t :> <<1, 1>>
Topics ==
    a :> 6 @@ b :> 2 @@ c :> 1 @@ d :> 3 @@ e :> 5 @@ h0 :> 7 @@ h1 :> 4 @@ h2 :> 4
    @@ x0 :> 7 @@ x1 :> 4 @@ x2 :> 3 @@ t :> 1
Mentions == <<3, 6, 10, 12, 15>>
ShortAndLong == {<<{a, b, c, d}>>, <<{a, b}, {b, c, d}>>}
ByQuality == <<b, a, c, d, e>>
=============================================================================
