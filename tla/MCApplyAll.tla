----------------------------- MODULE MCApplyAll -----------------------------
(* Model values for checking ApplyAll: the seed of one clip differs from   *)
(* the others', and one part does not validate in one clip.                *)
EXTENDS ApplyAll, TLC

CONSTANTS c1, c2, c3, p0, p1, p2
Seeds == c1 :> p0 @@ c2 :> p0 @@ c3 :> p1
Rejects == {<<c2, p2>>}

Symmetry == Permutations(Batch)
=============================================================================
