----------------------------- MODULE MCDocStore -----------------------------
(* Model values, symmetry and the bound for checking DocStore with TLC.  No *)
(* definition orders keys or bodies.                                        *)
EXTENDS DocStore, TLC

AllFaults == Faults

Symmetry == Permutations(Key) \union Permutations(Body)

(* Bound: the clock stops at LastStamp, for three saves early enough that   *)
(* only some of them find it ahead.                                         *)
LastStamp == 3
Clock == put # None => At(put.result) <= LastStamp
=============================================================================
