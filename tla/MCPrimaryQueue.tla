--------------------------- MODULE MCPrimaryQueue ---------------------------
(* Small instances of PrimaryQueue for TLC.  Token is a symmetry set: no   *)
(* definition orders tokens or picks one by CHOOSE, and no run of this     *)
(* module checks liveness.                                                 *)
EXTENDS PrimaryQueue, TLC

AllFaults == Faults
OnlyUnlink == {"unlink"}

OneStamp == {1}
TwoStamps == {1, 2}

Symmetry == Permutations(Token)
JobAndTokenSymmetry == Permutations(Token) \union Permutations(Job)
=============================================================================
