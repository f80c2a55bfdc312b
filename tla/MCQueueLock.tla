---------------------------- MODULE MCQueueLock -----------------------------
(* Model values and fault sets for checking QueueLock with TLC.            *)
EXTENDS QueueLock, TLC

HolderDies == {"crash"}
AllFaults == Faults

Symmetry == Permutations(Process)
=============================================================================
