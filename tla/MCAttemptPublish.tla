------------------------- MODULE MCAttemptPublish --------------------------
(* Model values and symmetry for checking AttemptPublish.                  *)
EXTENDS AttemptPublish, TLC

PublishFaults == {"publish"}
OneStamp == {1}

Symmetry == Permutations(Token)
=============================================================================
