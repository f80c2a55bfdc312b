-------------------------- MODULE MCPrimaryService --------------------------
(* Model values, fault sets and symmetry for checking PrimaryService.      *)
EXTENDS PrimaryService, TLC

QueueFaults == {"publish", "purge"}
ContainerDeath == {"container", "update"}
AllMishaps == Mishaps
OneStamp == {1}

Symmetry == Permutations(Token)
=============================================================================
