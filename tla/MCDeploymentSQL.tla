--------------------------- MODULE MCDeploymentSQL ---------------------------
(* A small instance of DeploymentSQL for TLC. *)
EXTENDS DeploymentSQL, TLC

Symmetry == Permutations(Sessions) \cup Permutations(Tenants) \cup Permutations(Units)
=============================================================================
