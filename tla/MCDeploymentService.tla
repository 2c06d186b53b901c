------------------------ MODULE MCDeploymentService ------------------------
(* Small instances of DeploymentService for TLC. *)
EXTENDS DeploymentService, TLC

CONSTANTS c1, c2, c3, i1, i2

\* Two service processes; the first one serves two goroutines.
TwoInstances == (c1 :> i1) @@ (c2 :> i2) @@ (c3 :> i1)
OneEach == (c1 :> i1) @@ (c2 :> i2)
OneInstance == (c1 :> i1) @@ (c2 :> i1)

UnitSymmetry == Permutations(Units)
=============================================================================
