---------------------------- MODULE MCOnboarding ----------------------------
(* A small instance of Onboarding for TLC: two callers in one process and   *)
(* one in another, with bounds on the calls of each kind.                   *)
EXTENDS Onboarding, TLC

CONSTANTS a1, a2, b1, proc1, proc2

\* The callers of a process, and the consumers, are interchangeable.
MCSymmetry == Permutations({a1, a2}) \cup Permutations(Consumers)

MCProcess == (a1 :> proc1) @@ (a2 :> proc1) @@ (b1 :> proc2)
MCLimit == [turns |-> 2, input |-> 1, total |-> 1]
MCUsages == {[turns |-> 1, input |-> 1, output |-> 0]}
MCInputs == {[plan |-> "basic", unit |-> "eu", skip |-> FALSE],
             [plan |-> "basic", unit |-> "eu", skip |-> TRUE]}
MCBudgets == {[onboard |-> 3, restart |-> 0, admin |-> 0, use |-> 0],
              [onboard |-> 2, restart |-> 1, admin |-> 0, use |-> 0],
              [onboard |-> 2, restart |-> 0, admin |-> 1, use |-> 0],
              [onboard |-> 1, restart |-> 0, admin |-> 2, use |-> 0],
              [onboard |-> 2, restart |-> 0, admin |-> 0, use |-> 1],
              [onboard |-> 1, restart |-> 0, admin |-> 0, use |-> 2]}
=============================================================================
