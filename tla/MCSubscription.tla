--------------------------- MODULE MCSubscription ---------------------------
(* Small instances of Subscription for TLC. *)
EXTENDS Subscription, TLC

Symmetry == Permutations(Clients) \cup Permutations(Tenants)
=============================================================================
