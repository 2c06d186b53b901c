--------------------------- MODULE MCCachedStore ---------------------------
(* Small instances of CachedStore for TLC. *)
EXTENDS CachedStore, TLC

Symmetry == Permutations(Clients) \cup Permutations(Tenants) \cup Permutations(Values)
=============================================================================
