------------------------- MODULE MCCommissionLedger -------------------------
(* Instance of CommissionLedger for TLC.                                   *)
EXTENDS CommissionLedger, TLC

\* Two earnings of one payee, frozen until time 2.
MCPayee == [e \in Earnings |-> "ada"]
MCAvailableAt == [e \in Earnings |-> 2]

\* Callers and settlements are interchangeable.
Symmetry == Permutations(Clients) \cup Permutations(Settlements)
=============================================================================
