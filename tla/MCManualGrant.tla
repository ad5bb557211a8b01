--------------------------- MODULE MCManualGrant ---------------------------
(* Small instances of ManualGrant for TLC. *)
EXTENDS ManualGrant, TLC

\* Pages run the same code, and payloads are only compared.
Symmetry == Permutations(Tabs) \cup Permutations(Payloads)
=============================================================================
