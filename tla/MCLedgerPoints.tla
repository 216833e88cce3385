--------------------------- MODULE MCLedgerPoints ---------------------------
(***************************************************************************)
(* Model values of the TLC run about LedgerPoints and RewardRules.         *)
(***************************************************************************)
EXTENDS LedgerPoints, TLC

Symmetry == Permutations(Calls) \cup Permutations(Accounts) \cup Permutations(Keys)
=============================================================================
