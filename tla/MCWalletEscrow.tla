--------------------------- MODULE MCWalletEscrow ---------------------------
(***************************************************************************)
(* Model values of the TLC runs about WalletEscrow.                        *)
(***************************************************************************)
EXTENDS WalletAudit, TLC

\* No definition of the specification names a member of these sets.
Symmetry == Permutations(Calls) \cup Permutations(EscrowIds)
            \cup Permutations(Users) \cup Permutations(QueueItems)
            \cup Permutations(Keys)
=============================================================================
