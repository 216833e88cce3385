--------------------------- MODULE MCBalanceCache ---------------------------
(***************************************************************************)
(* Model values of the TLC runs about BalanceCache and EventBus.           *)
(***************************************************************************)
EXTENDS BalanceCache, TLC

CONSTANTS listener

AllTypes == {"held", "settled", "refunded", "partial"}
CacheAndListener == Cache :> AllTypes @@ listener :> {"partial"}

\* No definition of the specification names a member of these sets.
Symmetry == Permutations(Calls) \cup Permutations(Keys)
=============================================================================
