--------------------------- MODULE MCPointAccrual ---------------------------
(***************************************************************************)
(* Model values of the TLC runs about PointAccrual.                        *)
(***************************************************************************)
EXTENDS PointAccrual, TLC

\* No definition of the specification names a member of these sets.
Symmetry == Permutations(Calls) \cup Permutations(Users) \cup Permutations(Keys)
=============================================================================
