----------------------------- MODULE MCReservations -----------------------------
(***************************************************************************)
(* Model values of the TLC run about Reservations.                         *)
(***************************************************************************)
EXTENDS Reservations
=============================================================================
