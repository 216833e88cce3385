---------------------------- MODULE AtomicEscrow ----------------------------
(***************************************************************************)
(* What WalletService promises about points and escrow items, whatever     *)
(* calls interleave, conflict, throw or die: every change of a balance is  *)
(* one transfer applied to the CURRENT balances, a hold takes only points  *)
(* that are there and creates its escrow item in the same step, balances   *)
(* are otherwise moved only for an item some call is processing, and a     *)
(* finished item is never processed again.                                 *)
(*                                                                         *)
(* It does not promise that the transfers of one settlement happen         *)
(* together: an item may be given back (Abort) between them.               *)
(***************************************************************************)
EXTENDS Integers

CONSTANTS Users, Models, EscrowIds, Amounts

Points == Amounts \cup {0}

VARIABLES available, escrow, earned, phase

vars == <<available, escrow, earned, phase>>

Init ==
    /\ available \in [Users -> Nat]
    /\ escrow = [u \in Users |-> 0]
    /\ earned = [m \in Models |-> 0]
    /\ phase = [e \in EscrowIds |-> "none"]

Hold(e, u, a) ==
    /\ phase[e] = "none" /\ available[u] >= a
    /\ available' = [available EXCEPT ![u] = @ - a]
    /\ escrow' = [escrow EXCEPT ![u] = @ + a]
    /\ phase' = [phase EXCEPT ![e] = "held"]
    /\ UNCHANGED earned

Move(e, from, to) ==
    /\ phase[e] = from
    /\ phase' = [phase EXCEPT ![e] = to]
    /\ UNCHANGED <<available, escrow, earned>>

Begin(e)  == Move(e, "held", "busy")
Abort(e)  == Move(e, "busy", "held")
Finish(e) == Move(e, "busy", "done")

\* a points go back to the user, b points leave the escrow balance.
Release(e, u, a, b) ==
    /\ phase[e] = "busy"
    /\ available' = [available EXCEPT ![u] = @ + a]
    /\ escrow' = [escrow EXCEPT ![u] = @ - b]
    /\ UNCHANGED <<earned, phase>>

Pay(e, m, a) ==
    /\ phase[e] = "busy"
    /\ earned' = [earned EXCEPT ![m] = @ + a]
    /\ UNCHANGED <<available, escrow, phase>>

\* Another service awards, deducts or corrects; a correction asks for no balance.
Adjust(u, d) ==
    /\ available' = [available EXCEPT ![u] = @ + d]
    /\ UNCHANGED <<escrow, earned, phase>>

Next ==
    \/ \E e \in EscrowIds :
          \/ Begin(e) \/ Abort(e) \/ Finish(e)
          \/ \E u \in Users, a \in Amounts : Hold(e, u, a)
          \/ \E u \in Users, a, b \in Points : Release(e, u, a, b)
          \/ \E m \in Models, a \in Points : Pay(e, m, a)
    \/ \E u \in Users, a \in Amounts : Adjust(u, a) \/ Adjust(u, -a)

Spec == Init /\ [][Next]_vars
=============================================================================
