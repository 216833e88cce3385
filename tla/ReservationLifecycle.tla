-------------------------- MODULE ReservationLifecycle --------------------------
(***************************************************************************)
(* What reservations promise: each is opened once, gets one outcome, is    *)
(* expired and forgotten only when its time has come, and everybody who    *)
(* was told an outcome was told the same one.                              *)
(***************************************************************************)
EXTENDS Naturals

CONSTANTS
    Reservations,
    Times           \* the times a reservation may be made to expire at

Outcomes == {"COMMITTED", "RELEASED", "EXPIRED"}
States == {"none", "ACTIVE", "deleted"} \cup Outcomes

VARIABLES
    clock,
    state,      \* state[r]: what has become of reservation r
    due,        \* due[r]: when it expires, once it is opened
    answers     \* what callers were told: [of |-> r, as |-> outcome]

vars == <<clock, state, due, answers>>

Init ==
    /\ clock = 0
    /\ state = [r \in Reservations |-> "none"]
    /\ due = [r \in Reservations |-> 0]
    /\ answers = {}

Open(r) ==
    /\ state[r] = "none"
    /\ state' = [state EXCEPT ![r] = "ACTIVE"]
    /\ \E t \in Times : due' = [due EXCEPT ![r] = t]
    /\ UNCHANGED <<clock, answers>>

\* The caller who decides may never hear of it.
Decide(r, outcome) ==
    /\ state[r] = "ACTIVE"
    /\ state' = [state EXCEPT ![r] = outcome]
    /\ answers' \in {answers, answers \cup {[of |-> r, as |-> outcome]}}
    /\ UNCHANGED <<clock, due>>

Expire(r) ==
    /\ state[r] = "ACTIVE" /\ due[r] <= clock
    /\ state' = [state EXCEPT ![r] = "EXPIRED"]
    /\ UNCHANGED <<clock, due, answers>>

Forget(r) ==
    /\ state[r] # "none" /\ due[r] <= clock
    /\ state' = [state EXCEPT ![r] = "deleted"]
    /\ UNCHANGED <<clock, due, answers>>

Tick == clock' = clock + 1 /\ UNCHANGED <<state, due, answers>>

Next ==
    \/ \E r \in Reservations :
          \/ Open(r) \/ Expire(r) \/ Forget(r)
          \/ \E outcome \in {"COMMITTED", "RELEASED"} : Decide(r, outcome)
    \/ Tick

Spec == Init /\ [][Next]_vars

-----------------------------------------------------------------------------

\* What callers were told of one reservation agrees, and stays true until the
\* reservation is forgotten; an expired one was due (commitReservation,
\* releaseReservation, markExpiredReservations).
OneOutcome ==
    /\ \A x, y \in answers : x.of = y.of => x = y
    /\ \A x \in answers : state[x.of] \in {x.as, "deleted"}
    /\ \A r \in Reservations : state[r] = "EXPIRED" => due[r] <= clock
=============================================================================
