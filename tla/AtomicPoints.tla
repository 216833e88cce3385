---------------------------- MODULE AtomicPoints ----------------------------
(***************************************************************************)
(* What the services that award, deduct, expire and adjust points promise, *)
(* whatever calls interleave, conflict, throw or die: a call changes at    *)
(* most one balance, once, and on the CURRENT balance; only a correction   *)
(* takes points that are not there; and the ledger holds at most one entry *)
(* per key and per change, which tells the change as it was made.          *)
(*                                                                         *)
(* It does not promise that every change is recorded.                      *)
(***************************************************************************)
EXTENDS Integers

CONSTANTS Users, Calls, Kinds, Corrections, LedgerKeys

VARIABLES
    opened,     \* the users who have a wallet
    balance,    \* balance[u]: the points of u
    changes,    \* the changes made so far
    log         \* the changes recorded so far, each under its key

vars == <<opened, balance, changes, log>>

Change == [call: Calls, kind: Kinds, user: Users, before: Int, amount: Int,
           after: Int]

Init ==
    /\ opened \subseteq Users
    /\ balance \in [Users -> Nat] /\ \A u \in Users \ opened : balance[u] = 0
    /\ changes = {}
    /\ log = {}

Open(u) ==
    /\ u \notin opened
    /\ opened' = opened \cup {u}
    /\ UNCHANGED <<balance, changes, log>>

Apply(x) ==
    /\ x \in Change /\ x.user \in opened
    /\ \A y \in changes : y.call # x.call
    /\ x.amount # 0 /\ x.before = balance[x.user] /\ x.after = x.before + x.amount
    /\ x.after >= 0 \/ x.amount > 0 \/ x.kind \in Corrections
    /\ balance' = [balance EXCEPT ![x.user] = x.after]
    /\ changes' = changes \cup {x}
    /\ UNCHANGED <<opened, log>>

Record(e) ==
    /\ e.key \in LedgerKeys /\ e.change \in changes
    /\ \A f \in log : f.key # e.key /\ f.change # e.change
    /\ log' = log \cup {e}
    /\ UNCHANGED <<opened, balance, changes>>

Next ==
    \/ \E u \in Users : Open(u)
    \/ \E x \in changes' \ changes : Apply(x)
    \/ \E e \in log' \ log : Record(e)

Spec == Init /\ [][Next]_vars
=============================================================================
