-------------------------- MODULE WalletRefinement --------------------------
(***************************************************************************)
(* The mapping under which WalletEscrow implements AtomicEscrow, and the   *)
(* inductive invariant that shows it.                                      *)
(***************************************************************************)
EXTENDS WalletEscrow

PhaseOf(e) == IF items[e].status = "none" \/ Unfunded(e) THEN "none"
              ELSE IF items[e].status \in Processing THEN "busy"
              ELSE IF items[e].status \in Processed THEN "done"
              ELSE "held"

Atomic == INSTANCE AtomicEscrow WITH
    available <- [u \in Users |-> wallets[u].available],
    escrow    <- [u \in Users |-> wallets[u].escrow],
    earned    <- [m \in Models |-> models[m].earned],
    phase     <- [e \in EscrowIds |-> PhaseOf(e)]

\* Optimistic locking works: seen from outside, every step of every call is one
\* atomic transfer on the current balances or one move of an item (or nothing),
\* although holdInEscrow writes absolute values computed from an old document.
ImplementsAtomicEscrow == Atomic!Spec

-----------------------------------------------------------------------------
(* The inductive invariant.                                                 *)

\* A request has the fields its kind needs, and a call is at a step of its kind.
RequestOK(c) ==
    LET r == req[c] IN
    /\ pc[c] = "idle" <=> r.kind = "none"
    /\ pc[c] \in HoldSteps => r.kind = "hold"
    /\ pc[c] \in {"lock", "record", "recordSettle"} \cup LockedSteps
          => r.kind \in Resolving
    /\ pc[c] \in {"readModel", "createModel", "casModel", "recordSettle"}
          => r.kind \in {"settle", "partial"}
    /\ pc[c] = "recordSettle" => r.kind = "partial"
    /\ r.kind # "none" => r.key \in Keys
    /\ r.kind \in {"hold", "refund", "partial"} => r.user \in Users
    /\ r.kind \in {"settle", "partial"} => r.model \in Models
    /\ r.kind = "hold" => r.amount \in Amounts /\ r.queueItem \in QueueItems
    /\ pc[c] \in {"casWallet", "deleteItem", "debit", "credit", "publish"}
                  \cup LockedSteps => r.escrow \in EscrowIds
    /\ r.kind \in Resolving => r.escrow \in announced \cup {Null}

RequestsOK == \A c \in Calls : RequestOK(c)

\* An item exists exactly with its owner.
ItemsOK == \A e \in EscrowIds : items[e].status # "none" => items[e].user \in Users

\* A version never names two different documents: a call that finds the version
\* it has read finds the document it has read.
HoldSaw(c) ==
    LET w == wallets[req[c].user] IN
    /\ sawWallet[c].present /\ w.present
    /\ sawWallet[c].available >= req[c].amount
    /\ sawWallet[c].version <= w.version
    /\ sawWallet[c].version = w.version => sawWallet[c] = w
ModelSaw(c) ==
    LET m == models[req[c].model] IN
    /\ sawModel[c].present /\ m.present
    /\ sawModel[c].version <= m.version
    /\ sawModel[c].version = m.version => sawModel[c] = m

SnapshotsOK ==
    \A c \in Calls :
        /\ pc[c] \in {"createItem", "casWallet"} => HoldSaw(c)
        /\ \/ pc[c] = "casModel"
           \/ pc[c] = "casUser" /\ req[c].kind = "partial"
           => ModelSaw(c)

\* Each item belongs to the one hold that created it, and is out of reach of
\* the other operations until that hold has moved its points.
HoldsOK ==
    \A c \in Calls : req[c].kind = "hold" /\ req[c].escrow # Null =>
        /\ \A d \in Calls \ {c} :
              req[d].kind = "hold" => req[d].escrow # req[c].escrow
        /\ items[req[c].escrow].status # "none"
        /\ applied[c] = {} => /\ items[req[c].escrow].status = "held"
                              /\ req[c].escrow \notin announced
HoldPcOK ==
    \A c \in Calls :
        /\ pc[c] \in {"idle", "claim", "readWallet", "createWallet", "createItem"}
              => req[c].kind \in Resolving \cup {"none"} \/ req[c].escrow = Null
        /\ req[c].kind = "hold" =>
              (applied[c] = {}) <=> pc[c] \notin {"debit", "credit", "publish", "returned"}
        /\ pc[c] = "idle" => applied[c] = {}
AnnouncedOK == \A e \in announced : items[e].status # "none" /\ ~Unfunded(e)

\* A call past its claim, which may have moved points, owns its key in its scope.
PastClaim(c) == pc[c] \notin {"idle", "claim", "thrown"} \/ applied[c] # {}
Scoped(c) == <<req[c].key, req[c].kind>>
KeysOK ==
    \A c \in Calls : PastClaim(c) =>
        /\ Scoped(c) \in claims /\ pc[c] \notin {"idle", "claim"}
        /\ \A d \in Calls \ {c} : PastClaim(d) => Scoped(d) # Scoped(c)

Shape == TypeOK /\ RequestsOK /\ ItemsOK
Holds == HoldsOK /\ HoldPcOK /\ AnnouncedOK

IInv == Shape /\ SnapshotsOK /\ EscrowLockExclusive /\ Holds /\ KeysOK
=============================================================================
