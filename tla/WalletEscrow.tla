---------------------------- MODULE WalletEscrow ----------------------------
(***************************************************************************)
(* The escrow operations of WalletService (src/src/wallets/wallet.service  *)
(* .ts): holdInEscrow, settleEscrow, refundEscrow and partialSettleEscrow. *)
(*                                                                         *)
(* The service keeps nothing in memory.  Every awaited call to MongoDB is  *)
(* one action here, because any other call may run between two awaits:     *)
(* atomicity is that of ONE document, and a wallet is protected only by    *)
(* the version its writer compares (findOneAndUpdate {userId, version}).   *)
(* A call that throws or crashes leaves behind whatever it wrote so far.   *)
(***************************************************************************)
EXTENDS Integers, FiniteSets

CONSTANTS
    Users, Models,      \* account ids
    EscrowIds,          \* the uuids escrow items may get
    QueueItems,         \* ids of the external queue's items
    Keys,               \* idempotency keys chosen by the callers
    Calls,              \* the service calls of a behaviour, each made once
    Amounts,            \* amounts a caller may ask for
    InitialBalance,     \* available points of a wallet that already exists
    MaxAttempts,        \* config.maxRetryAttempts, 3 by default
    Tolerance,          \* the 0.01 of partialSettleEscrow, in units of Amounts
    TrustedCallers,     \* TRUE: requests name the user and the amount held
    SharedKeys,         \* TRUE: one key may serve a settlement and a refund
    MaxCrashes,         \* bound: calls whose process dies midway
    MaxOthers,          \* bound: wallet writes by the other services
    Null                \* an absent id

ASSUME AmountsAssumption == Amounts \subseteq Nat \ {0}
ASSUME BalanceAssumption == InitialBalance \in Nat
ASSUME BoundsAssumption ==
    /\ MaxAttempts \in Nat \ {0}
    /\ Tolerance \in Nat
    /\ MaxCrashes \in Nat
    /\ MaxOthers \in Nat
ASSUME FlagsAssumption == {TrustedCallers, SharedKeys} \subseteq BOOLEAN
ASSUME NullAssumption ==
    Null \notin Users \cup Models \cup EscrowIds \cup QueueItems \cup Keys

VARIABLES
    wallets,    \* wallets[u]: the WalletModel document of a user
    models,     \* models[m]: the ModelWalletModel document of a model
    items,      \* items[e]: the EscrowItemModel document with that escrowId
    claims,     \* IdempotencyRecordModel: the <<key, scope>> pairs inserted
    ledger,     \* LedgerEntryModel: the entries inserted
    announced,  \* escrowIds a hold has returned or published
    pc,         \* pc[c]: the await call c is about to perform
    req,        \* req[c]: its request; a hold adds the escrowId it generates
    sawWallet,  \* sawWallet[c]: the user wallet as call c last read it
    sawModel,   \* sawModel[c]: the model wallet as call c last read it
    attempts,   \* attempts[c]: the retry counter of holdInEscrow
    crashed,    \* calls whose process died
    applied,    \* history: which wallet updates call c has got through
    others      \* history: how many writes the other services made, and all the
                \* points a wallet got from outside, its initial balance included

store == <<wallets, models, items, claims, ledger>>
locals == <<req, sawWallet, sawModel, attempts>>
vars == <<store, announced, pc, locals, crashed, applied, others>>

-----------------------------------------------------------------------------
(* Documents, requests and the program points of a call.                    *)

Resolving == {"settle", "refund", "partial"}
Kinds == {"hold"} \cup Resolving

Wallet == [present: BOOLEAN, available: Int, escrow: Int, version: Nat]
ModelWallet == [present: BOOLEAN, earned: Int, version: Nat]

NoWallet == [present |-> FALSE, available |-> 0, escrow |-> 0, version |-> 0]
OldWallet == [present |-> TRUE, available |-> InitialBalance, escrow |-> 0,
              version |-> 0]
NoModelWallet == [present |-> FALSE, earned |-> 0, version |-> 0]

LockStatus(kind) == CASE kind = "settle"  -> "settling"
                      [] kind = "refund"  -> "refunding"
                      [] kind = "partial" -> "partial_settling"
                      [] OTHER            -> "held"
FinalStatus(kind) == IF kind = "refund" THEN "refunded" ELSE "settled"

Processing == {"settling", "refunding", "partial_settling"}
Processed == {"settled", "refunded"}
Statuses == {"none", "held"} \cup Processing \cup Processed

Points == Amounts \cup {0}

Item == [status: Statuses, user: Users \cup {Null}, amount: Points,
         queueItem: QueueItems \cup {Null}]
NoItem == [status |-> "none", user |-> Null, amount |-> 0, queueItem |-> Null]

Request == [kind: Kinds \cup {"none"}, key: Keys \cup {Null},
            user: Users \cup {Null}, model: Models \cup {Null},
            escrow: EscrowIds \cup {Null}, queueItem: QueueItems \cup {Null},
            amount: Points, refund: Points]
NoRequest == [kind |-> "none", key |-> Null, user |-> Null, model |-> Null,
              escrow |-> Null, queueItem |-> Null, amount |-> 0, refund |-> 0]

Finished == {"returned", "thrown"}
HoldSteps == {"readWallet", "createWallet", "createItem", "casWallet",
              "deleteItem", "debit", "credit", "publish"}
LockedSteps == {"readUser", "readModel", "createModel", "casUser", "casModel",
                "unlock", "finalize"}
Steps == {"idle", "claim", "lock", "record", "recordSettle"}
            \cup HoldSteps \cup LockedSteps \cup Finished

Suffixes == {"", "_debit", "_credit", "_refund", "_settle"}
Entry == [key: Keys \X Suffixes, account: Users \cup Models,
          state: {"available", "escrow", "earned"}, amount: Int]

Init ==
    /\ wallets \in [Users -> {NoWallet, OldWallet}]
    /\ models = [m \in Models |-> NoModelWallet]
    /\ items = [e \in EscrowIds |-> NoItem]
    /\ claims = {}
    /\ ledger = {}
    /\ announced = {}
    /\ pc = [c \in Calls |-> "idle"]
    /\ req = [c \in Calls |-> NoRequest]
    /\ sawWallet = [c \in Calls |-> NoWallet]
    /\ sawModel = [c \in Calls |-> NoModelWallet]
    /\ attempts = [c \in Calls |-> 0]
    /\ crashed = {}
    /\ applied = [c \in Calls |-> {}]
    /\ others = [u \in Users |-> [count |-> 0, net |-> wallets[u].available]]

-----------------------------------------------------------------------------
(* What callers send.  escrowId is a uuid: a caller knows the ids that a    *)
(* hold has returned, or one that belongs to no item (Null).                *)

HoldRequests ==
    [kind: {"hold"}, key: Keys, user: Users, model: {Null}, escrow: {Null},
     queueItem: QueueItems, amount: Amounts, refund: {0}]
SettleRequests ==
    [kind: {"settle"}, key: Keys, user: {Null}, model: Models,
     escrow: announced \cup {Null}, queueItem: {Null}, amount: Amounts,
     refund: {0}]
RefundRequests ==
    [kind: {"refund"}, key: Keys, user: Users, model: {Null},
     escrow: announced \cup {Null}, queueItem: {Null}, amount: Amounts,
     refund: {0}]
PartialRequests ==
    [kind: {"partial"}, key: Keys, user: Users, model: Models,
     escrow: announced \cup {Null}, queueItem: {Null}, amount: Points,
     refund: Points]
Requests == HoldRequests \cup SettleRequests \cup RefundRequests
                \cup PartialRequests

Trusted(r) ==
    r.kind \in Resolving =>
        /\ r.escrow \in announced
        /\ r.user \in {Null, items[r.escrow].user}
        /\ r.amount + r.refund = items[r.escrow].amount

\* settle and refund record under the bare key, the other operations under a
\* suffixed one.
BareKeyUnshared(r) ==
    \A c \in Calls :
        req[c].key = r.key => {req[c].kind, r.kind} # {"settle", "refund"}

Admissible(r) == /\ TrustedCallers => Trusted(r)
                 /\ SharedKeys \/ BareKeyUnshared(r)

-----------------------------------------------------------------------------
(* Helpers: control flow, conditional writes, and createEntry.              *)

At(c, step) == pc[c] = step /\ c \notin crashed
Goto(c, step) == pc' = [pc EXCEPT ![c] = step]

\* The user whose wallet a call writes: settle takes it from the escrow item.
Payer(c) == IF req[c].kind = "settle" THEN items[req[c].escrow].user
                                      ELSE req[c].user

\* The filters of the two findOneAndUpdate calls on wallets; AnyVersion is the
\* bug of leaving the version out of either.
AnyVersion(c) == TRUE
SameVersion(c) == sawWallet[c].version = wallets[Payer(c)].version
SameModelVersion(c) == sawModel[c].version = models[req[c].model].version

\* The balance check of executeHoldInEscrow.
Affords(w, amount) == w.available >= amount

\* The catch block of holdInEscrow (bug: one retry too many).
RetriesLeftInclusive(c) == attempts[c] <= MaxAttempts - 1
RetriesLeft(c) == attempts[c] < MaxAttempts - 1

\* The insert of claimIdempotency fails on the unique index (bug: look for the
\* operation's ledger entry instead of claiming the key beforehand).
RecordedBefore(c) == \E x \in ledger : x.key[1] = req[c].key
ClaimedBefore(c) == <<req[c].key, req[c].kind>> \in claims

\* The filter {escrowId, status: 'held'} (bug: accept what is not yet final).
LockableUntilFinal(e) == e # Null /\ items[e].status \notin Processed
Lockable(e) == e # Null /\ items[e].status = "held"

\* The $inc of an update of a user wallet.
Inc(w, available, escrow) ==
    [w EXCEPT !.available = @ + available, !.escrow = @ + escrow, !.version = @ + 1]

SetStatus(e, s) == items' = [items EXCEPT ![e].status = s]
Apply(c, what) == applied' = [applied EXCEPT ![c] = @ \cup {what}]

\* createEntry: idempotencyKey is unique; a second insert with the same key
\* returns the stored entry and writes nothing.
CreateEntry(c, suffix, account, state, amount) ==
    LET key == <<req[c].key, suffix>>
    IN  ledger' = IF \E x \in ledger : x.key = key THEN ledger
                  ELSE ledger \cup {[key |-> key, account |-> account,
                                     state |-> state, amount |-> amount]}

-----------------------------------------------------------------------------
(* Entering the service: every operation first claims its key in its scope. *)

Call(c) ==
    /\ At(c, "idle")
    /\ \E r \in Requests :
          /\ Admissible(r)
          /\ req' = [req EXCEPT ![c] = r]
    /\ Goto(c, "claim")
    /\ UNCHANGED <<store, announced, sawWallet, sawModel, attempts, crashed,
                   applied, others>>

\* claimIdempotency: the unique index decides; a duplicate throws.
Claim(c) ==
    /\ At(c, "claim")
    /\ claims' = claims \cup {<<req[c].key, req[c].kind>>}
    /\ Goto(c, IF ClaimedBefore(c) THEN "thrown"
               ELSE IF req[c].kind = "hold" THEN "readWallet" ELSE "lock")
    /\ UNCHANGED <<wallets, models, items, ledger, announced, locals, crashed,
                   applied, others>>

-----------------------------------------------------------------------------
(* holdInEscrow / executeHoldInEscrow.                                      *)

HoldRead(c) ==
    /\ At(c, "readWallet")
    /\ LET w == wallets[req[c].user]
       IN  \/ /\ ~w.present
              /\ Goto(c, "createWallet")
              /\ UNCHANGED sawWallet
           \/ /\ w.present /\ ~Affords(w, req[c].amount)
              /\ Goto(c, "thrown")
              /\ UNCHANGED sawWallet
           \/ /\ w.present /\ Affords(w, req[c].amount)
              /\ Goto(c, "createItem")
              /\ sawWallet' = [sawWallet EXCEPT ![c] = w]
    /\ UNCHANGED <<store, announced, req, sawModel, attempts, crashed,
                   applied, others>>

\* A new wallet holds 0, below any amount asked for: InsufficientBalanceError.
\* Losing the race to create it is a duplicate-key error, thrown as well.
HoldCreateWallet(c) ==
    /\ At(c, "createWallet")
    /\ wallets' = [wallets EXCEPT ![req[c].user].present = TRUE]
    /\ Goto(c, "thrown")
    /\ UNCHANGED <<models, items, claims, ledger, announced, locals, crashed,
                   applied, others>>

\* queueItemId is unique among the items.
HoldCreateItem(c) ==
    /\ At(c, "createItem")
    /\ \/ /\ \E e \in EscrowIds : items[e].queueItem = req[c].queueItem
          /\ Goto(c, "thrown")
          /\ UNCHANGED <<items, req>>
       \/ /\ \A e \in EscrowIds : items[e].queueItem # req[c].queueItem
          /\ \E e \in EscrowIds :
                /\ items[e].status = "none"
                /\ items' = [items EXCEPT ![e] =
                       [status |-> "held", user |-> req[c].user,
                        amount |-> req[c].amount,
                        queueItem |-> req[c].queueItem]]
                /\ req' = [req EXCEPT ![c].escrow = e]
          /\ Goto(c, "casWallet")
    /\ UNCHANGED <<wallets, models, claims, ledger, announced, sawWallet,
                   sawModel, attempts, crashed, applied, others>>

\* $set of values computed from the document read earlier, if its version holds.
HoldCasWallet(c) ==
    /\ At(c, "casWallet")
    /\ \/ /\ SameVersion(c)
          /\ wallets' = [wallets EXCEPT ![req[c].user] =
                 [present   |-> TRUE,
                  available |-> sawWallet[c].available - req[c].amount,
                  escrow    |-> sawWallet[c].escrow + req[c].amount,
                  version   |-> sawWallet[c].version + 1]]
          /\ Apply(c, "user")
          /\ Goto(c, "debit")
       \/ /\ ~SameVersion(c)
          /\ Goto(c, "deleteItem")
          /\ UNCHANGED <<wallets, applied>>
    /\ UNCHANGED <<models, items, claims, ledger, announced, locals, crashed,
                   others>>

\* The escrow id of a deleted item was never given out, so it may be drawn again.
HoldDeleteItem(c) ==
    /\ At(c, "deleteItem")
    /\ items' = [items EXCEPT ![req[c].escrow] = NoItem]
    /\ req' = [req EXCEPT ![c].escrow = Null]
    /\ \/ /\ RetriesLeft(c)
          /\ attempts' = [attempts EXCEPT ![c] = @ + 1]
          /\ Goto(c, "readWallet")
       \/ /\ ~RetriesLeft(c)
          /\ Goto(c, "thrown")
          /\ UNCHANGED attempts
    /\ UNCHANGED <<wallets, models, claims, ledger, announced, sawWallet,
                   sawModel, crashed, applied, others>>

HoldDebit(c) ==
    /\ At(c, "debit")
    /\ CreateEntry(c, "_debit", req[c].user, "available", -req[c].amount)
    /\ Goto(c, "credit")
    /\ UNCHANGED <<wallets, models, items, claims, announced, locals, crashed,
                   applied, others>>

HoldCredit(c) ==
    /\ At(c, "credit")
    /\ CreateEntry(c, "_credit", req[c].user, "escrow", req[c].amount)
    /\ Goto(c, "publish")
    /\ UNCHANGED <<wallets, models, items, claims, announced, locals, crashed,
                   applied, others>>

HoldPublish(c) ==
    /\ At(c, "publish")
    /\ announced' = announced \cup {req[c].escrow}
    /\ Goto(c, "returned")
    /\ UNCHANGED <<store, locals, crashed, applied, others>>

-----------------------------------------------------------------------------
(* settleEscrow, refundEscrow, partialSettleEscrow.  The three lock the     *)
(* item by moving it from "held" to a status of their own, and then write   *)
(* the wallets in this order:                                               *)
(*   settle   readModel, casModel, readUser, casUser                        *)
(*   refund   readUser, casUser                                             *)
(*   partial  readUser, readModel, casUser, casModel                        *)

Lock(c) ==
    /\ At(c, "lock")
    /\ LET e == req[c].escrow
           Mismatch == LET d == req[c].refund + req[c].amount - items[e].amount
                       IN  d > Tolerance \/ -d > Tolerance
       IN  \/ /\ Lockable(e)
              /\ SetStatus(e, LockStatus(req[c].kind))
              /\ Goto(c, IF req[c].kind = "settle" THEN "readModel"
                         ELSE IF req[c].kind = "partial" /\ Mismatch
                              THEN "thrown" ELSE "readUser")
           \/ /\ ~Lockable(e)
              /\ Goto(c, "thrown")
              /\ UNCHANGED items
    /\ UNCHANGED <<wallets, models, claims, ledger, announced, locals, crashed,
                   applied, others>>

\* A user wallet that is missing is an error, and the item stays locked.
ReadUser(c) ==
    /\ At(c, "readUser")
    /\ \/ /\ wallets[Payer(c)].present
          /\ sawWallet' = [sawWallet EXCEPT ![c] = wallets[Payer(c)]]
          /\ Goto(c, IF req[c].kind = "partial" THEN "readModel" ELSE "casUser")
       \/ /\ ~wallets[Payer(c)].present
          /\ Goto(c, "thrown")
          /\ UNCHANGED sawWallet
    /\ UNCHANGED <<store, announced, req, sawModel, attempts, crashed,
                   applied, others>>

\* Where ReadModel leads (bug: partial reads the two wallets over and over).
AfterReadModelLooping(c) ==
    IF req[c].kind = "partial" THEN "readUser" ELSE "casModel"
AfterReadModel(c) == IF req[c].kind = "partial" THEN "casUser" ELSE "casModel"

ReadModel(c) ==
    /\ At(c, "readModel")
    /\ \/ /\ models[req[c].model].present
          /\ sawModel' = [sawModel EXCEPT ![c] = models[req[c].model]]
          /\ Goto(c, AfterReadModel(c))
       \/ /\ ~models[req[c].model].present
          /\ Goto(c, "createModel")
          /\ UNCHANGED sawModel
    /\ UNCHANGED <<store, announced, req, sawWallet, attempts, crashed,
                   applied, others>>

\* Losing the race to create the wallet throws, and the item stays locked.
CreateModel(c) ==
    /\ At(c, "createModel")
    /\ \/ /\ ~models[req[c].model].present
          /\ models' = [models EXCEPT ![req[c].model].present = TRUE]
          /\ sawModel' = [sawModel EXCEPT ![c] = models'[req[c].model]]
          /\ Goto(c, AfterReadModel(c))
       \/ /\ models[req[c].model].present
          /\ Goto(c, "thrown")
          /\ UNCHANGED <<models, sawModel>>
    /\ UNCHANGED <<wallets, items, claims, ledger, announced, req, sawWallet,
                   attempts, crashed, applied, others>>

\* On a conflict settle throws with the item still "settling"; partial puts the
\* item back to "held" but leaves the user wallet as it has just written it.
CasModel(c) ==
    /\ At(c, "casModel")
    /\ \/ /\ SameModelVersion(c)
          /\ models' = [models EXCEPT ![req[c].model] =
                 [present |-> TRUE,
                  earned  |-> sawModel[c].earned + req[c].amount,
                  version |-> models[req[c].model].version + 1]]
          /\ Apply(c, "model")
          /\ Goto(c, IF req[c].kind = "partial" THEN "finalize" ELSE "readUser")
       \/ /\ ~SameModelVersion(c)
          /\ Goto(c, IF req[c].kind = "partial" THEN "unlock" ELSE "thrown")
          /\ UNCHANGED <<models, applied>>
    /\ UNCHANGED <<wallets, items, claims, ledger, announced, locals, crashed,
                   others>>

\* What the operation adds to available and takes from escrow (bug: a partial
\* settlement takes out of escrow only the part it refunds).
UnescrowedRefundOnly(c) == req[c].amount * (IF req[c].kind = "partial" THEN 0 ELSE 1)
                           + req[c].refund
Released(c) == CASE req[c].kind = "refund"  -> req[c].amount
                 [] req[c].kind = "partial" -> req[c].refund
                 [] OTHER                   -> 0
Unescrowed(c) == IF req[c].kind = "partial" THEN items[req[c].escrow].amount
                                            ELSE req[c].amount

CasUser(c) ==
    /\ At(c, "casUser")
    /\ \/ /\ SameVersion(c)
          /\ wallets' = [wallets EXCEPT ![Payer(c)] =
                             Inc(wallets[Payer(c)], Released(c), -Unescrowed(c))]
          /\ Apply(c, "user")
          /\ Goto(c, IF req[c].kind = "partial" THEN "casModel" ELSE "finalize")
       \/ /\ ~SameVersion(c)
          /\ Goto(c, "unlock")
          /\ UNCHANGED <<wallets, applied>>
    /\ UNCHANGED <<models, items, claims, ledger, announced, locals, crashed,
                   others>>

\* The status a conflict on the user wallet restores (bug: leave it as it is).
RollbackOmitted(c) == LockStatus(req[c].kind)
Rollback(c) == "held"

Unlock(c) ==
    /\ At(c, "unlock")
    /\ SetStatus(req[c].escrow, Rollback(c))
    /\ Goto(c, "thrown")
    /\ UNCHANGED <<wallets, models, claims, ledger, announced, locals, crashed,
                   applied, others>>

\* A partial settlement records each of its two parts only if it is positive.
AfterRefundEntry(c) == IF req[c].kind = "partial" /\ req[c].amount > 0
                       THEN "recordSettle" ELSE "returned"

Finalize(c) ==
    /\ At(c, "finalize")
    /\ SetStatus(req[c].escrow, FinalStatus(req[c].kind))
    /\ Goto(c, IF req[c].kind = "partial" /\ req[c].refund = 0
               THEN AfterRefundEntry(c) ELSE "record")
    /\ UNCHANGED <<wallets, models, claims, ledger, announced, locals, crashed,
                   applied, others>>

Record(c) ==
    /\ At(c, "record")
    /\ CASE req[c].kind = "settle" ->
              CreateEntry(c, "", req[c].model, "earned", req[c].amount)
         [] req[c].kind = "refund" ->
              CreateEntry(c, "", req[c].user, "available", req[c].amount)
         [] OTHER ->
              CreateEntry(c, "_refund", req[c].user, "available", req[c].refund)
    /\ Goto(c, AfterRefundEntry(c))
    /\ UNCHANGED <<wallets, models, items, claims, announced, locals, crashed,
                   applied, others>>

RecordSettle(c) ==
    /\ At(c, "recordSettle")
    /\ CreateEntry(c, "_settle", req[c].model, "earned", req[c].amount)
    /\ Goto(c, "returned")
    /\ UNCHANGED <<wallets, models, items, claims, announced, locals, crashed,
                   applied, others>>

-----------------------------------------------------------------------------
(* The environment: processes die, and other services write wallets.        *)

Crash(c) ==
    /\ pc[c] \notin Finished \cup {"idle"} /\ c \notin crashed
    /\ Cardinality(crashed) < MaxCrashes
    /\ crashed' = crashed \cup {c}
    /\ UNCHANGED <<store, announced, pc, locals, applied, others>>

\* The findOneAndUpdate of another service that finds the version it has read:
\* awardPoints, deductFromAvailable, processUserExpiration, manualAdjustment.
\* Those that deduct ask for the balance first, but correctBalance does not
\* (allowNegative), so the balance may become any number.
OtherWrite(u) ==
    /\ wallets[u].present /\ others[u].count < MaxOthers
    /\ \E a \in Amounts : \E d \in {a, -a} :
          /\ wallets' = [wallets EXCEPT ![u] = Inc(wallets[u], d, 0)]
          /\ others' = [others EXCEPT ![u] =
                 [count |-> others[u].count + 1, net |-> others[u].net + d]]
    /\ UNCHANGED <<models, items, claims, ledger, announced, pc, locals,
                   crashed, applied>>

HoldStep(c) == \/ HoldRead(c) \/ HoldCreateWallet(c) \/ HoldCreateItem(c)
               \/ HoldCasWallet(c) \/ HoldDeleteItem(c) \/ HoldDebit(c)
               \/ HoldCredit(c) \/ HoldPublish(c)
ResolveStep(c) == \/ Lock(c) \/ ReadUser(c) \/ ReadModel(c) \/ CreateModel(c)
                  \/ CasModel(c) \/ CasUser(c) \/ Unlock(c) \/ Finalize(c)
                  \/ Record(c) \/ RecordSettle(c)
Step(c) == Claim(c) \/ HoldStep(c) \/ ResolveStep(c)

Next == \/ \E c \in Calls : Call(c) \/ Step(c) \/ Crash(c)
        \/ \E u \in Users : OtherWrite(u)

Spec == Init /\ [][Next]_vars

\* Node's event loop resumes every await: a call that has been accepted and
\* whose process lives performs its next step.
FairSpec == Spec /\ \A c \in Calls : WF_vars(Step(c))

-----------------------------------------------------------------------------
(* Properties.                                                              *)

\* Every variable has its type; no call of the service leaves this state space.
TypeOK ==
    /\ wallets \in [Users -> Wallet]
    /\ models \in [Models -> ModelWallet]
    /\ items \in [EscrowIds -> Item]
    /\ claims \subseteq Keys \X Kinds
    /\ ledger \subseteq Entry
    /\ announced \subseteq EscrowIds
    /\ pc \in [Calls -> Steps]
    /\ req \in [Calls -> Request]
    /\ sawWallet \in [Calls -> Wallet]
    /\ sawModel \in [Calls -> ModelWallet]
    /\ attempts \in [Calls -> 0 .. MaxAttempts - 1]
    /\ crashed \subseteq Calls
    /\ applied \in [Calls -> SUBSET {"user", "model"}]
    /\ others \in [Users -> [count: 0 .. MaxOthers, net: Int]]

\* A hold takes points that are there when it takes them, and exactly those: its
\* balance check and the balance it sets come from a document read two awaits
\* earlier, and an award, another hold or a correction below zero may come in
\* between (executeHoldInEscrow).
Took(c) == req[c].kind = "hold" /\ applied[c] = {} /\ applied'[c] # {}
HoldSpendsCurrentPoints ==
    [][\A c \in Calls : Took(c) =>
          LET u == req[c].user IN
          /\ wallets[u].available >= req[c].amount
          /\ wallets'[u].available = wallets[u].available - req[c].amount]_vars

\* The call that created item e has not written the wallet: for a caller there
\* is no such item yet, and if the write conflicts there never will be.
Unfunded(e) == \E c \in Calls : /\ req[c].kind = "hold" /\ req[c].escrow = e
                                /\ applied[c] = {}

\* A call is between locking an item and giving it up or finalising it.
HoldsLock(c) == req[c].kind \in Resolving /\ pc[c] \in LockedSteps

\* Two settlements, refunds or partial settlements never process one item at
\* the same time, and the item shows which operation is processing it.
EscrowLockExclusive ==
    \A c \in Calls : HoldsLock(c) =>
        /\ items[req[c].escrow].status = LockStatus(req[c].kind)
        /\ \A d \in Calls \ {c} :
              HoldsLock(d) => req[d].escrow # req[c].escrow

\* One idempotency key moves points at most once in one scope, whatever calls
\* use it, in whatever order, and whether or not the first one crashed.
OneEffectPerKey ==
    \A c, d \in Calls :
        /\ c # d
        /\ <<req[c].key, req[c].kind>> = <<req[d].key, req[d].kind>>
        => applied[c] = {} \/ applied[d] = {}

\* A settled or refunded item never changes again: neither the late rollback
\* of another call nor a second processing revives it, although the updates
\* that finalise and roll back compare no status.
ProcessedIsFinal ==
    [][\A e \in EscrowIds :
          items[e].status \in Processed => items'[e] = items[e]]_vars

\* Every call that is accepted comes to an end, unless its process dies.
EveryCallReturns ==
    \A c \in Calls :
        pc[c] = "claim" ~> pc[c] \in Finished \/ c \in crashed

\* An item being refunded leaves that state: the refund succeeds, or its
\* conflict rolls the item back to "held".
RefundReleasesItem ==
    \A e \in EscrowIds :
        items[e].status = "refunding" ~> items[e].status # "refunding"
=============================================================================
