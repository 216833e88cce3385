------------------------- MODULE WalletEscrowProofs -------------------------
(***************************************************************************)
(* Proofs about WalletEscrow, for every set of users, models, escrow ids,  *)
(* queue items, keys, calls and amounts, every bound, and trusted or       *)
(* untrusted callers.                                                      *)
(***************************************************************************)
EXTENDS WalletRefinement, TLAPS

USE DEF At, Goto, SetStatus, Apply, store, locals

-----------------------------------------------------------------------------
(* What the invariant says of the request of a call at a given step.        *)

IsHold(c) ==
    LET r == req[c] IN
    /\ r \in Request /\ r.kind = "hold" /\ r.key \in Keys
    /\ r.user \in Users /\ r.queueItem \in QueueItems
    /\ r.amount \in Amounts /\ r.amount \in Nat

IsResolve(c) ==
    LET r == req[c] IN
    /\ r \in Request /\ r.kind \in Resolving /\ r.key \in Keys
    /\ r.kind \in {"refund", "partial"} => r.user \in Users
    /\ r.kind \in {"settle", "partial"} => r.model \in Models
    /\ r.amount \in Nat /\ r.refund \in Nat

\* Amounts are natural numbers.
LEMMA PointsAreNaturals == Points \subseteq Nat
BY AmountsAssumption DEF Points

\* The fields of any request have their types.
LEMMA RequestFields ==
    ASSUME Shape, NEW c \in Calls
    PROVE  /\ RequestOK(c) /\ req[c] \in Request
           /\ req[c].amount \in Nat /\ req[c].refund \in Nat
           /\ req[c].kind \in Kinds \cup {"none"}
<1>1. RequestOK(c) /\ req[c] \in Request
  BY DEF Shape, RequestsOK, TypeOK
<1>2. req[c].amount \in Points /\ req[c].refund \in Points
      /\ req[c].kind \in Kinds \cup {"none"}
  BY <1>1 DEF Request
<1> QED
  BY <1>1, <1>2, PointsAreNaturals

\* A call inside holdInEscrow has the request of a hold.
LEMMA HoldFields ==
    ASSUME Shape, NEW c \in Calls, pc[c] \in HoldSteps
    PROVE  IsHold(c)
<1>1. req[c].kind = "hold"
  BY RequestFields DEF RequestOK
<1> QED
  BY <1>1, RequestFields DEF RequestOK, IsHold

\* A call past the claim of one of the other operations has its request.
LEMMA ResolveFields ==
    ASSUME Shape, NEW c \in Calls,
           pc[c] \in {"lock", "record", "recordSettle"} \cup LockedSteps
    PROVE  IsResolve(c)
<1>1. req[c].kind \in Resolving
  BY RequestFields DEF RequestOK
<1> QED
  BY <1>1, RequestFields DEF RequestOK, IsResolve, Resolving

\* While a call processes an item, the item names the wallet to write.
LEMMA LockedItem ==
    ASSUME Shape, EscrowLockExclusive, NEW c \in Calls, pc[c] \in LockedSteps
    PROVE  /\ HoldsLock(c) /\ req[c].escrow \in EscrowIds
           /\ items[req[c].escrow].status = LockStatus(req[c].kind)
           /\ LockStatus(req[c].kind) \in Processing
           /\ Payer(c) \in Users
<1>1. IsResolve(c)
  BY ResolveFields
<1>2. HoldsLock(c) /\ req[c].escrow \in EscrowIds
  BY <1>1, RequestFields DEF IsResolve, HoldsLock, RequestOK
<1>3. items[req[c].escrow].status = LockStatus(req[c].kind)
  BY <1>2 DEF EscrowLockExclusive
<1>4. LockStatus(req[c].kind) \in Processing
  BY <1>1 DEF IsResolve, Resolving, LockStatus, Processing
<1>5. Payer(c) \in Users
  <2>1. items[req[c].escrow].user \in Users
    BY <1>2, <1>3, <1>4 DEF Shape, ItemsOK, Processing
  <2> QED
    BY <2>1, <1>1 DEF Payer, IsResolve, Resolving
<1> QED
  BY <1>2, <1>3, <1>4, <1>5

-----------------------------------------------------------------------------
(* Type correctness of the documents an operation writes.                   *)

\* $inc keeps the type of a wallet document.
LEMMA IncType ==
    ASSUME NEW w \in Wallet, NEW a \in Int, NEW b \in Int
    PROVE  Inc(w, a, b) \in Wallet
<1>1. w.available + a \in Int /\ w.escrow + b \in Int /\ w.version + 1 \in Nat
  BY DEF Wallet
<1> QED
  BY <1>1 DEF Wallet, Inc

\* Replacing one wallet document by another keeps the type of all.
LEMMA WalletsType ==
    ASSUME TypeOK, NEW u, NEW w \in Wallet, wallets' = [wallets EXCEPT ![u] = w]
    PROVE  wallets' \in [Users -> Wallet]
BY DEF TypeOK

\* The same of the model wallets.
LEMMA ModelsType ==
    ASSUME TypeOK, NEW m, NEW w \in ModelWallet, models' = [models EXCEPT ![m] = w]
    PROVE  models' \in [Models -> ModelWallet]
BY DEF TypeOK

\* A change of status keeps the type of the escrow items.
LEMMA StatusType ==
    ASSUME TypeOK, NEW e, NEW s \in Statuses, SetStatus(e, s)
    PROVE  items' \in [EscrowIds -> Item]
BY DEF TypeOK, Item

\* createEntry keeps the type of the ledger.
LEMMA CreateEntryType ==
    ASSUME TypeOK, NEW c \in Calls, req[c].key \in Keys,
           NEW suffix \in Suffixes, NEW account \in Users \cup Models,
           NEW state \in {"available", "escrow", "earned"}, NEW amount \in Int,
           CreateEntry(c, suffix, account, state, amount)
    PROVE  ledger' \subseteq Entry
<1> DEFINE e == [key |-> <<req[c].key, suffix>>, account |-> account,
                 state |-> state, amount |-> amount]
<1>1. e \in Entry
  BY DEF Entry
<1>2. ledger' \in {ledger, ledger \cup {e}}
  BY DEF CreateEntry
<1> QED
  BY <1>1, <1>2 DEF TypeOK

-----------------------------------------------------------------------------
(* Type correctness is preserved.                                           *)

\* A step that moves a call to a known program point keeps the type of pc.
LEMMA PcType ==
    ASSUME TypeOK, NEW c \in Calls, NEW s \in Steps, Goto(c, s)
    PROVE  pc' \in [Calls -> Steps]
BY DEF TypeOK

\* Every step of holdInEscrow keeps the types.
LEMMA HoldStepType ==
    ASSUME Shape, NEW c \in Calls, HoldStep(c)
    PROVE  TypeOK'
<1> USE DEF Shape
<1>1. CASE HoldRead(c)
  <2>1. IsHold(c) /\ c \in Calls
    BY <1>1, HoldFields DEF HoldRead, HoldSteps
  <2>2. pc' \in [Calls -> Steps]
    BY <1>1, PcType DEF HoldRead, Steps, HoldSteps, Finished
  <2>3. sawWallet' \in [Calls -> Wallet]
    BY <1>1, <2>1 DEF HoldRead, IsHold, TypeOK
  <2> QED
    BY <1>1, <2>2, <2>3 DEF HoldRead, TypeOK
<1>2. CASE HoldCreateWallet(c)
  <2>1. IsHold(c)
    BY <1>2, HoldFields DEF HoldCreateWallet, HoldSteps
  <2>2. pc' \in [Calls -> Steps]
    BY <1>2, PcType DEF HoldCreateWallet, Steps, Finished
  <2>3. [wallets[req[c].user] EXCEPT !.present = TRUE] \in Wallet
    <3>1. wallets[req[c].user] \in Wallet
      BY <2>1 DEF IsHold, TypeOK
    <3> QED
      BY <3>1 DEF Wallet
  <2>4. wallets' \in [Users -> Wallet]
    BY <1>2, <2>3, WalletsType DEF HoldCreateWallet
  <2> QED
    BY <1>2, <2>2, <2>4 DEF HoldCreateWallet, TypeOK
<1>3. CASE HoldCreateItem(c)
  <2>1. IsHold(c)
    BY <1>3, HoldFields DEF HoldCreateItem, HoldSteps
  <2>2. pc' \in [Calls -> Steps]
    BY <1>3, PcType DEF HoldCreateItem, Steps, HoldSteps, Finished
  <2>3. [status |-> "held", user |-> req[c].user, amount |-> req[c].amount,
         queueItem |-> req[c].queueItem] \in Item
    BY <2>1 DEF IsHold, Item, Statuses, Points
  <2>4. items' \in [EscrowIds -> Item]
    BY <1>3, <2>3 DEF HoldCreateItem, TypeOK
  <2>5. \A e \in EscrowIds : [req[c] EXCEPT !.escrow = e] \in Request
    BY <2>1 DEF IsHold, Request
  <2>6. req' \in [Calls -> Request]
    BY <1>3, <2>5 DEF HoldCreateItem, TypeOK
  <2> QED
    BY <1>3, <2>2, <2>4, <2>6 DEF HoldCreateItem, TypeOK
<1>4. CASE HoldCasWallet(c)
  <2>1. IsHold(c)
    BY <1>4, HoldFields DEF HoldCasWallet, HoldSteps
  <2>2. pc' \in [Calls -> Steps]
    BY <1>4, PcType DEF HoldCasWallet, Steps, HoldSteps
  <2> DEFINE w == sawWallet[c]
             v == [present |-> TRUE, available |-> w.available - req[c].amount,
                   escrow |-> w.escrow + req[c].amount, version |-> w.version + 1]
  <2>3. v \in Wallet
    <3>1. w \in Wallet
      BY DEF TypeOK
    <3>2. v.available \in Int /\ v.escrow \in Int /\ v.version \in Nat
      BY <2>1, <3>1 DEF IsHold, Wallet
    <3> QED
      BY <3>2 DEF Wallet
  <2>4. wallets' \in [Users -> Wallet]
    BY <1>4, <2>3 DEF HoldCasWallet, TypeOK
  <2>5. applied' \in [Calls -> SUBSET {"user", "model"}]
    BY <1>4 DEF HoldCasWallet, TypeOK
  <2> QED
    BY <1>4, <2>2, <2>4, <2>5 DEF HoldCasWallet, TypeOK
<1>5. CASE HoldDeleteItem(c)
  <2>1. IsHold(c)
    BY <1>5, HoldFields DEF HoldDeleteItem, HoldSteps
  <2>2. pc' \in [Calls -> Steps]
    BY <1>5, PcType DEF HoldDeleteItem, Steps, HoldSteps, Finished
  <2>3. NoItem \in Item
    BY DEF NoItem, Item, Statuses, Points
  <2>4. items' \in [EscrowIds -> Item]
    BY <1>5, <2>3 DEF HoldDeleteItem, TypeOK
  <2>5. [req[c] EXCEPT !.escrow = Null] \in Request
    BY <2>1 DEF IsHold, Request
  <2>6. req' \in [Calls -> Request]
    BY <1>5, <2>5 DEF HoldDeleteItem, TypeOK
  <2>7. attempts' \in [Calls -> 0 .. MaxAttempts - 1]
    BY <1>5, BoundsAssumption DEF HoldDeleteItem, TypeOK, RetriesLeft
  <2> QED
    BY <1>5, <2>2, <2>4, <2>6, <2>7 DEF HoldDeleteItem, TypeOK
<1>6. CASE HoldDebit(c)
  <2>1. IsHold(c)
    BY <1>6, HoldFields DEF HoldDebit, HoldSteps
  <2>2. pc' \in [Calls -> Steps]
    BY <1>6, PcType DEF HoldDebit, Steps, HoldSteps
  <2>3. /\ "_debit" \in Suffixes /\ req[c].user \in Users \cup Models
        /\ -req[c].amount \in Int /\ req[c].key \in Keys
    BY <2>1 DEF IsHold, Suffixes
  <2>4. ledger' \subseteq Entry
    BY <1>6, <2>3, CreateEntryType DEF HoldDebit
  <2> QED
    BY <1>6, <2>2, <2>4 DEF HoldDebit, TypeOK
<1>7. CASE HoldCredit(c)
  <2>1. IsHold(c)
    BY <1>7, HoldFields DEF HoldCredit, HoldSteps
  <2>2. pc' \in [Calls -> Steps]
    BY <1>7, PcType DEF HoldCredit, Steps, HoldSteps
  <2>3. /\ "_credit" \in Suffixes /\ req[c].user \in Users \cup Models
        /\ req[c].amount \in Int /\ req[c].key \in Keys
    BY <2>1 DEF IsHold, Suffixes
  <2>4. ledger' \subseteq Entry
    BY <1>7, <2>3, CreateEntryType DEF HoldCredit
  <2> QED
    BY <1>7, <2>2, <2>4 DEF HoldCredit, TypeOK
<1>8. CASE HoldPublish(c)
  <2>1. req[c].escrow \in EscrowIds
    BY <1>8, RequestFields DEF HoldPublish, RequestOK
  <2>2. pc' \in [Calls -> Steps]
    BY <1>8, PcType DEF HoldPublish, Steps, Finished
  <2> QED
    BY <1>8, <2>1, <2>2 DEF HoldPublish, TypeOK
<1> QED
  BY <1>1, <1>2, <1>3, <1>4, <1>5, <1>6, <1>7, <1>8 DEF HoldStep

\* Every step of the three other operations keeps the types.
LEMMA ResolveStepType ==
    ASSUME Shape, EscrowLockExclusive, NEW c \in Calls, ResolveStep(c)
    PROVE  TypeOK'
<1> USE DEF Shape
<1>1. CASE Lock(c)
  <2>1. IsResolve(c)
    BY <1>1, ResolveFields DEF Lock
  <2>2. pc' \in [Calls -> Steps]
    BY <1>1, PcType DEF Lock, Steps, LockedSteps, Finished
  <2>3. LockStatus(req[c].kind) \in Statuses
    BY DEF LockStatus, Statuses, Processing
  <2>4. items' \in [EscrowIds -> Item]
    BY <1>1, <2>3, StatusType DEF Lock, TypeOK
  <2> QED
    BY <1>1, <2>2, <2>4 DEF Lock, TypeOK
<1>2. CASE ReadUser(c)
  <2>1. Payer(c) \in Users
    BY <1>2, LockedItem DEF ReadUser, LockedSteps
  <2>2. pc' \in [Calls -> Steps]
    BY <1>2, PcType DEF ReadUser, Steps, LockedSteps, Finished
  <2>3. sawWallet' \in [Calls -> Wallet]
    BY <1>2, <2>1 DEF ReadUser, TypeOK
  <2> QED
    BY <1>2, <2>2, <2>3 DEF ReadUser, TypeOK
<1>3. CASE ReadModel(c)
  <2>1. req[c].model \in Models
    BY <1>3, RequestFields DEF ReadModel, RequestOK
  <2>2. AfterReadModel(c) \in Steps /\ "createModel" \in Steps
    BY DEF AfterReadModel, Steps, LockedSteps
  <2>3. pc' \in [Calls -> Steps]
    BY <1>3, <2>2, PcType DEF ReadModel
  <2>4. sawModel' \in [Calls -> ModelWallet]
    BY <1>3, <2>1 DEF ReadModel, TypeOK
  <2> QED
    BY <1>3, <2>3, <2>4 DEF ReadModel, TypeOK
<1>4. CASE CreateModel(c)
  <2>1. req[c].model \in Models
    BY <1>4, RequestFields DEF CreateModel, RequestOK
  <2>2. AfterReadModel(c) \in Steps /\ "thrown" \in Steps
    BY DEF AfterReadModel, Steps, LockedSteps, Finished
  <2>3. pc' \in [Calls -> Steps]
    BY <1>4, <2>2, PcType DEF CreateModel
  <2>4. [models[req[c].model] EXCEPT !.present = TRUE] \in ModelWallet
    <3>1. models[req[c].model] \in ModelWallet
      BY <2>1 DEF TypeOK
    <3> QED
      BY <3>1 DEF ModelWallet
  <2>5. models' \in [Models -> ModelWallet]
    BY <1>4, <2>4 DEF CreateModel, TypeOK
  <2>6. sawModel' \in [Calls -> ModelWallet]
    BY <1>4, <2>1, <2>5 DEF CreateModel, TypeOK
  <2> QED
    BY <1>4, <2>3, <2>5, <2>6 DEF CreateModel, TypeOK
<1>5. CASE CasModel(c)
  <2>1. req[c].model \in Models /\ req[c].amount \in Nat
    BY <1>5, RequestFields DEF CasModel, RequestOK
  <2>2. pc' \in [Calls -> Steps]
    BY <1>5, PcType DEF CasModel, Steps, LockedSteps, Finished
  <2> DEFINE v == [present |-> TRUE, earned |-> sawModel[c].earned + req[c].amount,
                   version |-> models[req[c].model].version + 1]
  <2>3. v \in ModelWallet
    <3>1. sawModel[c] \in ModelWallet /\ models[req[c].model] \in ModelWallet
      BY <2>1 DEF TypeOK
    <3>2. v.earned \in Int /\ v.version \in Nat
      BY <2>1, <3>1 DEF ModelWallet
    <3> QED
      BY <3>2 DEF ModelWallet
  <2>4. models' \in [Models -> ModelWallet]
    BY <1>5, <2>3 DEF CasModel, TypeOK
  <2>5. applied' \in [Calls -> SUBSET {"user", "model"}]
    BY <1>5 DEF CasModel, TypeOK
  <2> QED
    BY <1>5, <2>2, <2>4, <2>5 DEF CasModel, TypeOK
<1>6. CASE CasUser(c)
  <2>1. Payer(c) \in Users /\ req[c].escrow \in EscrowIds
    BY <1>6, LockedItem DEF CasUser, LockedSteps
  <2>2. pc' \in [Calls -> Steps]
    BY <1>6, PcType DEF CasUser, Steps, LockedSteps
  <2>3. Released(c) \in Int /\ -Unescrowed(c) \in Int
    <3>1. items[req[c].escrow].amount \in Nat
      <4>1. items[req[c].escrow] \in Item
        BY <2>1 DEF TypeOK
      <4> QED
        BY <4>1, PointsAreNaturals DEF Item
    <3> QED
      BY <3>1, RequestFields DEF Released, Unescrowed
  <2>4. Inc(wallets[Payer(c)], Released(c), -Unescrowed(c)) \in Wallet
    BY <2>1, <2>3, IncType DEF TypeOK
  <2>5. wallets' \in [Users -> Wallet]
    BY <1>6, <2>4 DEF CasUser, TypeOK
  <2>6. applied' \in [Calls -> SUBSET {"user", "model"}]
    BY <1>6 DEF CasUser, TypeOK
  <2> QED
    BY <1>6, <2>2, <2>5, <2>6 DEF CasUser, TypeOK
<1>7. CASE Unlock(c)
  <2>1. pc' \in [Calls -> Steps]
    BY <1>7, PcType DEF Unlock, Steps, Finished
  <2>2. items' \in [EscrowIds -> Item]
    BY <1>7, StatusType DEF Unlock, Rollback, Statuses
  <2> QED
    BY <1>7, <2>1, <2>2 DEF Unlock, TypeOK
<1>8. CASE Finalize(c)
  <2>1. pc' \in [Calls -> Steps]
    <3>1. AfterRefundEntry(c) \in Steps /\ "record" \in Steps
      BY DEF AfterRefundEntry, Steps, Finished
    <3> QED
      BY <1>8, <3>1, PcType DEF Finalize
  <2>2. FinalStatus(req[c].kind) \in Statuses
    BY DEF FinalStatus, Statuses, Processed
  <2>3. items' \in [EscrowIds -> Item]
    BY <1>8, <2>2, StatusType DEF Finalize
  <2> QED
    BY <1>8, <2>1, <2>3 DEF Finalize, TypeOK
<1>9. CASE Record(c)
  <2>1. IsResolve(c)
    BY <1>9, ResolveFields DEF Record
  <2>2. pc' \in [Calls -> Steps]
    <3>1. AfterRefundEntry(c) \in Steps
      BY DEF AfterRefundEntry, Steps, Finished
    <3> QED
      BY <1>9, <3>1, PcType DEF Record
  <2>3. /\ "" \in Suffixes /\ "_refund" \in Suffixes /\ req[c].key \in Keys
        /\ req[c].amount \in Int /\ req[c].refund \in Int
    BY <2>1 DEF IsResolve, Suffixes
  <2>4. ledger' \subseteq Entry
    <3>1. CASE req[c].kind = "settle"
      <4>1. req[c].model \in Users \cup Models
        BY <2>1, <3>1 DEF IsResolve
      <4> QED
        BY <1>9, <2>3, <3>1, <4>1, CreateEntryType DEF Record
    <3>2. CASE req[c].kind = "refund"
      <4>1. req[c].user \in Users \cup Models
        BY <2>1, <3>2 DEF IsResolve
      <4> QED
        BY <1>9, <2>3, <3>2, <4>1, CreateEntryType DEF Record
    <3>3. CASE req[c].kind = "partial"
      <4>1. req[c].user \in Users \cup Models
        BY <2>1, <3>3 DEF IsResolve
      <4> QED
        BY <1>9, <2>3, <3>3, <4>1, CreateEntryType DEF Record
    <3> QED
      BY <2>1, <3>1, <3>2, <3>3 DEF IsResolve, Resolving
  <2> QED
    BY <1>9, <2>2, <2>4 DEF Record, TypeOK
<1>10. CASE RecordSettle(c)
  <2>1. /\ "_settle" \in Suffixes /\ req[c].model \in Users \cup Models
        /\ req[c].amount \in Int /\ req[c].key \in Keys
    <3>1. IsResolve(c) /\ req[c].kind = "partial"
      BY <1>10, ResolveFields, RequestFields DEF RecordSettle, RequestOK
    <3> QED
      BY <3>1 DEF IsResolve, Suffixes
  <2>2. pc' \in [Calls -> Steps]
    BY <1>10, PcType DEF RecordSettle, Steps, Finished
  <2>3. ledger' \subseteq Entry
    BY <1>10, <2>1, CreateEntryType DEF RecordSettle
  <2> QED
    BY <1>10, <2>2, <2>3 DEF RecordSettle, TypeOK
<1> QED
  BY <1>1, <1>2, <1>3, <1>4, <1>5, <1>6, <1>7, <1>8, <1>9, <1>10 DEF ResolveStep

\* What a caller may send is a request of one of the four kinds.
LEMMA CallerRequest ==
    ASSUME TypeOK, NEW r \in Requests
    PROVE  /\ r \in Request /\ r.kind \in Kinds /\ r.key \in Keys
           /\ r.kind \in {"hold", "refund", "partial"} => r.user \in Users
           /\ r.kind \in {"settle", "partial"} => r.model \in Models
           /\ r.kind = "hold" => /\ r.amount \in Amounts
                                 /\ r.queueItem \in QueueItems
                                 /\ r.escrow = Null
           /\ r.kind \in Resolving => r.escrow \in announced \cup {Null}
<1> USE DEF Request, Kinds, Resolving, Points
<1>1. announced \subseteq EscrowIds
  BY DEF TypeOK
<1>2. CASE r \in HoldRequests
  BY <1>2 DEF HoldRequests
<1>3. CASE r \in SettleRequests
  BY <1>1, <1>3 DEF SettleRequests
<1>4. CASE r \in RefundRequests
  BY <1>1, <1>4 DEF RefundRequests
<1>5. CASE r \in PartialRequests
  BY <1>1, <1>5 DEF PartialRequests
<1> QED
  BY <1>2, <1>3, <1>4, <1>5 DEF Requests

\* Every step of the system keeps the types.
LEMMA TypeStep ==
    ASSUME Shape, EscrowLockExclusive, [Next]_vars
    PROVE  TypeOK'
<1> USE DEF Shape
<1>1. ASSUME NEW c \in Calls, Call(c) PROVE TypeOK'
  <2>1. PICK r \in Requests : req' = [req EXCEPT ![c] = r]
    BY <1>1 DEF Call
  <2>2. req' \in [Calls -> Request]
    BY <2>1, CallerRequest DEF TypeOK
  <2>3. pc' \in [Calls -> Steps]
    BY <1>1, PcType DEF Call, Steps
  <2> QED
    BY <1>1, <2>2, <2>3 DEF Call, TypeOK
<1>2. ASSUME NEW c \in Calls, Claim(c) PROVE TypeOK'
  <2>1. req[c].key \in Keys /\ req[c].kind \in Kinds
    BY <1>2, RequestFields DEF Claim, RequestOK
  <2>2. pc' \in [Calls -> Steps]
    BY <1>2, PcType DEF Claim, Steps, HoldSteps, Finished
  <2> QED
    BY <1>2, <2>1, <2>2 DEF Claim, TypeOK
<1>3. ASSUME NEW c \in Calls, Crash(c) PROVE TypeOK'
  BY <1>3 DEF Crash, TypeOK
<1>4. ASSUME NEW u \in Users, OtherWrite(u) PROVE TypeOK'
  <2>1. PICK a \in Amounts : \E d \in {a, -a} :
          /\ wallets' = [wallets EXCEPT ![u] = Inc(wallets[u], d, 0)]
          /\ others' = [others EXCEPT ![u] =
                [count |-> others[u].count + 1, net |-> others[u].net + d]]
    BY <1>4 DEF OtherWrite
  <2>2. PICK d \in {a, -a} :
          /\ wallets' = [wallets EXCEPT ![u] = Inc(wallets[u], d, 0)]
          /\ others' = [others EXCEPT ![u] =
                [count |-> others[u].count + 1, net |-> others[u].net + d]]
    BY <2>1
  <2>3. d \in Int
    BY AmountsAssumption
  <2>4. wallets' \in [Users -> Wallet]
    <3>1. Inc(wallets[u], d, 0) \in Wallet
      BY <2>3, IncType DEF TypeOK
    <3> QED
      BY <2>2, <3>1 DEF TypeOK
  <2>5. others' \in [Users -> [count: 0 .. MaxOthers, net: Int]]
    <3>1. others[u] \in [count: 0 .. MaxOthers, net: Int]
      BY DEF TypeOK
    <3>2. others[u].count + 1 \in 0 .. MaxOthers /\ others[u].net + d \in Int
      BY <1>4, <2>3, <3>1, BoundsAssumption DEF OtherWrite
    <3> QED
      BY <2>2, <3>2 DEF TypeOK
  <2> QED
    BY <1>4, <2>4, <2>5 DEF OtherWrite, TypeOK
<1>5. CASE UNCHANGED vars
  BY <1>5 DEF vars, TypeOK
<1> QED
  BY <1>1, <1>2, <1>3, <1>4, <1>5, HoldStepType, ResolveStepType DEF Next, Step

-----------------------------------------------------------------------------
(* Requests and items keep their shape.                                     *)

\* What a step of call c leaves alone: everything of the other calls, and the
\* escrow ids already given out.
Frame(c) ==
    /\ announced \subseteq announced'
    /\ \A d \in Calls \ {c} :
          /\ pc'[d] = pc[d] /\ req'[d] = req[d] /\ applied'[d] = applied[d]
          /\ sawWallet'[d] = sawWallet[d] /\ sawModel'[d] = sawModel[d]

\* A call never touches the local state of another.
LEMMA StepFrame ==
    ASSUME TypeOK, NEW c \in Calls, Call(c) \/ Step(c) \/ Crash(c)
    PROVE  Frame(c)
<1> USE DEF Frame, TypeOK
<1>1. CASE Call(c) \/ Claim(c) \/ Crash(c)
  BY <1>1 DEF Call, Claim, Crash
<1>2. CASE HoldRead(c) \/ HoldCreateWallet(c) \/ HoldCreateItem(c) \/ HoldCasWallet(c)
  BY <1>2 DEF HoldRead, HoldCreateWallet, HoldCreateItem, HoldCasWallet
<1>3. CASE HoldDeleteItem(c) \/ HoldDebit(c) \/ HoldCredit(c) \/ HoldPublish(c)
  BY <1>3 DEF HoldDeleteItem, HoldDebit, HoldCredit, HoldPublish
<1>4. CASE Lock(c) \/ ReadUser(c) \/ ReadModel(c) \/ CreateModel(c)
  BY <1>4 DEF Lock, ReadUser, ReadModel, CreateModel
<1>5. CASE CasModel(c) \/ CasUser(c) \/ Unlock(c) \/ Finalize(c) \/ Record(c) \/ RecordSettle(c)
  BY <1>5 DEF CasModel, CasUser, Unlock, Finalize, Record, RecordSettle
<1> QED
  BY <1>1, <1>2, <1>3, <1>4, <1>5 DEF Step, HoldStep, ResolveStep

\* A request stays in shape while its call does not move.
LEMMA RequestKept ==
    ASSUME NEW d \in Calls, RequestOK(d), pc'[d] = pc[d], req'[d] = req[d],
           announced \subseteq announced'
    PROVE  RequestOK(d)'
<1>1. req[d].kind \in Resolving => req[d].escrow \in announced' \cup {Null}
  BY DEF RequestOK
<1> QED
  BY <1>1 DEF RequestOK

\* The request of the call that takes a step stays in shape.
LEMMA RequestStep ==
    ASSUME Shape, NEW c \in Calls, Call(c) \/ Step(c) \/ Crash(c)
    PROVE  RequestOK(c)'
<1> USE DEF HoldSteps, LockedSteps, Resolving, Kinds
<1>0. RequestOK(c) /\ TypeOK /\ announced \subseteq announced'
  BY RequestFields, StepFrame DEF Shape, Frame
<1>1. CASE Call(c)
  <2>1. PICK r \in Requests : req' = [req EXCEPT ![c] = r]
    BY <1>1 DEF Call
  <2>2. req'[c] = r /\ pc'[c] = "claim" /\ announced' = announced
    BY <1>0, <1>1, <2>1 DEF Call, TypeOK
  <2> QED
    BY <1>0, <2>2, CallerRequest DEF RequestOK
<1>2. CASE Claim(c)
  <2>1. req' = req /\ pc[c] = "claim" /\ announced' = announced
        /\ pc'[c] \in {"thrown", "readWallet", "lock"}
        /\ (pc'[c] = "readWallet" => req[c].kind = "hold")
        /\ (pc'[c] = "lock" => req[c].kind # "hold")
    BY <1>0, <1>2 DEF Claim, TypeOK
  <2> QED
    BY <1>0, <2>1, RequestFields DEF RequestOK
<1>3. CASE HoldStep(c)
  <2>1. CASE HoldCreateItem(c)
    <3>1. CASE pc'[c] = "thrown" /\ req'[c] = req[c]
      BY <1>0, <2>1, <3>1 DEF HoldCreateItem, RequestOK
    <3>2. CASE pc'[c] = "casWallet" /\ \E e \in EscrowIds : req'[c] = [req[c] EXCEPT !.escrow = e]
      <4>1. PICK e \in EscrowIds : req'[c] = [req[c] EXCEPT !.escrow = e]
        BY <3>2
      <4>2. IsHold(c)
        BY <2>1, HoldFields DEF HoldCreateItem
      <4>3. req'[c].escrow = e /\ req'[c].kind = "hold" /\ req'[c].key = req[c].key
            /\ req'[c].user = req[c].user /\ req'[c].queueItem = req[c].queueItem
            /\ req'[c].amount = req[c].amount
        BY <4>1, <4>2 DEF IsHold, Request
      <4> QED
        BY <3>2, <4>2, <4>3 DEF IsHold, RequestOK
    <3> QED
      BY <1>0, <2>1, <3>1, <3>2 DEF HoldCreateItem, TypeOK
  <2>2. CASE HoldDeleteItem(c)
    BY <1>0, <2>2 DEF HoldDeleteItem, RequestOK, TypeOK
  <2>3. CASE HoldRead(c) \/ HoldCreateWallet(c) \/ HoldCasWallet(c)
    BY <1>0, <2>3 DEF HoldRead, HoldCreateWallet, HoldCasWallet, RequestOK, TypeOK
  <2>4. CASE HoldDebit(c) \/ HoldCredit(c) \/ HoldPublish(c)
    BY <1>0, <2>4 DEF HoldDebit, HoldCredit, HoldPublish, RequestOK, TypeOK
  <2> QED
    BY <1>3, <2>1, <2>2, <2>3, <2>4 DEF HoldStep
<1>4. CASE ResolveStep(c)
  <2>1. CASE Lock(c)
    <3>1. req' = req /\ pc[c] = "lock" /\ announced' = announced
      BY <2>1 DEF Lock
    <3>2. /\ pc'[c] \in {"readModel", "readUser", "thrown"}
          /\ pc'[c] = "readModel" => req[c].kind = "settle"
          /\ pc'[c] # "thrown" => req[c].escrow # Null
      BY <1>0, <2>1 DEF Lock, Lockable, TypeOK
    <3>3. req[c].escrow \in EscrowIds \cup {Null}
      BY RequestFields DEF Request
    <3> QED
      BY <1>0, <3>1, <3>2, <3>3 DEF RequestOK
  <2>2. CASE ReadUser(c)
    BY <1>0, <2>2 DEF ReadUser, RequestOK, TypeOK
  <2>3. CASE ReadModel(c) \/ CreateModel(c)
    BY <1>0, <2>3 DEF ReadModel, CreateModel, AfterReadModel, RequestOK, TypeOK
  <2>4. CASE CasModel(c)
    BY <1>0, <2>4 DEF CasModel, RequestOK, TypeOK
  <2>5. CASE CasUser(c)
    BY <1>0, <2>5 DEF CasUser, RequestOK, TypeOK
  <2>6. CASE Unlock(c)
    BY <1>0, <2>6 DEF Unlock, RequestOK, TypeOK
  <2>7. CASE Finalize(c)
    BY <1>0, <2>7 DEF Finalize, AfterRefundEntry, RequestOK, TypeOK
  <2>8. CASE Record(c) \/ RecordSettle(c)
    BY <1>0, <2>8 DEF Record, RecordSettle, AfterRefundEntry, RequestOK, TypeOK
  <2> QED
    BY <1>4, <2>1, <2>2, <2>3, <2>4, <2>5, <2>6, <2>7, <2>8 DEF ResolveStep
<1>5. CASE Crash(c)
  BY <1>0, <1>5, RequestKept DEF Crash
<1> QED
  BY <1>1, <1>2, <1>3, <1>4, <1>5 DEF Step

\* Every step of the system keeps the shape of the requests.
LEMMA RequestsStep ==
    ASSUME Shape, [Next]_vars
    PROVE  RequestsOK'
<1>1. ASSUME NEW c \in Calls, Call(c) \/ Step(c) \/ Crash(c) PROVE RequestsOK'
  <2>1. RequestOK(c)'
    BY <1>1, RequestStep
  <2>2. Frame(c)
    BY <1>1, StepFrame DEF Shape
  <2>3. ASSUME NEW d \in Calls, d # c PROVE RequestOK(d)'
    BY <2>2, <2>3, RequestKept DEF Frame, Shape, RequestsOK
  <2> QED
    BY <2>1, <2>3 DEF RequestsOK
<1>2. CASE (\E u \in Users : OtherWrite(u)) \/ UNCHANGED vars
  <2>1. pc' = pc /\ req' = req /\ announced' = announced
    BY <1>2 DEF OtherWrite, vars
  <2> QED
    BY <2>1, RequestKept DEF Shape, RequestsOK
<1> QED
  BY <1>1, <1>2 DEF Next

\* Five actions write escrow items.
LEMMA ItemWriters ==
    ASSUME [Next]_vars, items' # items
    PROVE  \E c \in Calls : \/ HoldCreateItem(c) \/ HoldDeleteItem(c)
                            \/ Lock(c) \/ Unlock(c) \/ Finalize(c)
<1>1. ASSUME NEW c \in Calls, Call(c) \/ Claim(c) \/ Crash(c) PROVE items' = items
  BY <1>1 DEF Call, Claim, Crash
<1>2. ASSUME NEW c \in Calls, HoldStep(c)
      PROVE  items' = items \/ HoldCreateItem(c) \/ HoldDeleteItem(c)
  BY <1>2 DEF HoldStep, HoldRead, HoldCreateWallet, HoldCasWallet, HoldDebit,
              HoldCredit, HoldPublish
<1>3. ASSUME NEW c \in Calls, ResolveStep(c)
      PROVE  items' = items \/ Lock(c) \/ Unlock(c) \/ Finalize(c)
  BY <1>3 DEF ResolveStep, ReadUser, ReadModel, CreateModel, CasModel, CasUser,
              Record, RecordSettle
<1>4. ASSUME NEW u \in Users, OtherWrite(u) PROVE items' = items
  BY <1>4 DEF OtherWrite
<1> QED
  BY <1>1, <1>2, <1>3, <1>4 DEF Next, Step, vars

\* A lock, its rollback and the final status change the status of one item: a
\* held one, or the one the call has locked.
LEMMA StatusWriters ==
    ASSUME Shape, EscrowLockExclusive, NEW c \in Calls, items' # items,
           Lock(c) \/ Unlock(c) \/ Finalize(c)
    PROVE  LET e == req[c].escrow IN
           /\ e \in EscrowIds /\ e \in announced
           /\ IF Lock(c) THEN items[e].status = "held"
                         ELSE HoldsLock(c) /\ items[e].status \in Processing
           /\ \E s \in {"held"} \cup Processing \cup Processed :
                 /\ s \in Processing <=> Lock(c)
                 /\ items' = [items EXCEPT ![e].status = s]
<1> DEFINE e == req[c].escrow
<1>1. IsResolve(c)
  BY ResolveFields DEF Lock, Unlock, Finalize, LockedSteps
<1>2. e \in EscrowIds \cup {Null} /\ e \in announced \cup {Null}
  BY <1>1, RequestFields DEF IsResolve, Request, RequestOK
<1>3. CASE Lock(c)
  <2>1. items' = [items EXCEPT ![e].status = LockStatus(req[c].kind)] /\ Lockable(e)
    BY <1>3 DEF Lock
  <2>2. LockStatus(req[c].kind) \in Processing
    BY <1>1 DEF IsResolve, Resolving, LockStatus, Processing
  <2> QED
    BY <1>2, <1>3, <2>1, <2>2 DEF Lockable
<1>4. CASE Unlock(c) \/ Finalize(c)
  <2>1. pc[c] \in LockedSteps /\ pc[c] # "lock"
    BY <1>4 DEF Unlock, Finalize, LockedSteps
  <2>2. ~Lock(c)
    BY <2>1 DEF Lock
  <2>3. e \in EscrowIds /\ HoldsLock(c) /\ items[e].status \in Processing
    BY <2>1, LockedItem
  <2>4. e # Null
    BY <2>3, NullAssumption
  <2>5. \E s \in {"held"} \cup Processed : items' = [items EXCEPT ![e].status = s]
    BY <1>4 DEF Unlock, Finalize, Rollback, FinalStatus, Processed
  <2>6. \A s \in {"held"} \cup Processed : s \notin Processing
    BY DEF Processed, Processing
  <2> QED
    BY <1>2, <2>2, <2>3, <2>4, <2>5, <2>6
<1> QED
  BY <1>3, <1>4

\* Every step of the system keeps the owner of an item.
LEMMA ItemsStep ==
    ASSUME Shape, EscrowLockExclusive, [Next]_vars
    PROVE  ItemsOK'
<1> USE DEF Shape, ItemsOK
<1>1. ASSUME NEW c \in Calls, HoldCreateItem(c) PROVE ItemsOK'
  <2>1. IsHold(c)
    BY <1>1, HoldFields DEF HoldCreateItem, HoldSteps
  <2> QED
    BY <1>1, <2>1 DEF HoldCreateItem, IsHold, TypeOK
<1>2. ASSUME NEW c \in Calls, HoldDeleteItem(c) PROVE ItemsOK'
  BY <1>2 DEF HoldDeleteItem, NoItem, TypeOK
<1>3. ASSUME NEW c \in Calls, Lock(c) \/ Unlock(c) \/ Finalize(c), items' # items
      PROVE  ItemsOK'
  <2> DEFINE e == req[c].escrow
  <2>1. /\ e \in EscrowIds /\ items[e].status # "none"
        /\ \E s : items' = [items EXCEPT ![e].status = s]
    BY <1>3, StatusWriters DEF Processing
  <2>2. \A x \in EscrowIds : items'[x].user = items[x].user
    BY <2>1 DEF TypeOK, Item
  <2>3. \A x \in EscrowIds : items'[x].status # "none" => items[x].status # "none"
    BY <2>1 DEF TypeOK, Item
  <2> QED
    BY <2>2, <2>3
<1> QED
  BY <1>1, <1>2, <1>3, ItemWriters

\* Every step of the system keeps the shape of the state.
LEMMA ShapeStep ==
    ASSUME Shape, EscrowLockExclusive, [Next]_vars
    PROVE  Shape'
BY TypeStep, RequestsStep, ItemsStep DEF Shape

-----------------------------------------------------------------------------
(* Locks are exclusive.                                                     *)

\* A call that holds a lock after a step held it before or takes it in the step.
LEMMA LockHolders ==
    ASSUME Shape, NEW c \in Calls, Call(c) \/ Step(c) \/ Crash(c), HoldsLock(c)'
    PROVE  /\ req'[c] = req[c]
           /\ \/ HoldsLock(c) /\ ~Lock(c) /\ ~Unlock(c) /\ ~Finalize(c)
              \/ Lock(c) /\ Lockable(req[c].escrow)
<1> USE DEF HoldsLock, Shape, TypeOK
<1>1. CASE Call(c) \/ Claim(c)
  <2>1. pc'[c] \in {"claim", "thrown", "readWallet", "lock"}
    BY <1>1 DEF Call, Claim
  <2> QED
    BY <2>1 DEF LockedSteps
<1>2. CASE HoldStep(c)
  <2>1. req[c].kind = "hold" /\ req[c] \in Request
    BY <1>2, HoldFields DEF HoldStep, HoldRead, HoldCreateWallet, HoldCreateItem,
          HoldCasWallet, HoldDeleteItem, HoldDebit, HoldCredit, HoldPublish, HoldSteps, IsHold
  <2>2. pc'[c] \in HoldSteps \cup Finished
    BY <1>2 DEF HoldStep, HoldRead, HoldCreateWallet, HoldCreateItem,
          HoldCasWallet, HoldDeleteItem, HoldDebit, HoldCredit, HoldPublish, HoldSteps, Finished
  <2> QED
    BY <2>2 DEF LockedSteps, HoldSteps, Finished
<1>3. CASE Lock(c)
  <2>1. req' = req /\ (pc'[c] = "thrown" \/ Lockable(req[c].escrow))
    BY <1>3 DEF Lock
  <2> QED
    BY <1>3, <2>1 DEF LockedSteps
<1>4. CASE Crash(c)
  BY <1>4 DEF Crash, Lock, Unlock, Finalize
<1>5. CASE ReadUser(c) \/ ReadModel(c) \/ CreateModel(c) \/ CasModel(c) \/ CasUser(c)
  BY <1>5 DEF ReadUser, ReadModel, CreateModel, CasModel, CasUser, LockedSteps,
              Lock, Unlock, Finalize
<1>6. CASE Unlock(c) \/ Finalize(c) \/ Record(c) \/ RecordSettle(c)
  <2>1. pc'[c] \in {"thrown", "record", "recordSettle", "returned"}
    BY <1>6 DEF Unlock, Finalize, Record, RecordSettle, AfterRefundEntry
  <2> QED
    BY <2>1 DEF LockedSteps
<1> QED
  BY <1>1, <1>2, <1>3, <1>4, <1>5, <1>6 DEF Step, ResolveStep

\* A hold deletes only an item that nobody has been told of or has locked.
LEMMA DeletedItem ==
    ASSUME Shape, Holds, NEW c \in Calls, HoldDeleteItem(c)
    PROVE  /\ req[c].kind = "hold" /\ req[c].escrow \in EscrowIds
           /\ applied[c] = {}
           /\ items[req[c].escrow].status = "held"
           /\ req[c].escrow \notin announced
           /\ items' = [items EXCEPT ![req[c].escrow] = NoItem]
<1>1. req[c].kind = "hold" /\ req[c].escrow \in EscrowIds
  BY RequestFields DEF HoldDeleteItem, RequestOK, HoldSteps
<1>2. applied[c] = {}
  BY <1>1 DEF HoldDeleteItem, Holds, HoldPcOK
<1> QED
  BY <1>1, <1>2, NullAssumption DEF HoldDeleteItem, Holds, HoldsOK

\* Every step of the system keeps the locks exclusive.
LEMMA LockStep ==
    ASSUME Shape, EscrowLockExclusive, Holds, [Next]_vars
    PROVE  EscrowLockExclusive'
<1> DEFINE E(d) == req[d].escrow
<1>1. ASSUME NEW d \in Calls, HoldsLock(d)
      PROVE  /\ E(d) \in EscrowIds
             /\ items[E(d)].status = LockStatus(req[d].kind)
             /\ items[E(d)].status \in Processing
  BY <1>1, LockedItem DEF HoldsLock
<1>2. CASE items' = items
  <2>1. ASSUME NEW d \in Calls, HoldsLock(d)'
        PROVE  HoldsLock(d) /\ req'[d] = req[d]
    <3>1. ASSUME NEW c \in Calls, Call(c) \/ Step(c) \/ Crash(c)
          PROVE  HoldsLock(d) /\ req'[d] = req[d]
      <4>1. CASE d # c
        BY <2>1, <3>1, <4>1, StepFrame DEF Frame, HoldsLock, Shape
      <4>2. CASE d = c
        <5>1. ~(Lock(c) /\ Lockable(req[c].escrow))
          <6> SUFFICES ASSUME Lock(c), Lockable(req[c].escrow) PROVE FALSE
            OBVIOUS
          <6>1. IsResolve(c) /\ req[c].escrow \in EscrowIds
            BY ResolveFields, RequestFields DEF Lock, Lockable, Request
          <6>2. items'[req[c].escrow].status = LockStatus(req[c].kind)
            BY <6>1 DEF Lock, Shape, TypeOK, Item
          <6> QED
            BY <1>2, <6>1, <6>2 DEF Lockable, LockStatus, IsResolve, Resolving
        <5> QED
          BY <2>1, <3>1, <4>2, <5>1, LockHolders
      <4> QED
        BY <4>1, <4>2
    <3>2. CASE (\E u \in Users : OtherWrite(u)) \/ UNCHANGED vars
      BY <2>1, <3>2 DEF OtherWrite, vars, HoldsLock
    <3> QED
      BY <3>1, <3>2 DEF Next
  <2> QED
    BY <1>2, <2>1 DEF EscrowLockExclusive
<1>3. ASSUME NEW c \in Calls, HoldCreateItem(c) \/ HoldDeleteItem(c)
      PROVE  EscrowLockExclusive'
  <2>1. PICK e \in EscrowIds : \E i :
           \/ items[e].status \in {"none", "held"} /\ items' = [items EXCEPT ![e] = i]
           \/ items' = items
    <3>1. CASE HoldCreateItem(c)
      BY <3>1 DEF HoldCreateItem
    <3>2. CASE HoldDeleteItem(c)
      BY <3>2, DeletedItem
    <3> QED
      BY <1>3, <3>1, <3>2
  <2>2. ASSUME NEW d \in Calls, HoldsLock(d)'
        PROVE  HoldsLock(d) /\ req'[d] = req[d]
    <3>1. Step(c) /\ ~Lock(c)
      BY <1>3 DEF Step, HoldStep, HoldCreateItem, HoldDeleteItem, Lock
    <3> QED
      BY <2>2, <3>1, StepFrame, LockHolders DEF Frame, HoldsLock, Shape
  <2>3. ASSUME NEW d \in Calls, HoldsLock(d)
        PROVE  items'[E(d)] = items[E(d)]
    <3>1. items[E(d)].status \notin {"none", "held"} /\ E(d) \in EscrowIds
      BY <2>3, <1>1 DEF Processing
    <3> QED
      BY <2>1, <3>1 DEF Shape, TypeOK
  <2> QED
    BY <2>2, <2>3 DEF EscrowLockExclusive
<1>4. ASSUME NEW c \in Calls, Lock(c), items' # items
      PROVE  EscrowLockExclusive'
  <2>1. /\ E(c) \in EscrowIds /\ items[E(c)].status = "held"
        /\ items' = [items EXCEPT ![E(c)].status = LockStatus(req[c].kind)]
        /\ req' = req
    BY <1>4, StatusWriters DEF Lock
  <2>2. ASSUME NEW d \in Calls \ {c}, HoldsLock(d)' PROVE HoldsLock(d) /\ E(d) # E(c)
    <3>1. HoldsLock(d)
      BY <1>4, <2>2, StepFrame DEF Frame, HoldsLock, Step, ResolveStep, Shape
    <3> QED
      BY <1>1, <2>1, <3>1 DEF Processing
  <2>3. items'[E(c)].status = LockStatus(req[c].kind)
    BY <2>1 DEF Shape, TypeOK, Item
  <2>4. ASSUME NEW d \in Calls \ {c}, HoldsLock(d)' PROVE items'[E(d)] = items[E(d)]
    BY <1>1, <2>1, <2>2, <2>4 DEF Shape, TypeOK
  <2> QED
    BY <2>1, <2>2, <2>3, <2>4 DEF EscrowLockExclusive
<1>5. ASSUME NEW c \in Calls, Unlock(c) \/ Finalize(c), items' # items
      PROVE  EscrowLockExclusive'
  <2>0. ~Lock(c) /\ Step(c) /\ req' = req
    BY <1>5 DEF Lock, Unlock, Finalize, Step, ResolveStep
  <2>1. /\ E(c) \in EscrowIds /\ HoldsLock(c)
        /\ \E s : items' = [items EXCEPT ![E(c)].status = s]
    BY <1>5, <2>0, StatusWriters
  <2>2. ASSUME NEW d \in Calls, HoldsLock(d)' PROVE HoldsLock(d) /\ d # c
    BY <1>5, <2>0, <2>2, StepFrame, LockHolders DEF Frame, HoldsLock, Shape
  <2>3. ASSUME NEW d \in Calls, HoldsLock(d)' PROVE items'[E(d)] = items[E(d)]
    <3>1. E(d) # E(c) /\ E(d) \in EscrowIds
      BY <1>1, <2>1, <2>2, <2>3 DEF EscrowLockExclusive
    <3> QED
      BY <2>1, <3>1 DEF Shape, TypeOK
  <2> QED
    BY <2>0, <2>2, <2>3 DEF EscrowLockExclusive
<1> QED
  BY <1>2, <1>3, <1>4, <1>5, ItemWriters

-----------------------------------------------------------------------------
(* Versions identify documents, and no balance is overdrawn.                *)

\* A wallet document that exists changes only with its version.
Grows(w, v) == w.present => /\ v.present
                            /\ w.version <= v.version
                            /\ w.version = v.version => v = w

\* Four actions write user wallets: a document they change gets a version it has
\* not had.
LEMMA WalletWrites ==
    ASSUME Shape, EscrowLockExclusive, SnapshotsOK,
           [Next]_vars, NEW u \in Users
    PROVE  Grows(wallets[u], wallets'[u])
<1> USE DEF Grows, Shape
<1>0. /\ wallets[u] \in Wallet /\ wallets[u].available \in Int
      /\ wallets[u].version \in Nat
  BY DEF TypeOK, Wallet
<1>1. CASE wallets' = wallets
  BY <1>0, <1>1
<1>2. ASSUME NEW c \in Calls, HoldCreateWallet(c)
      PROVE  Grows(wallets[u], wallets'[u])
  <2> DEFINE v == [wallets[u] EXCEPT !.present = TRUE]
  <2>1. wallets'[u] \in {wallets[u], v}
    BY <1>2 DEF HoldCreateWallet, TypeOK
  <2>2. v.available = wallets[u].available /\ v.version = wallets[u].version
    BY <1>0 DEF Wallet
  <2>3. wallets[u].present => v = wallets[u]
    BY <1>0 DEF Wallet
  <2>4. v.present
    BY <1>0 DEF Wallet
  <2> HIDE DEF v
  <2> QED
    BY <1>0, <2>1, <2>2, <2>3, <2>4
<1>3. ASSUME NEW c \in Calls, HoldCasWallet(c)
      PROVE  Grows(wallets[u], wallets'[u])
  <2> DEFINE w == sawWallet[c]
             v == [present |-> TRUE, available |-> w.available - req[c].amount,
                   escrow |-> w.escrow + req[c].amount, version |-> w.version + 1]
  <2>1. IsHold(c) /\ HoldSaw(c)
    BY <1>3, HoldFields DEF HoldCasWallet, HoldSteps, SnapshotsOK
  <2>2. CASE wallets'[u] = wallets[u]
    BY <1>0, <2>2
  <2>3. CASE wallets'[u] = v /\ u = req[c].user /\ SameVersion(c)
    <3>1. w.version = wallets[u].version
      BY <2>1, <2>3 DEF SameVersion, Payer, IsHold
    <3>2. w = wallets[u] /\ w.available >= req[c].amount
      BY <2>1, <2>3, <3>1 DEF HoldSaw
    <3>3. v.present /\ v.version = wallets[u].version + 1
          /\ v.available = wallets[u].available - req[c].amount
      BY <3>2
    <3> QED
      BY <1>0, <2>1, <2>3, <3>2, <3>3 DEF IsHold
  <2>4. \/ wallets' = wallets
        \/ wallets' = [wallets EXCEPT ![req[c].user] = v] /\ SameVersion(c)
    BY <1>3 DEF HoldCasWallet
  <2> HIDE DEF v
  <2>5. wallets'[u] = wallets[u] \/ (wallets'[u] = v /\ u = req[c].user /\ SameVersion(c))
    BY <2>4 DEF TypeOK
  <2> QED
    BY <2>2, <2>3, <2>5
<1>4. ASSUME NEW a \in Int, NEW b \in Int, wallets'[u] = Inc(wallets[u], a, b),
             wallets[u].present
      PROVE  Grows(wallets[u], wallets'[u])
  <2>1. /\ wallets'[u].present = wallets[u].present
        /\ wallets'[u].available = wallets[u].available + a
        /\ wallets'[u].version = wallets[u].version + 1
    BY <1>0, <1>4 DEF Inc, Wallet
  <2> QED
    BY <1>0, <1>4, <2>1
<1>5. ASSUME NEW c \in Calls, CasUser(c)
      PROVE  Grows(wallets[u], wallets'[u])
  <2>1. Payer(c) \in Users /\ req[c].escrow \in EscrowIds
    BY <1>5, LockedItem DEF CasUser, LockedSteps
  <2>2. Released(c) \in Nat
    BY RequestFields DEF Released
  <2>3. -Unescrowed(c) \in Int
    <3>1. items[req[c].escrow] \in Item
      BY <2>1 DEF TypeOK
    <3>2. items[req[c].escrow].amount \in Nat
      BY <3>1, PointsAreNaturals DEF Item
    <3> QED
      BY <3>2, RequestFields DEF Unescrowed
  <2>4. \/ wallets'[u] = wallets[u]
        \/ wallets'[u] = Inc(wallets[u], Released(c), -Unescrowed(c))
    BY <1>5 DEF CasUser, TypeOK
  <2>5. Inc(wallets[u], Released(c), -Unescrowed(c)).available
          = wallets[u].available + Released(c)
        /\ Inc(wallets[u], Released(c), -Unescrowed(c)).version
          = wallets[u].version + 1
        /\ Inc(wallets[u], Released(c), -Unescrowed(c)).present
          = wallets[u].present
    BY <1>0, <2>2, <2>3 DEF Inc, Wallet
  <2>6. CASE wallets'[u] = wallets[u]
    BY <1>0, <2>6
  <2>7. CASE wallets'[u] = Inc(wallets[u], Released(c), -Unescrowed(c))
    <3>1. /\ wallets'[u].version = wallets[u].version + 1
          /\ wallets'[u].present = wallets[u].present
      BY <2>5, <2>7
    <3> QED
      BY <1>0, <3>1
  <2> QED
    BY <2>4, <2>6, <2>7
<1>6. ASSUME NEW x \in Users, OtherWrite(x)
      PROVE  Grows(wallets[u], wallets'[u])
  <2>1. PICK d \in Int : wallets' = [wallets EXCEPT ![x] = Inc(wallets[x], d, 0)]
    <3>1. PICK a \in Amounts : \E d \in {a, -a} :
             wallets' = [wallets EXCEPT ![x] = Inc(wallets[x], d, 0)]
      BY <1>6 DEF OtherWrite
    <3>2. a \in Int /\ -a \in Int
      BY AmountsAssumption
    <3> QED
      BY <3>1, <3>2
  <2>2. CASE u = x
    BY <1>4, <1>6, <2>1, <2>2 DEF OtherWrite, TypeOK
  <2>3. CASE u # x
    BY <1>0, <2>1, <2>3 DEF TypeOK
  <2> QED
    BY <2>2, <2>3
<1>7. ASSUME NEW c \in Calls, Call(c) \/ Claim(c) \/ Crash(c) PROVE wallets' = wallets
  BY <1>7 DEF Call, Claim, Crash
<1>8. ASSUME NEW c \in Calls, HoldStep(c)
      PROVE  wallets' = wallets \/ HoldCreateWallet(c) \/ HoldCasWallet(c)
  BY <1>8 DEF HoldStep, HoldRead, HoldCreateItem, HoldDeleteItem, HoldDebit,
              HoldCredit, HoldPublish
<1>9. ASSUME NEW c \in Calls, ResolveStep(c) PROVE wallets' = wallets \/ CasUser(c)
  BY <1>9 DEF ResolveStep, Lock, ReadUser, ReadModel, CreateModel, CasModel, Unlock,
              Finalize, Record, RecordSettle
<1> QED
  BY <1>1, <1>2, <1>3, <1>5, <1>6, <1>7, <1>8, <1>9 DEF Next, Step, vars

\* Two actions write model wallets, and they change a document with its version.
LEMMA ModelWrites ==
    ASSUME Shape, [Next]_vars, NEW m \in Models
    PROVE  Grows(models[m], models'[m])
<1> USE DEF Grows, Shape
<1>0. models[m] \in ModelWallet /\ models[m].version \in Nat
  BY DEF TypeOK, ModelWallet
<1>1. CASE models' = models
  BY <1>0, <1>1
<1>2. ASSUME NEW c \in Calls, CreateModel(c) PROVE Grows(models[m], models'[m])
  <2>1. models'[m] = models[m] \/ ~models[m].present
    BY <1>2 DEF CreateModel, TypeOK
  <2> QED
    BY <1>0, <2>1
<1>3. ASSUME NEW c \in Calls, CasModel(c) PROVE Grows(models[m], models'[m])
  <2>1. \/ models'[m] = models[m]
        \/ models'[m] = [present |-> TRUE,
                         earned  |-> sawModel[c].earned + req[c].amount,
                         version |-> models[m].version + 1]
    BY <1>3 DEF CasModel, TypeOK
  <2> QED
    BY <1>0, <2>1
<1>4. ASSUME NEW c \in Calls, Call(c) \/ Claim(c) \/ Crash(c) \/ HoldStep(c)
      PROVE  models' = models
  BY <1>4 DEF Call, Claim, Crash, HoldStep, HoldRead, HoldCreateWallet, HoldCasWallet,
              HoldCreateItem, HoldDeleteItem, HoldDebit, HoldCredit, HoldPublish
<1>5. ASSUME NEW c \in Calls, ResolveStep(c)
      PROVE  models' = models \/ CreateModel(c) \/ CasModel(c)
  BY <1>5 DEF ResolveStep, Lock, ReadUser, ReadModel, CasUser, Unlock, Finalize,
              Record, RecordSettle
<1>6. ASSUME NEW u \in Users, OtherWrite(u) PROVE models' = models
  BY <1>6 DEF OtherWrite
<1> QED
  BY <1>1, <1>2, <1>3, <1>4, <1>5, <1>6 DEF Next, Step, vars

\* A document read earlier still is a past version of the one in the store.
LEMMA SawWallet ==
    ASSUME TypeOK, NEW c \in Calls, HoldSaw(c), req[c].user \in Users,
           Grows(wallets[req[c].user], wallets'[req[c].user]), TypeOK',
           req'[c].user = req[c].user, req'[c].amount = req[c].amount,
           sawWallet'[c] = sawWallet[c]
    PROVE  HoldSaw(c)'
<1>1. /\ sawWallet[c].version \in Nat /\ wallets[req[c].user].version \in Nat
      /\ wallets'[req[c].user].version \in Nat
  BY DEF TypeOK, Wallet
<1> QED
  BY <1>1 DEF HoldSaw, Grows

\* The same of a model wallet.
LEMMA SawModelWallet ==
    ASSUME TypeOK, NEW c \in Calls, ModelSaw(c), req[c].model \in Models,
           Grows(models[req[c].model], models'[req[c].model]), TypeOK',
           req'[c].model = req[c].model, sawModel'[c] = sawModel[c]
    PROVE  ModelSaw(c)'
<1>1. /\ sawModel[c].version \in Nat /\ models[req[c].model].version \in Nat
      /\ models'[req[c].model].version \in Nat
  BY DEF TypeOK, ModelWallet
<1> QED
  BY <1>1 DEF ModelSaw, Grows

\* What SnapshotsOK says of one call.
SnapshotOK(c) ==
    /\ pc[c] \in {"createItem", "casWallet"} => HoldSaw(c)
    /\ \/ pc[c] = "casModel"
       \/ pc[c] = "casUser" /\ req[c].kind = "partial"
       => ModelSaw(c)

\* Every step keeps the snapshots of a call that does not move.
LEMMA SnapshotKept ==
    ASSUME Shape, EscrowLockExclusive, SnapshotsOK,
           [Next]_vars, NEW c \in Calls, pc'[c] = pc[c], req'[c] = req[c],
           sawWallet'[c] = sawWallet[c], sawModel'[c] = sawModel[c]
    PROVE  SnapshotOK(c)'
<1>1. TypeOK /\ TypeOK' /\ RequestOK(c)
  BY ShapeStep, RequestFields DEF Shape
<1>2. ASSUME pc[c] \in {"createItem", "casWallet"} PROVE HoldSaw(c)'
  <2>1. req[c].user \in Users /\ HoldSaw(c)
    BY <1>2, HoldFields DEF HoldSteps, IsHold, SnapshotsOK
  <2> QED
    BY <1>1, <2>1, WalletWrites, SawWallet
<1>3. ASSUME pc[c] = "casModel" \/ (pc[c] = "casUser" /\ req[c].kind = "partial")
      PROVE  ModelSaw(c)'
  <2>1. req[c].model \in Models /\ ModelSaw(c)
    BY <1>1, <1>3 DEF RequestOK, SnapshotsOK
  <2> QED
    BY <1>1, <2>1, ModelWrites, SawModelWallet
<1> QED
  BY <1>2, <1>3 DEF SnapshotOK

\* A call that reads a wallet sees its present version, and one that moves on
\* without reading keeps what it saw.
LEMMA SnapshotMoved ==
    ASSUME Shape, EscrowLockExclusive, SnapshotsOK, NEW c \in Calls,
           Call(c) \/ Step(c)
    PROVE  SnapshotOK(c)'
<1> DEFINE Reading == {"createItem", "casWallet", "casModel", "casUser"}
<1>0. TypeOK /\ RequestOK(c)
  BY RequestFields DEF Shape
<1>1. ASSUME pc'[c] \notin Reading PROVE SnapshotOK(c)'
  BY <1>1 DEF SnapshotOK
<1>2. CASE Call(c) \/ Claim(c)
  <2>1. pc'[c] \notin Reading
    BY <1>0, <1>2 DEF Call, Claim, TypeOK
  <2> QED
    BY <1>1, <2>1
<1>3. CASE HoldStep(c)
  <2>1. IsHold(c)
    BY <1>3, HoldFields DEF HoldStep, HoldRead, HoldCreateWallet, HoldCreateItem,
          HoldCasWallet, HoldDeleteItem, HoldDebit, HoldCredit, HoldPublish, HoldSteps
  <2>2. CASE HoldRead(c) /\ pc'[c] = "createItem"
    <3>1. /\ wallets' = wallets /\ req' = req
          /\ sawWallet'[c] = wallets[req[c].user]
          /\ wallets[req[c].user].present
          /\ Affords(wallets[req[c].user], req[c].amount)
      BY <1>0, <2>2 DEF HoldRead, TypeOK
    <3>2. wallets[req[c].user].version \in Nat /\ wallets[req[c].user].available \in Int
      BY <1>0, <2>1 DEF IsHold, TypeOK, Wallet
    <3>3. HoldSaw(c)'
      BY <3>1, <3>2 DEF HoldSaw, Affords
    <3> QED
      BY <2>2, <3>3 DEF SnapshotOK
  <2>3. CASE HoldCreateItem(c) /\ pc'[c] = "casWallet"
    <3>1. HoldSaw(c)
      BY <2>3 DEF HoldCreateItem, SnapshotsOK
    <3>2. req'[c].user = req[c].user /\ req'[c].amount = req[c].amount
      <4>1. req[c] \in Request
        BY <2>1 DEF IsHold
      <4>2. \E e \in EscrowIds : req'[c] = [req[c] EXCEPT !.escrow = e]
        BY <1>0, <2>3 DEF HoldCreateItem, TypeOK
      <4> QED
        BY <4>1, <4>2 DEF Request
    <3>3. HoldSaw(c)'
      BY <2>3, <3>1, <3>2 DEF HoldCreateItem, HoldSaw
    <3> QED
      BY <2>3, <3>3 DEF SnapshotOK
  <2>4. CASE pc'[c] \notin Reading
    BY <1>1, <2>4
  <2>5. pc'[c] \notin Reading \/ (HoldRead(c) /\ pc'[c] = "createItem")
          \/ (HoldCreateItem(c) /\ pc'[c] = "casWallet")
    BY <1>0, <1>3 DEF HoldStep, HoldRead, HoldCreateWallet, HoldCreateItem,
       HoldCasWallet, HoldDeleteItem, HoldDebit, HoldCredit, HoldPublish, TypeOK
  <2> QED
    BY <2>2, <2>3, <2>4, <2>5
<1>4. CASE ReadUser(c)
  <2>1. pc'[c] \notin Reading \/ (pc'[c] = "casUser" /\ req[c].kind # "partial")
    BY <1>0, <1>4 DEF ReadUser, TypeOK
  <2>2. req' = req
    BY <1>4 DEF ReadUser
  <2> QED
    BY <2>1, <2>2 DEF SnapshotOK
<1>5. CASE ReadModel(c) \/ CreateModel(c)
  <2>1. req[c].model \in Models
    BY <1>0, <1>5 DEF ReadModel, CreateModel, RequestOK
  <2>2. CASE pc'[c] \in {"casUser", "casModel"}
    <3>1. /\ req' = req /\ sawModel'[c] = models'[req[c].model]
          /\ models'[req[c].model].present
      <4>1. CASE ReadModel(c)
        BY <1>0, <2>2, <4>1 DEF ReadModel, TypeOK
      <4>2. CASE CreateModel(c)
        <5>1. models[req[c].model] \in ModelWallet
          BY <1>0, <2>1 DEF TypeOK
        <5>2. /\ req' = req /\ sawModel'[c] = models'[req[c].model]
              /\ models'[req[c].model] = [models[req[c].model] EXCEPT !.present = TRUE]
          BY <1>0, <2>1, <2>2, <4>2 DEF CreateModel, TypeOK
        <5> QED
          BY <5>1, <5>2 DEF ModelWallet
      <4> QED
        BY <1>5, <4>1, <4>2
    <3>2. TypeOK'
      BY <1>5, TypeStep DEF Next, Step, ResolveStep
    <3>3. models'[req[c].model].version \in Nat
      BY <2>1, <3>2 DEF TypeOK, ModelWallet
    <3>4. ModelSaw(c)'
      BY <3>1, <3>3 DEF ModelSaw
    <3> QED
      BY <2>2, <3>4 DEF SnapshotOK
  <2>3. CASE pc'[c] \notin Reading
    BY <1>1, <2>3
  <2> QED
    BY <1>0, <1>5, <2>2, <2>3 DEF ReadModel, CreateModel, AfterReadModel, TypeOK
<1>6. CASE CasUser(c)
  <2>1. pc'[c] \notin Reading \/ (pc'[c] = "casModel" /\ req[c].kind = "partial")
    BY <1>0, <1>6 DEF CasUser, TypeOK
  <2>2. req' = req /\ models' = models /\ sawModel' = sawModel /\ pc[c] = "casUser"
    BY <1>6 DEF CasUser
  <2>3. req[c].kind = "partial" => ModelSaw(c)'
    BY <2>2 DEF SnapshotsOK, ModelSaw
  <2> QED
    BY <2>1, <2>2, <2>3 DEF SnapshotOK
<1>7. CASE Lock(c) \/ CasModel(c) \/ Unlock(c) \/ Finalize(c) \/ Record(c) \/ RecordSettle(c)
  <2>1. pc'[c] \notin Reading
    BY <1>0, <1>7 DEF Lock, CasModel, Unlock, Finalize, Record, RecordSettle,
       AfterRefundEntry, TypeOK
  <2> QED
    BY <1>1, <2>1
<1> QED
  BY <1>2, <1>3, <1>4, <1>5, <1>6, <1>7 DEF Step, ResolveStep

\* Every step of the system keeps the snapshots valid.
LEMMA SnapshotsStep ==
    ASSUME Shape, EscrowLockExclusive, SnapshotsOK, [Next]_vars
    PROVE  SnapshotsOK'
<1>1. SUFFICES ASSUME NEW d \in Calls PROVE SnapshotOK(d)'
  BY DEF SnapshotsOK, SnapshotOK
<1>2. ASSUME NEW c \in Calls, Call(c) \/ Step(c) PROVE SnapshotOK(d)'
  <2>1. CASE d = c
    BY <1>2, <2>1, SnapshotMoved
  <2>2. CASE d # c
    BY <1>2, <2>2, StepFrame, SnapshotKept DEF Frame, Shape
  <2> QED
    BY <2>1, <2>2
<1>3. CASE \/ \E c \in Calls : Crash(c)
           \/ \E u \in Users : OtherWrite(u)
           \/ UNCHANGED vars
  <2>1. pc' = pc /\ req' = req /\ sawWallet' = sawWallet /\ sawModel' = sawModel
    BY <1>3 DEF Crash, OtherWrite, vars
  <2> QED
    BY <2>1, SnapshotKept
<1> QED
  BY <1>2, <1>3 DEF Next

-----------------------------------------------------------------------------
(* Each item belongs to one hold.                                           *)

\* What HoldPcOK says of one call.
CallPcOK(c) ==
    /\ pc[c] \in {"idle", "claim", "readWallet", "createWallet", "createItem"}
          => req[c].kind \in Resolving \cup {"none"} \/ req[c].escrow = Null
    /\ req[c].kind = "hold" =>
          (applied[c] = {} <=> pc[c] \notin {"debit", "credit", "publish", "returned"})
    /\ pc[c] = "idle" => applied[c] = {}

\* A call has written a wallet just when its program point says so.
LEMMA HoldPcStep ==
    ASSUME Shape, HoldPcOK, [Next]_vars
    PROVE  HoldPcOK'
<1> USE DEF Shape
<1>1. SUFFICES ASSUME NEW d \in Calls PROVE CallPcOK(d)'
  BY DEF HoldPcOK, CallPcOK
<1>2. CallPcOK(d)
  BY DEF HoldPcOK, CallPcOK
<1>3. ASSUME NEW c \in Calls, Call(c) \/ Step(c), c # d PROVE CallPcOK(d)'
  BY <1>2, <1>3, StepFrame DEF Frame, CallPcOK
<1>4. CASE Call(d)
  <2>1. PICK r \in Requests : req' = [req EXCEPT ![d] = r]
    BY <1>4 DEF Call
  <2>2. /\ req'[d] = r /\ pc'[d] = "claim" /\ pc[d] = "idle" /\ applied'[d] = applied[d]
    BY <1>4, <2>1 DEF Call, TypeOK
  <2> QED
    BY <1>2, <2>2, CallerRequest DEF CallPcOK, Kinds
<1>5. CASE Claim(d)
  <2>1. /\ pc[d] = "claim" /\ pc'[d] \in {"thrown", "readWallet", "lock"}
        /\ req' = req /\ applied' = applied
    BY <1>5 DEF Claim, TypeOK
  <2> QED
    BY <1>2, <2>1 DEF CallPcOK
<1>6. CASE HoldStep(d)
  <2>1. req[d].kind = "hold" /\ req[d] \in Request
    BY <1>6, HoldFields DEF HoldStep, HoldRead, HoldCreateWallet, HoldCreateItem,
       HoldCasWallet, HoldDeleteItem, HoldDebit, HoldCredit, HoldPublish, HoldSteps, IsHold
  <2>2. CASE HoldCreateItem(d)
    <3>1. /\ pc[d] = "createItem" /\ pc'[d] \in {"thrown", "casWallet"}
          /\ applied' = applied
      BY <2>2 DEF HoldCreateItem, TypeOK
    <3> QED
      BY <1>2, <2>1, <3>1 DEF CallPcOK
  <2>3. CASE HoldDeleteItem(d)
    <3>1. /\ pc[d] = "deleteItem" /\ pc'[d] \in {"thrown", "readWallet"}
          /\ applied' = applied /\ req'[d] = [req[d] EXCEPT !.escrow = Null]
      BY <2>3 DEF HoldDeleteItem, TypeOK
    <3>2. req'[d].escrow = Null /\ req'[d].kind = "hold"
      BY <2>1, <3>1 DEF Request
    <3> QED
      BY <1>2, <2>1, <3>1, <3>2 DEF CallPcOK
  <2>4. CASE HoldRead(d) \/ HoldCreateWallet(d)
    <3>1. /\ pc[d] \in {"readWallet", "createWallet"}
          /\ pc'[d] \in {"createWallet", "thrown", "createItem"}
          /\ applied' = applied /\ req' = req
      BY <2>4 DEF HoldRead, HoldCreateWallet, TypeOK
    <3> QED
      BY <1>2, <2>1, <3>1 DEF CallPcOK
  <2>5. CASE HoldCasWallet(d)
    <3>1. /\ pc[d] = "casWallet" /\ req' = req
          /\ \/ pc'[d] = "debit" /\ applied'[d] = applied[d] \cup {"user"}
             \/ pc'[d] = "deleteItem" /\ applied' = applied
      BY <2>5 DEF HoldCasWallet, TypeOK
    <3>2. applied[d] \cup {"user"} # {}
      OBVIOUS
    <3> QED
      BY <1>2, <2>1, <3>1, <3>2 DEF CallPcOK
  <2>6. CASE HoldDebit(d) \/ HoldCredit(d) \/ HoldPublish(d)
    <3>1. /\ pc[d] \in {"debit", "credit", "publish"}
          /\ pc'[d] \in {"credit", "publish", "returned"}
          /\ applied' = applied /\ req' = req
      BY <2>6 DEF HoldDebit, HoldCredit, HoldPublish, TypeOK
    <3> QED
      BY <1>2, <2>1, <3>1 DEF CallPcOK
  <2> QED
    BY <1>6, <2>2, <2>3, <2>4, <2>5, <2>6 DEF HoldStep
<1>7. CASE ResolveStep(d)
  <2>1. req[d].kind \in Resolving /\ req' = req
    BY <1>7, ResolveFields DEF ResolveStep, Lock, ReadUser, ReadModel, CreateModel,
       CasModel, CasUser, Unlock, Finalize, Record, RecordSettle, LockedSteps, IsResolve
  <2>2. pc'[d] # "idle" /\ req[d].kind # "hold"
    <3>1. pc'[d] \in {"thrown", "record", "recordSettle", "returned"} \cup LockedSteps
      BY <1>7 DEF ResolveStep, Lock, ReadUser, ReadModel, CreateModel,
       CasModel, CasUser, Unlock, Finalize, Record, RecordSettle, LockedSteps,
       AfterRefundEntry, AfterReadModel, TypeOK
    <3> QED
      BY <2>1, <3>1 DEF LockedSteps, Resolving
  <2> QED
    BY <2>1, <2>2 DEF CallPcOK
<1>8. CASE \/ \E c \in Calls : Crash(c)
           \/ \E u \in Users : OtherWrite(u)
           \/ UNCHANGED vars
  <2>1. pc' = pc /\ req' = req /\ applied' = applied
    BY <1>8 DEF Crash, OtherWrite, vars
  <2> QED
    BY <1>2, <2>1 DEF CallPcOK
<1> QED
  BY <1>3, <1>4, <1>5, <1>6, <1>7, <1>8 DEF Next, Step

\* Holds and items stay matched in a step that writes neither of them.
LEMMA HoldsKept ==
    ASSUME Holds, items' = items, announced' = announced, req' = req,
           \A d \in Calls : applied'[d] = {} => applied[d] = {}
    PROVE  HoldsOK' /\ AnnouncedOK'
BY DEF Holds, HoldsOK, AnnouncedOK, Unfunded

\* Holds and items stay matched when a hold creates its item.
LEMMA HoldsCreate ==
    ASSUME Shape, Holds, NEW c \in Calls, HoldCreateItem(c)
    PROVE  HoldsOK' /\ AnnouncedOK'
<1> USE DEF Shape
<1>1. IsHold(c) /\ req[c].escrow = Null
  BY HoldFields DEF HoldCreateItem, HoldSteps, IsHold, Holds, HoldPcOK, Resolving
<1>2. CASE items' = items /\ req' = req
  BY <1>2, HoldsKept DEF HoldCreateItem
<1>3. ASSUME NEW e \in EscrowIds, items[e].status = "none",
             items' = [items EXCEPT ![e] =
                         [status |-> "held", user |-> req[c].user,
                          amount |-> req[c].amount, queueItem |-> req[c].queueItem]],
             req' = [req EXCEPT ![c].escrow = e]
      PROVE  HoldsOK' /\ AnnouncedOK'
  <2>1. announced' = announced /\ applied' = applied
    BY DEF HoldCreateItem
  <2>2. req'[c].kind = "hold" /\ req'[c].escrow = e
    BY <1>1, <1>3 DEF IsHold, Request, TypeOK
  <2>3. \A d \in Calls \ {c} : req'[d] = req[d]
    BY <1>3 DEF TypeOK
  <2>4. items'[e].status = "held" /\ \A x \in EscrowIds \ {e} : items'[x] = items[x]
    BY <1>3 DEF TypeOK
  <2>5. e # Null /\ e \notin announced
    BY <1>3, NullAssumption DEF Holds, AnnouncedOK
  <2>6. \A d \in Calls : req[d].kind = "hold" => req[d].escrow # e
    BY <1>3, <2>5 DEF Holds, HoldsOK
  <2>7. \A d \in Calls : req[d].escrow \in EscrowIds \cup {Null}
    BY DEF TypeOK, Request
  <2>8. announced \subseteq EscrowIds
    BY DEF TypeOK
  <2>9. HoldsOK'
    BY <2>1, <2>2, <2>3, <2>4, <2>5, <2>6, <2>7 DEF Holds, HoldsOK
  <2>10. AnnouncedOK'
    BY <2>1, <2>2, <2>3, <2>4, <2>5, <2>8 DEF Holds, AnnouncedOK, Unfunded
  <2> QED
    BY <2>9, <2>10
<1> QED
  BY <1>2, <1>3 DEF HoldCreateItem

\* They stay matched when a hold deletes its item.
LEMMA HoldsDelete ==
    ASSUME Shape, Holds, NEW c \in Calls, HoldDeleteItem(c)
    PROVE  HoldsOK' /\ AnnouncedOK'
<1> USE DEF Shape
<1> DEFINE e == req[c].escrow
<1>1. /\ req[c].kind = "hold" /\ e \in EscrowIds /\ e \notin announced
      /\ items' = [items EXCEPT ![e] = NoItem]
  BY DeletedItem
<1>2. req' = [req EXCEPT ![c].escrow = Null] /\ announced' = announced
      /\ applied' = applied
  BY DEF HoldDeleteItem
<1>3. req'[c].escrow = Null /\ req'[c].kind = "hold"
  BY <1>1, <1>2 DEF TypeOK, Request
<1>4. \A d \in Calls \ {c} : req'[d] = req[d]
  BY <1>2 DEF TypeOK
<1>5. \A x \in EscrowIds \ {e} : items'[x] = items[x]
  BY <1>1 DEF TypeOK
<1>6. \A d \in Calls \ {c} : req[d].kind = "hold" => req[d].escrow # e
  BY <1>1, NullAssumption DEF Holds, HoldsOK
<1>7. /\ \A d \in Calls : req[d].escrow \in EscrowIds \cup {Null}
      /\ announced \subseteq EscrowIds /\ Null \notin EscrowIds
  BY NullAssumption DEF TypeOK, Request
<1>8. HoldsOK'
  BY <1>2, <1>3, <1>4, <1>5, <1>6, <1>7 DEF Holds, HoldsOK
<1>9. AnnouncedOK'
  BY <1>1, <1>2, <1>3, <1>4, <1>5, <1>7 DEF Holds, AnnouncedOK, Unfunded
<1> QED
  BY <1>8, <1>9

\* They stay matched when an operation locks an item or gives it up.
LEMMA HoldsStatus ==
    ASSUME Shape, EscrowLockExclusive, Holds, NEW c \in Calls, items' # items,
           Lock(c) \/ Unlock(c) \/ Finalize(c)
    PROVE  HoldsOK' /\ AnnouncedOK'
<1> USE DEF Shape
<1> DEFINE e == req[c].escrow
<1>1. PICK s : /\ e \in announced /\ e \in EscrowIds
               /\ s \in {"held"} \cup Processing \cup Processed
               /\ items' = [items EXCEPT ![e].status = s]
  BY StatusWriters
<1>2. s # "none"
  BY <1>1 DEF Processing, Processed
<1>3. /\ items'[e].status = s
      /\ \A x \in EscrowIds \ {e} : items'[x] = items[x]
  BY <1>1 DEF TypeOK, Item
<1>4. announced' = announced /\ req' = req /\ applied' = applied
  BY DEF Lock, Unlock, Finalize
<1>5. /\ \A d \in Calls : req[d].escrow \in EscrowIds \cup {Null}
      /\ announced \subseteq EscrowIds
  BY DEF TypeOK, Request
<1>6. HoldsOK'
  BY <1>1, <1>2, <1>3, <1>4, <1>5 DEF Holds, HoldsOK
<1>7. AnnouncedOK'
  BY <1>2, <1>3, <1>4, <1>5 DEF Holds, AnnouncedOK, Unfunded
<1> QED
  BY <1>6, <1>7

\* They stay matched when a hold returns.
LEMMA HoldsPublish ==
    ASSUME Shape, Holds, NEW c \in Calls, HoldPublish(c)
    PROVE  HoldsOK' /\ AnnouncedOK'
<1> USE DEF Shape
<1> DEFINE e == req[c].escrow
<1>1. /\ announced' = announced \cup {e} /\ items' = items /\ req' = req
      /\ applied' = applied /\ pc[c] = "publish"
  BY DEF HoldPublish
<1>2. req[c].kind = "hold" /\ e \in EscrowIds /\ e # Null
  BY <1>1, RequestFields, NullAssumption DEF RequestOK, HoldSteps
<1>3. applied[c] # {}
  BY <1>1, <1>2 DEF Holds, HoldPcOK
<1>4. \A d \in Calls \ {c} : req[d].kind = "hold" => req[d].escrow # e
  BY <1>2 DEF Holds, HoldsOK
<1>5. items[e].status # "none"
  BY <1>2 DEF Holds, HoldsOK
<1>6. HoldsOK'
  BY <1>1, <1>3, <1>4 DEF Holds, HoldsOK
<1>7. AnnouncedOK'
  BY <1>1, <1>3, <1>4, <1>5 DEF Holds, AnnouncedOK, Unfunded
<1> QED
  BY <1>6, <1>7

\* They stay matched when a call enters the service.
LEMMA HoldsCall ==
    ASSUME Shape, Holds, NEW c \in Calls, Call(c)
    PROVE  HoldsOK' /\ AnnouncedOK'
<1> USE DEF Shape
<1>1. PICK r \in Requests : req' = [req EXCEPT ![c] = r]
  BY DEF Call
<1>2. items' = items /\ announced' = announced /\ applied' = applied
  BY DEF Call
<1>3. req'[c] = r /\ \A d \in Calls \ {c} : req'[d] = req[d]
  BY <1>1 DEF TypeOK
<1>4. r.kind = "hold" => r.escrow = Null
  BY CallerRequest
<1>5. announced \subseteq EscrowIds /\ Null \notin EscrowIds
  BY NullAssumption DEF TypeOK
<1>6. HoldsOK'
  BY <1>2, <1>3, <1>4 DEF Holds, HoldsOK
<1>7. AnnouncedOK'
  BY <1>2, <1>3, <1>4, <1>5 DEF Holds, AnnouncedOK, Unfunded
<1> QED
  BY <1>6, <1>7

\* Every step of the system keeps holds and items matched.
LEMMA HoldsStep ==
    ASSUME Shape, EscrowLockExclusive, Holds, [Next]_vars
    PROVE  Holds'
<1> USE DEF Shape
<1>1. ASSUME NEW c \in Calls, Claim(c) \/ Crash(c) PROVE HoldsOK' /\ AnnouncedOK'
  BY <1>1, HoldsKept DEF Claim, Crash
<1>2. ASSUME NEW c \in Calls, HoldStep(c) PROVE HoldsOK' /\ AnnouncedOK'
  <2>1. CASE HoldRead(c) \/ HoldCreateWallet(c) \/ HoldDebit(c) \/ HoldCredit(c)
    BY <2>1, HoldsKept DEF HoldRead, HoldCreateWallet, HoldDebit, HoldCredit
  <2>2. CASE HoldCasWallet(c)
    <3>1. \A d \in Calls : applied'[d] = {} => applied[d] = {}
      BY <2>2 DEF HoldCasWallet, TypeOK
    <3> QED
      BY <2>2, <3>1, HoldsKept DEF HoldCasWallet
  <2> QED
    BY <1>2, <2>1, <2>2, HoldsCreate, HoldsDelete, HoldsPublish DEF HoldStep
<1>3. ASSUME NEW c \in Calls, ResolveStep(c) PROVE HoldsOK' /\ AnnouncedOK'
  <2>1. CASE \/ ReadUser(c) \/ ReadModel(c) \/ CreateModel(c) \/ Record(c)
             \/ RecordSettle(c)
    BY <2>1, HoldsKept DEF ReadUser, ReadModel, CreateModel, Record, RecordSettle
  <2>2. CASE CasModel(c) \/ CasUser(c)
    <3>1. \A d \in Calls : applied'[d] = {} => applied[d] = {}
      BY <2>2 DEF CasModel, CasUser, TypeOK
    <3> QED
      BY <2>2, <3>1, HoldsKept DEF CasModel, CasUser
  <2>3. CASE Lock(c) \/ Unlock(c) \/ Finalize(c)
    <3>1. CASE items' = items
      BY <2>3, <3>1, HoldsKept DEF Lock, Unlock, Finalize
    <3> QED
      BY <2>3, <3>1, HoldsStatus
  <2> QED
    BY <1>3, <2>1, <2>2, <2>3 DEF ResolveStep
<1>4. ASSUME (\E u \in Users : OtherWrite(u)) \/ UNCHANGED vars
      PROVE  HoldsOK' /\ AnnouncedOK'
  <2>1. items' = items /\ announced' = announced /\ req' = req /\ applied' = applied
    BY <1>4 DEF OtherWrite, vars
  <2> QED
    BY <2>1, HoldsKept
<1>5. ASSUME NEW c \in Calls, Call(c) PROVE HoldsOK' /\ AnnouncedOK'
  BY <1>5, HoldsCall
<1>6. HoldsOK' /\ AnnouncedOK'
  BY <1>1, <1>2, <1>3, <1>4, <1>5 DEF Next, Step
<1> QED
  BY <1>6, HoldPcStep DEF Holds

-----------------------------------------------------------------------------
(* One key, one effect.                                                     *)

\* No step of a call changes the key or the kind of its request.
LEMMA ScopeKept ==
    ASSUME TypeOK, NEW c \in Calls, Step(c) \/ Crash(c)
    PROVE  Scoped(c)' = Scoped(c)
<1> USE DEF Scoped
<1>1. CASE req' = req
  BY <1>1
<1>2. ASSUME NEW e, req' = [req EXCEPT ![c].escrow = e] PROVE Scoped(c)' = Scoped(c)
  <2>1. req[c] \in Request /\ req'[c] = [req[c] EXCEPT !.escrow = e]
    BY <1>2 DEF TypeOK
  <2> QED
    BY <2>1 DEF Request
<1>3. CASE HoldStep(c)
  BY <1>1, <1>2, <1>3 DEF HoldStep, HoldRead, HoldCreateWallet, HoldCreateItem,
     HoldCasWallet, HoldDeleteItem, HoldDebit, HoldCredit, HoldPublish
<1>4. CASE Claim(c) \/ ResolveStep(c) \/ Crash(c)
  BY <1>1, <1>4 DEF Claim, Crash, ResolveStep, Lock, ReadUser, ReadModel, CreateModel,
     CasModel, CasUser, Unlock, Finalize, Record, RecordSettle
<1> QED
  BY <1>3, <1>4 DEF Step

\* A call gets past its claim only by inserting it.
LEMMA ClaimPassed ==
    ASSUME Shape, KeysOK, NEW c \in Calls, Call(c) \/ Step(c) \/ Crash(c),
           PastClaim(c)'
    PROVE  /\ claims \subseteq claims' /\ Scoped(c)' = Scoped(c)
           /\ pc'[c] \notin {"idle", "claim"} /\ Scoped(c) \in claims'
           /\ PastClaim(c) \/ Scoped(c) \notin claims
<1> USE DEF Shape
<1>0. pc[c] \in {"idle", "claim"} => applied[c] = {}
  BY DEF KeysOK, PastClaim
<1>1. CASE Call(c)
  <2>1. pc[c] = "idle" /\ pc'[c] = "claim" /\ applied'[c] = applied[c]
    BY <1>1 DEF Call, TypeOK
  <2> QED
    BY <1>0, <2>1 DEF PastClaim
<1>2. CASE Claim(c)
  <2>1. /\ pc[c] = "claim" /\ applied' = applied
        /\ pc'[c] \in {"thrown", "readWallet", "lock"}
        /\ pc'[c] # "thrown" => Scoped(c) \notin claims
        /\ claims' = claims \cup {Scoped(c)}
    BY <1>2 DEF Claim, ClaimedBefore, Scoped, TypeOK
  <2> QED
    BY <1>0, <1>2, <2>1, ScopeKept DEF PastClaim, Step
<1>3. ASSUME pc[c] \notin {"idle", "claim", "thrown"}, claims' = claims,
             pc'[c] \notin {"idle", "claim"}, Step(c)
      PROVE  /\ claims \subseteq claims' /\ Scoped(c)' = Scoped(c)
             /\ pc'[c] \notin {"idle", "claim"} /\ Scoped(c) \in claims'
             /\ PastClaim(c)
  BY <1>3, ScopeKept DEF KeysOK, PastClaim
<1>4. CASE HoldStep(c)
  <2>1. pc[c] \notin {"idle", "claim", "thrown"} /\ claims' = claims
        /\ pc'[c] \notin {"idle", "claim"}
    BY <1>4 DEF HoldStep, HoldRead, HoldCreateWallet, HoldCreateItem, HoldCasWallet,
       HoldDeleteItem, HoldDebit, HoldCredit, HoldPublish, TypeOK
  <2> QED
    BY <1>3, <1>4, <2>1 DEF Step
<1>5. CASE ResolveStep(c)
  <2>1. pc[c] \notin {"idle", "claim", "thrown"} /\ claims' = claims
        /\ pc'[c] \notin {"idle", "claim"}
    BY <1>5 DEF ResolveStep, Lock, ReadUser, ReadModel, CreateModel, CasModel, CasUser,
       Unlock, Finalize, Record, RecordSettle, AfterReadModel, AfterRefundEntry, TypeOK
  <2> QED
    BY <1>3, <1>5, <2>1 DEF Step
<1>6. CASE Crash(c)
  <2>1. claims' = claims /\ pc' = pc /\ applied' = applied
    BY <1>6 DEF Crash
  <2> QED
    BY <1>6, <2>1, ScopeKept DEF KeysOK, PastClaim
<1> QED
  BY <1>1, <1>2, <1>4, <1>5, <1>6 DEF Step

\* Every step of the system keeps the keys in the hands of one call each.
LEMMA KeysStep ==
    ASSUME Shape, KeysOK, [Next]_vars
    PROVE  KeysOK'
<1>1. ASSUME NEW c \in Calls, Call(c) \/ Step(c) \/ Crash(c) PROVE KeysOK'
  <2>1. ASSUME NEW d \in Calls, d # c
        PROVE  /\ PastClaim(d)' <=> PastClaim(d) /\ Scoped(d)' = Scoped(d)
               /\ pc'[d] = pc[d]
    BY <1>1, <2>1, StepFrame DEF Frame, PastClaim, Scoped, Shape
  <2>2. claims \subseteq claims'
    BY <1>1 DEF Call, Crash, Step, Claim, HoldStep, HoldRead, HoldCreateWallet,
       HoldCreateItem, HoldCasWallet, HoldDeleteItem, HoldDebit, HoldCredit, HoldPublish,
       ResolveStep, Lock, ReadUser, ReadModel, CreateModel, CasModel, CasUser, Unlock,
       Finalize, Record, RecordSettle
  <2>3. PastClaim(c)' => /\ pc'[c] \notin {"idle", "claim"} /\ Scoped(c) \in claims'
                         /\ Scoped(c)' = Scoped(c)
                         /\ PastClaim(c) \/ Scoped(c) \notin claims
    BY <1>1, ClaimPassed
  <2> QED
    BY <2>1, <2>2, <2>3 DEF KeysOK
<1>2. ASSUME (\E u \in Users : OtherWrite(u)) \/ UNCHANGED vars PROVE KeysOK'
  <2>1. pc' = pc /\ req' = req /\ applied' = applied /\ claims' = claims
    BY <1>2 DEF OtherWrite, vars
  <2> QED
    BY <2>1 DEF KeysOK, PastClaim, Scoped
<1> QED
  BY <1>1, <1>2 DEF Next

-----------------------------------------------------------------------------
(* The invariant and what follows from it.                                  *)

\* The initial state satisfies the invariant.
LEMMA InitInvariant ==
    ASSUME Init
    PROVE  IInv
<1> USE DEF Init
<1>1. NoWallet \in Wallet /\ OldWallet \in Wallet
      /\ NoWallet.available \in Nat /\ OldWallet.available \in Nat
  BY BalanceAssumption DEF NoWallet, OldWallet, Wallet
<1>2. \A u \in Users : wallets[u] \in {NoWallet, OldWallet}
  OBVIOUS
<1>3. TypeOK
  <2>1. wallets \in [Users -> Wallet]
    BY <1>1
  <2>2. NoModelWallet \in ModelWallet
    BY DEF NoModelWallet, ModelWallet
  <2>3. NoItem \in Item
    BY DEF NoItem, Item, Points, Statuses
  <2>4. NoRequest \in Request
    BY DEF NoRequest, Request, Points
  <2>5. attempts \in [Calls -> 0 .. MaxAttempts - 1]
    BY BoundsAssumption
  <2>6. others \in [Users -> [count: 0 .. MaxOthers, net: Int]]
    <3>1. \A u \in Users : wallets[u].available \in Int
      BY <1>1, <1>2
    <3>2. 0 \in 0 .. MaxOthers
      BY BoundsAssumption
    <3> QED
      BY <3>1, <3>2
  <2>7. "idle" \in Steps
    BY DEF Steps
  <2> QED
    BY <1>1, <2>1, <2>2, <2>3, <2>4, <2>5, <2>6, <2>7 DEF TypeOK
<1>4. RequestsOK
  BY DEF RequestsOK, RequestOK, NoRequest, HoldSteps, LockedSteps, Resolving
<1>5. ItemsOK
  BY DEF ItemsOK, NoItem
<1>6. SnapshotsOK
  BY DEF SnapshotsOK
<1>8. EscrowLockExclusive
  BY DEF EscrowLockExclusive, HoldsLock, NoRequest, Resolving
<1>9. Holds
  BY DEF Holds, HoldsOK, HoldPcOK, AnnouncedOK, NoRequest, Resolving
<1>10. KeysOK
  BY DEF KeysOK, PastClaim
<1> QED
  BY <1>3, <1>4, <1>5, <1>6, <1>8, <1>9, <1>10 DEF IInv, Shape

\* Every step preserves the invariant.
LEMMA NextInvariant ==
    ASSUME IInv, [Next]_vars
    PROVE  IInv'
BY ShapeStep, SnapshotsStep, LockStep, HoldsStep,
   KeysStep DEF IInv

\* The invariant holds of every reachable state, whatever the calls of
\* WalletService ask for and however they interleave, conflict and die.
THEOREM Invariant == Spec => []IInv
<1>1. Init => IInv
  BY InitInvariant
<1>2. IInv /\ [Next]_vars => IInv'
  BY NextInvariant
<1> QED
  BY <1>1, <1>2, PTL DEF Spec

\* Every document and every call keeps its type: among others, the retries of
\* holdInEscrow stay below config.maxRetryAttempts.
THEOREM TypeCorrect == Spec => []TypeOK
<1>1. IInv => TypeOK
  BY DEF IInv, Shape
<1> QED
  BY <1>1, Invariant, PTL

\* The write of a hold, seen from the wallet it reads in the same step.
LEMMA HoldTakes ==
    ASSUME IInv, [Next]_vars, NEW c \in Calls, Took(c)
    PROVE  /\ wallets[req[c].user].available >= req[c].amount
           /\ wallets'[req[c].user].available
                  = wallets[req[c].user].available - req[c].amount
<1> DEFINE u == req[c].user
<1> USE DEF IInv, Shape
<1>1. HoldCasWallet(c)
  <2>1. ASSUME NEW d \in Calls, d # c, Call(d) \/ Step(d) PROVE applied'[c] = applied[c]
    BY <2>1, StepFrame DEF Frame
  <2>2. applied' # applied
    BY DEF Took
  <2>3. ASSUME Call(c) \/ Step(c) PROVE HoldCasWallet(c)
    <3>1. req[c].kind = "hold" /\ RequestOK(c)
      BY DEF Took, RequestsOK
    <3>2. ~CasModel(c) /\ ~CasUser(c)
      BY <3>1 DEF CasModel, CasUser, At, RequestOK, LockedSteps, Resolving
    <3> QED
      BY <2>2, <2>3, <3>2 DEF Call, Step, Claim, HoldStep, ResolveStep, HoldRead,
         HoldCreateWallet, HoldCreateItem, HoldDeleteItem, HoldDebit, HoldCredit,
         HoldPublish, Lock, ReadUser, ReadModel, CreateModel, Unlock, Finalize,
         Record, RecordSettle
  <2> QED
    BY <2>1, <2>2, <2>3 DEF Next, Crash, OtherWrite, vars, Took
<1>2. HoldSaw(c) /\ SameVersion(c) /\ u \in Users
  BY <1>1, HoldFields DEF HoldCasWallet, HoldSteps, SnapshotsOK, Took, At, IsHold
<1>3. sawWallet[c] = wallets[u]
  BY <1>2 DEF HoldSaw, SameVersion, Payer, Took
<1>4. wallets'[u].available = sawWallet[c].available - req[c].amount
  BY <1>1, <1>2 DEF HoldCasWallet, TypeOK
<1> QED
  BY <1>2, <1>3, <1>4 DEF HoldSaw

\* The optimistic lock of holdInEscrow protects its balance check: the points a
\* hold takes are there when it takes them, also if corrections of the admin
\* service take balances below zero in between.
THEOREM HoldsSpendWhatIsThere == Spec => HoldSpendsCurrentPoints
<1>1. IInv /\ [Next]_vars =>
        [\A c \in Calls : Took(c) =>
          LET u == req[c].user IN
          /\ wallets[u].available >= req[c].amount
          /\ wallets'[u].available = wallets[u].available - req[c].amount]_vars
  BY HoldTakes
<1> QED
  BY <1>1, Invariant, PTL DEF Spec, HoldSpendsCurrentPoints

\* The conditional update from "held" is a lock: settleEscrow, refundEscrow and
\* partialSettleEscrow never process one item at the same time.
THEOREM LockExclusive == Spec => []EscrowLockExclusive
<1>1. IInv => EscrowLockExclusive
  BY DEF IInv
<1> QED
  BY <1>1, Invariant, PTL

\* claimIdempotency makes an operation happen at most once: one key moves points
\* in one scope for one call only, also when that call threw or died halfway.
THEOREM OneEffect == Spec => []OneEffectPerKey
<1>1. IInv => OneEffectPerKey
  BY DEF IInv, KeysOK, PastClaim, Scoped, OneEffectPerKey
<1> QED
  BY <1>1, Invariant, PTL

\* The unconditional updates that finalise an item or roll it back never touch
\* an item that is settled or refunded.
THEOREM FinalIsFinal == Spec => ProcessedIsFinal
<1> DEFINE Kept == \A e \in EscrowIds : items[e].status \in Processed => items'[e] = items[e]
<1>1. ASSUME IInv, [Next]_vars PROVE Kept
  <2> USE DEF IInv, Shape
  <2> SUFFICES ASSUME NEW e \in EscrowIds, items[e].status \in Processed,
                      items' # items
               PROVE  items'[e] = items[e]
    OBVIOUS
  <2>1. PICK c \in Calls : \/ HoldCreateItem(c) \/ HoldDeleteItem(c)
                           \/ Lock(c) \/ Unlock(c) \/ Finalize(c)
    BY <1>1, ItemWriters
  <2>2. items[e].status \notin {"none", "held"} \cup Processing
    BY DEF Processed, Processing
  <2>3. CASE HoldCreateItem(c)
    BY <1>1, <2>2, <2>3 DEF HoldCreateItem, TypeOK
  <2>4. CASE HoldDeleteItem(c)
    BY <1>1, <2>2, <2>4, DeletedItem DEF TypeOK
  <2>5. CASE Lock(c) \/ Unlock(c) \/ Finalize(c)
    <3>1. /\ items[req[c].escrow].status \in {"held"} \cup Processing
          /\ \E s : items' = [items EXCEPT ![req[c].escrow].status = s]
      BY <1>1, <2>5, StatusWriters
    <3> QED
      BY <1>1, <2>2, <3>1 DEF TypeOK
  <2> QED
    BY <2>1, <2>3, <2>4, <2>5
<1>2. IInv /\ [Next]_vars => [Kept]_vars
  BY <1>1
<1> QED
  BY <1>2, Invariant, PTL DEF Spec, ProcessedIsFinal

-----------------------------------------------------------------------------
(* WalletEscrow implements AtomicEscrow: each action is one atomic transfer, *)
(* one move of an item, or a stutter of the abstract specification.          *)

\* The balances that AtomicEscrow speaks of.
Available == [u \in Users |-> wallets[u].available]
Escrow    == [u \in Users |-> wallets[u].escrow]
Earned    == [m \in Models |-> models[m].earned]
Phase     == [e \in EscrowIds |-> PhaseOf(e)]

BalancesKept == Available' = Available /\ Escrow' = Escrow /\ Earned' = Earned

AtomicStep == [Atomic!Next]_(Atomic!vars)

\* The four phases are told apart by the status, once the item is funded.
LEMMA Phases ==
    ASSUME NEW e \in EscrowIds
    PROVE  /\ items[e].status = "none" \/ Unfunded(e) => PhaseOf(e) = "none"
           /\ items[e].status = "held" /\ ~Unfunded(e) => PhaseOf(e) = "held"
           /\ items[e].status \in Processing /\ ~Unfunded(e) => PhaseOf(e) = "busy"
           /\ items[e].status \in Processed /\ ~Unfunded(e) => PhaseOf(e) = "done"
BY DEF PhaseOf, Processing, Processed

\* A step that keeps balances and phases is a stutter.
LEMMA Stutter ==
    ASSUME BalancesKept, Phase' = Phase
    PROVE  AtomicStep
BY DEF AtomicStep, BalancesKept, Available, Escrow, Earned, Phase, Atomic!vars

\* A step that keeps the items and who has funded them keeps the phases.
LEMMA PhaseKept ==
    ASSUME items' = items, \A e \in EscrowIds : Unfunded(e)' <=> Unfunded(e)
    PROVE  Phase' = Phase
<1>1. ASSUME NEW e \in EscrowIds PROVE PhaseOf(e)' = PhaseOf(e)
  BY <1>1 DEF PhaseOf
<1> QED
  BY <1>1 DEF Phase

\* A step that takes one item from a phase to another and keeps the balances is
\* the abstract move of that item.
LEMMA PhaseMoved ==
    ASSUME BalancesKept, NEW e \in EscrowIds, NEW from, NEW to,
           <<from, to>> \in {<<"held", "busy">>, <<"busy", "held">>, <<"busy", "done">>},
           PhaseOf(e) = from, Phase' = [Phase EXCEPT ![e] = to]
    PROVE  AtomicStep
<1>1. Atomic!Move(e, from, to)
  BY DEF Atomic!Move, BalancesKept, Available, Escrow, Earned, Phase
<1>2. Atomic!Begin(e) \/ Atomic!Abort(e) \/ Atomic!Finish(e)
  BY <1>1 DEF Atomic!Begin, Atomic!Abort, Atomic!Finish
<1> QED
  BY <1>2 DEF AtomicStep, Atomic!Next

\* The initial states are abstract initial states.
LEMMA RefinedInit ==
    ASSUME Init
    PROVE  Atomic!Init
<1> USE DEF Init
<1>1. \A u \in Users : wallets[u].available \in Nat /\ wallets[u].escrow = 0
  BY BalanceAssumption DEF NoWallet, OldWallet
<1>2. \A e \in EscrowIds : PhaseOf(e) = "none"
  BY Phases DEF NoItem
<1>3. \A m \in Models : models[m].earned = 0
  BY DEF NoModelWallet
<1> QED
  BY <1>1, <1>2, <1>3 DEF Atomic!Init

-----------------------------------------------------------------------------
(* Steps that do not show.                                                  *)

\* Steps that write no document and move no request.
LEMMA SilentStep ==
    ASSUME wallets' = wallets, models' = models, items' = items, req' = req,
           applied' = applied
    PROVE  AtomicStep
<1>1. BalancesKept
  BY DEF BalancesKept, Available, Escrow, Earned
<1>2. \A e \in EscrowIds : Unfunded(e)' <=> Unfunded(e)
  BY DEF Unfunded
<1> QED
  BY <1>1, <1>2, PhaseKept, Stutter

\* A call that enters the service owns no item yet.
LEMMA CallStutters ==
    ASSUME IInv, NEW c \in Calls, Call(c)
    PROVE  AtomicStep
<1> USE DEF IInv, Shape
<1>1. BalancesKept /\ items' = items /\ applied' = applied
  BY DEF Call, BalancesKept, Available, Escrow, Earned
<1>2. PICK r \in Requests : req' = [req EXCEPT ![c] = r]
  BY DEF Call
<1>3. req'[c] = r /\ \A d \in Calls \ {c} : req'[d] = req[d]
  BY <1>2 DEF TypeOK
<1>4. r.kind = "hold" => r.escrow = Null
  BY CallerRequest
<1>5. req[c].kind = "none"
  BY RequestFields DEF Call, RequestOK
<1>6. ASSUME NEW e \in EscrowIds PROVE Unfunded(e)' <=> Unfunded(e)
  <2>1. e # Null
    BY NullAssumption
  <2> QED
    BY <1>1, <1>3, <1>4, <1>5, <2>1 DEF Unfunded
<1> QED
  BY <1>1, <1>6, PhaseKept, Stutter

\* A wallet created empty changes no balance.
LEMMA CreateWalletStutters ==
    ASSUME IInv, NEW c \in Calls, HoldCreateWallet(c)
    PROVE  AtomicStep
<1> USE DEF IInv, Shape
<1>1. ASSUME NEW u \in Users
      PROVE  /\ wallets'[u].available = wallets[u].available
             /\ wallets'[u].escrow = wallets[u].escrow
  <2>1. wallets[u] \in Wallet
    BY DEF TypeOK
  <2>2. wallets'[u] \in {wallets[u], [wallets[u] EXCEPT !.present = TRUE]}
    BY DEF HoldCreateWallet, TypeOK
  <2> QED
    BY <2>1, <2>2 DEF Wallet
<1>2. BalancesKept
  BY <1>1 DEF HoldCreateWallet, BalancesKept, Available, Escrow, Earned
<1>3. \A e \in EscrowIds : Unfunded(e)' <=> Unfunded(e)
  BY DEF HoldCreateWallet, Unfunded
<1> QED
  BY <1>2, <1>3, PhaseKept, Stutter DEF HoldCreateWallet

\* The same of a model wallet.
LEMMA CreateModelStutters ==
    ASSUME IInv, NEW c \in Calls, CreateModel(c)
    PROVE  AtomicStep
<1> USE DEF IInv, Shape
<1>1. ASSUME NEW m \in Models PROVE models'[m].earned = models[m].earned
  <2>1. models[m] \in ModelWallet
    BY DEF TypeOK
  <2>2. models'[m] \in {models[m], [models[m] EXCEPT !.present = TRUE]}
    BY DEF CreateModel, TypeOK
  <2> QED
    BY <2>1, <2>2 DEF ModelWallet
<1>2. BalancesKept
  BY <1>1 DEF CreateModel, BalancesKept, Available, Escrow, Earned
<1>3. \A e \in EscrowIds : Unfunded(e)' <=> Unfunded(e)
  BY DEF CreateModel, Unfunded
<1> QED
  BY <1>2, <1>3, PhaseKept, Stutter DEF CreateModel

\* The item of a hold that has not moved its points is not there for anyone.
LEMMA CreateItemStutters ==
    ASSUME IInv, NEW c \in Calls, HoldCreateItem(c)
    PROVE  AtomicStep
<1> USE DEF IInv, Shape
<1>1. BalancesKept /\ applied' = applied
  BY DEF HoldCreateItem, BalancesKept, Available, Escrow, Earned
<1>2. IsHold(c) /\ req[c].escrow = Null /\ applied[c] = {}
  BY HoldFields DEF HoldCreateItem, HoldSteps, IsHold, Holds, HoldPcOK, Resolving
<1>3. CASE items' = items /\ req' = req
  BY <1>1, <1>3, SilentStep DEF HoldCreateItem
<1>4. ASSUME NEW e \in EscrowIds, items[e].status = "none", NEW i,
             items' = [items EXCEPT ![e] = i],
             req' = [req EXCEPT ![c].escrow = e]
      PROVE  AtomicStep
  <2>1. req'[c].kind = "hold" /\ req'[c].escrow = e
    BY <1>2, <1>4 DEF IsHold, Request, TypeOK
  <2>2. \A d \in Calls \ {c} : req'[d] = req[d]
    BY <1>4 DEF TypeOK
  <2>3. \A x \in EscrowIds \ {e} : items'[x] = items[x]
    BY <1>4 DEF TypeOK
  <2>4. PhaseOf(e) = "none" /\ PhaseOf(e)' = "none"
    <3>1. Unfunded(e)'
      BY <1>1, <1>2, <2>1 DEF Unfunded
    <3> QED
      BY <1>4, <3>1 DEF PhaseOf
  <2>5. ASSUME NEW x \in EscrowIds \ {e} PROVE PhaseOf(x)' = PhaseOf(x)
    <3>1. Unfunded(x)' <=> Unfunded(x)
      BY <1>1, <1>2, <2>1, <2>2, NullAssumption DEF Unfunded
    <3> QED
      BY <2>3, <3>1 DEF PhaseOf
  <2>6. Phase' = Phase
    BY <2>4, <2>5 DEF Phase
  <2> QED
    BY <1>1, <2>6, Stutter
<1> QED
  BY <1>3, <1>4 DEF HoldCreateItem

\* Nor is its deletion seen.
LEMMA DeleteItemStutters ==
    ASSUME IInv, NEW c \in Calls, HoldDeleteItem(c)
    PROVE  AtomicStep
<1> USE DEF IInv, Shape
<1>0. PICK e \in EscrowIds : e = req[c].escrow
  BY DeletedItem
<1>1. BalancesKept /\ applied' = applied /\ req' = [req EXCEPT ![c].escrow = Null]
  BY DEF HoldDeleteItem, BalancesKept, Available, Escrow, Earned
<1>2. /\ req[c].kind = "hold" /\ applied[c] = {}
      /\ items' = [items EXCEPT ![e] = NoItem]
  BY <1>0, DeletedItem
<1>3. req'[c].escrow = Null /\ \A d \in Calls \ {c} : req'[d] = req[d]
  BY <1>1 DEF TypeOK, Request
<1>4. PhaseOf(e) = "none" /\ PhaseOf(e)' = "none"
  <2>1. Unfunded(e)
    BY <1>0, <1>2 DEF Unfunded
  <2>2. items'[e].status = "none"
    BY <1>2 DEF TypeOK, NoItem
  <2> QED
    BY <2>1, <2>2 DEF PhaseOf
<1>5. ASSUME NEW x \in EscrowIds \ {e} PROVE PhaseOf(x)' = PhaseOf(x)
  <2>1. Unfunded(x)' <=> Unfunded(x)
    BY <1>0, <1>1, <1>3, NullAssumption DEF Unfunded
  <2>2. items'[x] = items[x]
    BY <1>2 DEF TypeOK
  <2> QED
    BY <2>1, <2>2 DEF PhaseOf
<1>6. Phase' = Phase
  BY <1>4, <1>5 DEF Phase
<1> QED
  BY <1>1, <1>6, Stutter

-----------------------------------------------------------------------------
(* Steps that do.                                                           *)

\* The accepted $set of a hold is the abstract transfer: what it computed from
\* the wallet it had read is right for the wallet it writes.
LEMMA HoldRefines ==
    ASSUME IInv, NEW c \in Calls, HoldCasWallet(c)
    PROVE  AtomicStep
<1> USE DEF IInv, Shape
<1>1. CASE ~SameVersion(c)
  BY <1>1, SilentStep DEF HoldCasWallet
<1>2. CASE SameVersion(c)
  <2>1. IsHold(c) /\ HoldSaw(c)
    BY HoldFields DEF HoldCasWallet, HoldSteps, SnapshotsOK
  <2>2. PICK e \in EscrowIds, u \in Users, a \in Amounts :
           e = req[c].escrow /\ u = req[c].user /\ a = req[c].amount
    BY <2>1, RequestFields DEF HoldCasWallet, RequestOK, IsHold
  <2>3. /\ sawWallet[c] = wallets[u] /\ wallets[u].available >= a
        /\ wallets[u] \in Wallet
    BY <1>2, <2>1, <2>2 DEF SameVersion, Payer, HoldSaw, IsHold, TypeOK
  <2>4. /\ models' = models /\ items' = items /\ req' = req
        /\ wallets' = [wallets EXCEPT ![u] =
              [present |-> TRUE, available |-> wallets[u].available - a,
               escrow |-> wallets[u].escrow + a, version |-> wallets[u].version + 1]]
        /\ applied' = [applied EXCEPT ![c] = @ \cup {"user"}]
    BY <1>2, <2>2, <2>3 DEF HoldCasWallet
  <2>5. /\ Available' = [Available EXCEPT ![u] = @ - a]
        /\ Escrow' = [Escrow EXCEPT ![u] = @ + a]
        /\ Earned' = Earned
    BY <2>2, <2>4 DEF Available, Escrow, Earned, TypeOK
  <2>6. req[c].kind = "hold" /\ req[c].escrow = e /\ e # Null /\ applied[c] = {}
    BY <2>1, <2>2, NullAssumption DEF HoldCasWallet, IsHold, Holds, HoldPcOK
  <2>7. PhaseOf(e) = "none"
    BY <2>6 DEF PhaseOf, Unfunded
  <2>8. PhaseOf(e)' = "held"
    <3>1. items[e].status = "held"
      BY <2>6 DEF Holds, HoldsOK
    <3>2. \A d \in Calls \ {c} : req[d].kind = "hold" => req[d].escrow # e
      BY <2>6 DEF Holds, HoldsOK
    <3>3. applied'[c] # {}
      BY <2>4 DEF TypeOK
    <3>4. ~Unfunded(e)'
      BY <2>4, <3>2, <3>3 DEF Unfunded
    <3> QED
      BY <2>4, <3>1, <3>4 DEF PhaseOf, Processing, Processed
  <2>9. ASSUME NEW x \in EscrowIds \ {e} PROVE PhaseOf(x)' = PhaseOf(x)
    <3>1. Unfunded(x)' <=> Unfunded(x)
      BY <2>4, <2>6 DEF Unfunded, TypeOK
    <3> QED
      BY <2>4, <3>1 DEF PhaseOf
  <2>10. Phase' = [Phase EXCEPT ![e] = "held"]
    BY <2>8, <2>9 DEF Phase
  <2>11. Atomic!Hold(e, u, a)
    BY <2>2, <2>3, <2>5, <2>7, <2>10
       DEF Atomic!Hold, Available, Escrow, Earned, Phase
  <2> QED
    BY <2>2, <2>11 DEF AtomicStep, Atomic!Next
<1> QED
  BY <1>1, <1>2

\* Locking an item, giving it up and finalising it are the moves of its phase.
LEMMA StatusRefines ==
    ASSUME IInv, NEW c \in Calls, Lock(c) \/ Unlock(c) \/ Finalize(c)
    PROVE  AtomicStep
<1> USE DEF IInv, Shape
<1>1. CASE items' = items
  BY <1>1, SilentStep DEF Lock, Unlock, Finalize
<1>2. CASE items' # items
  <2>1. PICK e \in EscrowIds, s \in {"held"} \cup Processing \cup Processed :
           /\ e = req[c].escrow /\ e \in announced
           /\ IF Lock(c) THEN items[e].status = "held"
                         ELSE items[e].status \in Processing
           /\ s \in Processing <=> Lock(c)
           /\ items' = [items EXCEPT ![e].status = s]
    BY <1>2, StatusWriters
  <2>2. BalancesKept /\ req' = req /\ applied' = applied
    BY DEF Lock, Unlock, Finalize, BalancesKept, Available, Escrow, Earned
  <2>3. \A x \in EscrowIds : Unfunded(x)' <=> Unfunded(x)
    BY <2>2 DEF Unfunded
  <2>4. ~Unfunded(e) /\ ~Unfunded(e)'
    BY <2>1, <2>3 DEF Holds, AnnouncedOK
  <2>5. items'[e].status = s
    BY <2>1 DEF TypeOK, Item
  <2>6. ASSUME NEW x \in EscrowIds \ {e} PROVE PhaseOf(x)' = PhaseOf(x)
    BY <2>1, <2>3, <2>6 DEF PhaseOf, TypeOK
  <2>7. ASSUME NEW to, PhaseOf(e)' = to PROVE Phase' = [Phase EXCEPT ![e] = to]
    BY <2>6, <2>7 DEF Phase
  <2>8. CASE Lock(c)
    <3>1. PhaseOf(e) = "held" /\ PhaseOf(e)' = "busy"
      BY <2>1, <2>4, <2>5, <2>8 DEF PhaseOf, Processing, Processed
    <3> QED
      BY <2>2, <2>7, <3>1, PhaseMoved
  <2>9. CASE ~Lock(c) /\ s = "held"
    <3>1. PhaseOf(e) = "busy" /\ PhaseOf(e)' = "held"
      BY <2>1, <2>4, <2>5, <2>9 DEF PhaseOf, Processing, Processed
    <3> QED
      BY <2>2, <2>7, <3>1, PhaseMoved
  <2>10. CASE ~Lock(c) /\ s \in Processed
    <3>1. PhaseOf(e) = "busy" /\ PhaseOf(e)' = "done"
      BY <2>1, <2>4, <2>5, <2>10 DEF PhaseOf, Processing, Processed
    <3> QED
      BY <2>2, <2>7, <3>1, PhaseMoved
  <2> QED
    BY <2>1, <2>8, <2>9, <2>10
<1> QED
  BY <1>1, <1>2

\* While a call processes an item, the abstract item is busy.
LEMMA LockedIsBusy ==
    ASSUME IInv, NEW c \in Calls, pc[c] \in LockedSteps
    PROVE  /\ req[c].escrow \in EscrowIds /\ PhaseOf(req[c].escrow) = "busy"
           /\ req[c].kind # "hold"
<1> USE DEF IInv, Shape
<1>1. /\ req[c].escrow \in EscrowIds /\ HoldsLock(c)
      /\ items[req[c].escrow].status \in Processing
  BY LockedItem
<1>2. req[c].escrow \in announced
  BY <1>1, RequestFields, NullAssumption DEF HoldsLock, RequestOK
<1>3. ~Unfunded(req[c].escrow)
  BY <1>2 DEF Holds, AnnouncedOK
<1> QED
  BY <1>1, <1>3 DEF PhaseOf, Processing, HoldsLock, Resolving

\* What a resolving call adds to its history does not concern any item.
LEMMA AppliedKeepsPhases ==
    ASSUME TypeOK, NEW c \in Calls, req[c].kind # "hold", req' = req,
           items' = items, NEW w, applied' = [applied EXCEPT ![c] = @ \cup {w}]
    PROVE  Phase' = Phase
<1>1. \A e \in EscrowIds : Unfunded(e)' <=> Unfunded(e)
  BY DEF Unfunded, TypeOK
<1> QED
  BY <1>1, PhaseKept

\* The accepted update of a user wallet is a release of the item's points.
LEMMA CasUserRefines ==
    ASSUME IInv, NEW c \in Calls, CasUser(c)
    PROVE  AtomicStep
<1> USE DEF IInv, Shape
<1>1. CASE ~SameVersion(c)
  BY <1>1, SilentStep DEF CasUser
<1>2. CASE SameVersion(c)
  <2>1. PICK e \in EscrowIds, u \in Users :
           e = req[c].escrow /\ u = Payer(c) /\ PhaseOf(e) = "busy"
    BY LockedItem, LockedIsBusy DEF CasUser, LockedSteps
  <2>2. req[c].amount \in Points /\ req[c].refund \in Points
    BY DEF TypeOK, Request
  <2>3. items[e].amount \in Points
    BY <2>1 DEF TypeOK, Item
  <2>4. PICK a \in Points, b \in Points : a = Released(c) /\ b = Unescrowed(c)
    BY <2>1, <2>2, <2>3 DEF Released, Unescrowed, Points
  <2>5. a \in Nat /\ b \in Nat
    BY PointsAreNaturals
  <2>6. /\ models' = models /\ items' = items /\ req' = req
        /\ wallets' = [wallets EXCEPT ![u] = Inc(wallets[u], a, -b)]
        /\ applied' = [applied EXCEPT ![c] = @ \cup {"user"}]
    BY <1>2, <2>1, <2>4 DEF CasUser
  <2>7. wallets[u] \in Wallet
    BY DEF TypeOK
  <2>8. /\ Inc(wallets[u], a, -b).available = wallets[u].available + a
        /\ Inc(wallets[u], a, -b).escrow = wallets[u].escrow - b
    BY <2>5, <2>7 DEF Inc, Wallet
  <2>9. /\ Available' = [Available EXCEPT ![u] = @ + a]
        /\ Escrow' = [Escrow EXCEPT ![u] = @ - b]
        /\ Earned' = Earned
    BY <2>6, <2>8 DEF Available, Escrow, Earned, TypeOK
  <2>10. Phase' = Phase
    BY <2>6, AppliedKeepsPhases, LockedIsBusy DEF CasUser, LockedSteps
  <2>11. Atomic!Release(e, u, a, b)
    BY <2>1, <2>9, <2>10 DEF Atomic!Release, Available, Escrow, Earned, Phase
  <2> QED
    BY <2>11 DEF AtomicStep, Atomic!Next, Atomic!Points, Points
<1> QED
  BY <1>1, <1>2

\* The accepted $set of a model wallet is a payment out of the item.
LEMMA CasModelRefines ==
    ASSUME IInv, NEW c \in Calls, CasModel(c)
    PROVE  AtomicStep
<1> USE DEF IInv, Shape
<1>1. CASE ~SameModelVersion(c)
  BY <1>1, SilentStep DEF CasModel
<1>2. CASE SameModelVersion(c)
  <2>1. PICK e \in EscrowIds : e = req[c].escrow /\ PhaseOf(e) = "busy"
    BY LockedIsBusy DEF CasModel, LockedSteps
  <2>2. PICK m \in Models, a \in Points :
           m = req[c].model /\ a = req[c].amount /\ sawModel[c] = models[m]
    <3>1. req[c].model \in Models /\ req[c].amount \in Points
      BY RequestFields DEF CasModel, RequestOK, TypeOK, Request
    <3>2. sawModel[c] = models[req[c].model]
      BY <1>2 DEF CasModel, SameModelVersion, SnapshotsOK, ModelSaw
    <3> QED
      BY <3>1, <3>2
  <2>3. /\ wallets' = wallets /\ items' = items /\ req' = req
        /\ models' = [models EXCEPT ![m] =
              [present |-> TRUE, earned |-> models[m].earned + a,
               version |-> models[m].version + 1]]
        /\ applied' = [applied EXCEPT ![c] = @ \cup {"model"}]
    BY <1>2, <2>2 DEF CasModel
  <2>4. /\ Available' = Available /\ Escrow' = Escrow
        /\ Earned' = [Earned EXCEPT ![m] = @ + a]
    BY <2>3 DEF Available, Escrow, Earned, TypeOK
  <2>5. Phase' = Phase
    BY <2>3, AppliedKeepsPhases, LockedIsBusy DEF CasModel, LockedSteps
  <2>6. Atomic!Pay(e, m, a)
    BY <2>1, <2>4, <2>5 DEF Atomic!Pay, Available, Escrow, Earned, Phase
  <2> QED
    BY <2>6 DEF AtomicStep, Atomic!Next, Atomic!Points, Points
<1> QED
  BY <1>1, <1>2

\* A write of another service adjusts a balance.
LEMMA OtherRefines ==
    ASSUME IInv, NEW u \in Users, OtherWrite(u)
    PROVE  AtomicStep
<1> USE DEF IInv, Shape
<1>1. PICK a \in Amounts : \E d \in {a, -a} :
         wallets' = [wallets EXCEPT ![u] = Inc(wallets[u], d, 0)]
  BY DEF OtherWrite
<1>2. PICK d \in {a, -a} : wallets' = [wallets EXCEPT ![u] = Inc(wallets[u], d, 0)]
  BY <1>1
<1>3. d \in Int /\ wallets[u] \in Wallet
  BY AmountsAssumption DEF TypeOK
<1>4. /\ Inc(wallets[u], d, 0).available = wallets[u].available + d
      /\ Inc(wallets[u], d, 0).escrow = wallets[u].escrow
  BY <1>3 DEF Inc, Wallet
<1>5. Available' = [Available EXCEPT ![u] = @ + d]
  BY <1>2, <1>4 DEF Available, TypeOK
<1>6. Escrow' = Escrow
  BY <1>2, <1>4 DEF Escrow, TypeOK
<1>7. Earned' = Earned /\ Phase' = Phase
  BY PhaseKept DEF OtherWrite, Earned, Unfunded
<1>8. Atomic!Adjust(u, d)
  BY <1>2, <1>5, <1>6, <1>7 DEF Atomic!Adjust, Available, Escrow, Earned, Phase
<1> QED
  BY <1>8 DEF AtomicStep, Atomic!Next

-----------------------------------------------------------------------------
(* The refinement.                                                          *)

\* Every step from a state of the invariant is an abstract step or a stutter.
LEMMA RefinedStep ==
    ASSUME IInv, [Next]_vars
    PROVE  AtomicStep
<1>1. ASSUME NEW c \in Calls, Claim(c) \/ Crash(c) PROVE AtomicStep
  BY <1>1, SilentStep DEF Claim, Crash
<1>2. ASSUME NEW c \in Calls, HoldStep(c) PROVE AtomicStep
  <2>1. CASE HoldRead(c) \/ HoldDebit(c) \/ HoldCredit(c) \/ HoldPublish(c)
    BY <2>1, SilentStep DEF HoldRead, HoldDebit, HoldCredit, HoldPublish
  <2> QED
    BY <1>2, <2>1, CreateWalletStutters, CreateItemStutters, DeleteItemStutters,
       HoldRefines DEF HoldStep
<1>3. ASSUME NEW c \in Calls, ResolveStep(c) PROVE AtomicStep
  <2>1. CASE ReadUser(c) \/ ReadModel(c) \/ Record(c) \/ RecordSettle(c)
    BY <2>1, SilentStep DEF ReadUser, ReadModel, Record, RecordSettle
  <2> QED
    BY <1>3, <2>1, StatusRefines, CreateModelStutters, CasModelRefines,
       CasUserRefines DEF ResolveStep
<1>4. ASSUME NEW c \in Calls, Call(c) PROVE AtomicStep
  BY <1>4, CallStutters
<1>5. ASSUME NEW u \in Users, OtherWrite(u) PROVE AtomicStep
  BY <1>5, OtherRefines
<1>6. CASE UNCHANGED vars
  BY <1>6, SilentStep DEF vars
<1> QED
  BY <1>1, <1>2, <1>3, <1>4, <1>5, <1>6 DEF Next, Step

\* WalletService implements AtomicEscrow: under optimistic locking every hold,
\* settlement and refund moves points as atomic transfers of the current balances.
THEOREM Refinement == Spec => ImplementsAtomicEscrow
<1>1. Init => Atomic!Init
  BY RefinedInit
<1>2. IInv /\ [Next]_vars => [Atomic!Next]_(Atomic!vars)
  BY RefinedStep DEF AtomicStep
<1> QED
  BY <1>1, <1>2, Invariant, PTL DEF Spec, ImplementsAtomicEscrow, Atomic!Spec
=============================================================================
