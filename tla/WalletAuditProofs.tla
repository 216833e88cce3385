-------------------------- MODULE WalletAuditProofs --------------------------
(***************************************************************************)
(* Proofs of the accounting equations of WalletAudit, for every finite set *)
(* of users, models, escrow ids and calls, every set of amounts and keys,  *)
(* and every bound.                                                        *)
(***************************************************************************)
EXTENDS WalletAudit, WalletEscrowProofs, SumTheorems

USE DEF At, Goto, SetStatus, Apply, store, locals

-----------------------------------------------------------------------------
(* Which wallets a call has written.                                        *)

AppliedOne(c) ==
    /\ applied[c] \in AppliedAt(req[c].kind, pc[c])
    /\ applied[c] # {} => req[c].escrow \in EscrowIds

\* The call that takes a step writes its wallets in the order of its kind.
LEMMA AppliedMoved ==
    ASSUME IInv, AppliedOK, NEW c \in Calls, Call(c) \/ Step(c) \/ Crash(c)
    PROVE  AppliedOne(c)'
<1>0. /\ TypeOK /\ RequestOK(c) /\ AppliedOne(c) /\ req[c].kind \in Kinds \cup {"none"}
      /\ Shape
  BY RequestFields DEF IInv, Shape, AppliedOK, AppliedOne
<1> USE DEF AppliedOne, AppliedAt
<1>1. CASE Call(c)
  <2>1. applied'[c] = {} /\ pc'[c] = "claim"
    BY <1>0, <1>1 DEF Call, IInv, Holds, HoldPcOK, TypeOK
  <2> QED
    BY <2>1
<1>2. CASE Claim(c)
  <2>1. /\ applied' = applied /\ req' = req /\ pc[c] = "claim"
        /\ pc'[c] \in {"thrown", "readWallet", "lock"}
    BY <1>0, <1>2 DEF Claim, TypeOK
  <2> QED
    BY <1>0, <2>1
<1>3. CASE HoldStep(c)
  <2>1. req[c].kind = "hold" /\ req'[c].kind = "hold"
    <3>1. IsHold(c)
      BY <1>0, <1>3, HoldFields DEF HoldStep, HoldRead, HoldCreateWallet, HoldCreateItem,
          HoldCasWallet, HoldDeleteItem, HoldDebit, HoldCredit, HoldPublish, HoldSteps
    <3>2. req' = req \/ \E e : req' = [req EXCEPT ![c].escrow = e]
      BY <1>3 DEF HoldStep, HoldRead, HoldCreateWallet, HoldCreateItem,
          HoldCasWallet, HoldDeleteItem, HoldDebit, HoldCredit, HoldPublish
    <3> QED
      BY <1>0, <3>1, <3>2 DEF IsHold, TypeOK, Request
  <2>2. CASE HoldRead(c) \/ HoldCreateWallet(c)
    BY <1>0, <2>1, <2>2 DEF HoldRead, HoldCreateWallet, TypeOK
  <2>3. CASE HoldCreateItem(c)
    BY <1>0, <2>1, <2>3 DEF HoldCreateItem, TypeOK
  <2>4. CASE HoldCasWallet(c)
    <3>1. req[c].escrow \in EscrowIds /\ req' = req
      BY <1>0, <2>4 DEF HoldCasWallet, RequestOK
    <3> QED
      BY <1>0, <2>1, <2>4, <3>1 DEF HoldCasWallet, TypeOK
  <2>5. CASE HoldDeleteItem(c)
    BY <1>0, <2>1, <2>5 DEF HoldDeleteItem, TypeOK
  <2>6. CASE HoldDebit(c) \/ HoldCredit(c) \/ HoldPublish(c)
    BY <1>0, <2>1, <2>6 DEF HoldDebit, HoldCredit, HoldPublish, TypeOK
  <2> QED
    BY <1>3, <2>2, <2>3, <2>4, <2>5, <2>6 DEF HoldStep
<1>4. CASE ResolveStep(c)
  <2>1. req' = req /\ req[c].kind \in {"settle", "refund", "partial"}
    BY <1>0, <1>4, ResolveFields DEF ResolveStep, Lock, ReadUser, ReadModel, CreateModel,
       CasModel, CasUser, Unlock, Finalize, Record, RecordSettle, LockedSteps, IsResolve, Resolving
  <2>2. pc[c] \in LockedSteps => req[c].escrow \in EscrowIds
    BY <1>0 DEF RequestOK
  <2>3. CASE Lock(c)
    BY <1>0, <2>1, <2>3 DEF Lock, TypeOK
  <2>4. CASE ReadUser(c)
    BY <1>0, <2>1, <2>4 DEF ReadUser, TypeOK
  <2>5. CASE ReadModel(c) \/ CreateModel(c)
    BY <1>0, <2>1, <2>5 DEF ReadModel, CreateModel, AfterReadModel, TypeOK, RequestOK
  <2>6. CASE CasModel(c)
    BY <1>0, <2>1, <2>2, <2>6 DEF CasModel, TypeOK, RequestOK, LockedSteps
  <2>7. CASE CasUser(c)
    BY <1>0, <2>1, <2>2, <2>7 DEF CasUser, TypeOK, LockedSteps
  <2>8. CASE Unlock(c)
    BY <1>0, <2>1, <2>8 DEF Unlock, TypeOK
  <2>9. CASE Finalize(c)
    BY <1>0, <2>1, <2>9 DEF Finalize, AfterRefundEntry, TypeOK
  <2>10. CASE Record(c) \/ RecordSettle(c)
    BY <1>0, <2>1, <2>10 DEF Record, RecordSettle, AfterRefundEntry, TypeOK, RequestOK
  <2> QED
    BY <1>4, <2>3, <2>4, <2>5, <2>6, <2>7, <2>8, <2>9, <2>10 DEF ResolveStep
<1>5. CASE Crash(c)
  BY <1>0, <1>5 DEF Crash
<1> QED
  BY <1>1, <1>2, <1>3, <1>4, <1>5 DEF Step

\* Every step of the system keeps what the calls have written in order.
LEMMA AppliedStep ==
    ASSUME IInv, AppliedOK, [Next]_vars
    PROVE  AppliedOK'
<1>1. ASSUME NEW c \in Calls, Call(c) \/ Step(c) \/ Crash(c) PROVE AppliedOK'
  <2>1. AppliedOne(c)' /\ Frame(c)
    BY <1>1, AppliedMoved, StepFrame DEF IInv, Shape
  <2>2. \A d \in Calls \ {c} : AppliedOne(d)'
    BY <2>1 DEF Frame, AppliedOne, AppliedOK
  <2> QED
    BY <2>1, <2>2 DEF AppliedOne, AppliedOK
<1>2. CASE (\E u \in Users : OtherWrite(u)) \/ UNCHANGED vars
  BY <1>2 DEF OtherWrite, vars, AppliedOK
<1> QED
  BY <1>1, <1>2 DEF Next

-----------------------------------------------------------------------------
(* Who recorded an entry.                                                   *)

\* Past its last wallet write a call only records, publishes and returns.
LEMMA EndingSteps ==
    ASSUME NEW c \in Calls, Call(c) \/ Step(c) \/ Crash(c),
           pc[c] \in {"credit", "publish", "recordSettle", "returned"}
    PROVE  \/ Crash(c)
           \/ pc[c] = "credit" /\ HoldCredit(c)
           \/ pc[c] = "publish" /\ HoldPublish(c)
           \/ pc[c] = "recordSettle" /\ RecordSettle(c)
<1>1. ~Call(c) /\ ~Claim(c)
  BY DEF Call, Claim
<1>2. HoldStep(c) => HoldCredit(c) \/ HoldPublish(c)
  BY DEF HoldStep, HoldRead, HoldCreateWallet, HoldCreateItem, HoldCasWallet,
         HoldDeleteItem, HoldDebit
<1>3. ResolveStep(c) => RecordSettle(c)
  BY DEF ResolveStep, Lock, ReadUser, ReadModel, CreateModel, CasModel, CasUser,
         Unlock, Finalize, Record
<1> QED
  BY <1>1, <1>2, <1>3 DEF Step, HoldCredit, HoldPublish, RecordSettle

\* The call that recorded an entry stays past the step that did.
LEMMA RecorderKept ==
    ASSUME TypeOK, NEW c \in Calls, Call(c) \/ Step(c) \/ Crash(c),
           NEW d \in Calls, NEW x, Recorder(x, req[d], pc[d])
    PROVE  Recorder(x, req'[d], pc'[d])
<1>1. CASE d # c
  <2>1. pc'[d] = pc[d] /\ req'[d] = req[d]
    BY <1>1, StepFrame DEF Frame
  <2> QED
    BY <2>1 DEF Recorder
<1>2. CASE d = c
  <2>1. pc[c] \in {"credit", "publish", "recordSettle", "returned"}
    BY <1>2 DEF Recorder
  <2>2. CASE Crash(c)
    BY <1>2, <2>2 DEF Crash, Recorder
  <2>3. CASE ~Crash(c)
    <3>1. req' = req /\ (pc[c] = "credit" => pc'[c] = "publish")
          /\ (pc[c] # "credit" => pc'[c] = "returned") /\ pc[c] # "returned"
      BY <2>1, <2>3, EndingSteps DEF HoldCredit, HoldPublish, RecordSettle, TypeOK
    <3> QED
      BY <1>2, <2>1, <3>1 DEF Recorder
  <2> QED
    BY <2>2, <2>3
<1> QED
  BY <1>1, <1>2

\* createEntry adds at most one entry, of the call that makes it.
LEMMA CreateEntryKeeps ==
    ASSUME EntriesOK, NEW c \in Calls, NEW suffix, NEW account, NEW state, NEW amount,
           CreateEntry(c, suffix, account, state, amount),
           \A x \in ledger, d \in Calls :
              Recorder(x, req[d], pc[d]) => Recorder(x, req'[d], pc'[d]),
           Recorder([key |-> <<req[c].key, suffix>>, account |-> account,
                     state |-> state, amount |-> amount], req'[c], pc'[c])
    PROVE  EntriesOK'
<1> DEFINE e == [key |-> <<req[c].key, suffix>>, account |-> account,
                 state |-> state, amount |-> amount]
<1>1. ledger' = ledger \/ ledger' = ledger \cup {e}
  BY DEF CreateEntry
<1>2. IsFiniteSet(ledger')
  BY <1>1, FS_AddElement DEF EntriesOK
<1> HIDE DEF e
<1>3. \A x \in ledger' : x \in ledger \/ x = e
  BY <1>1
<1>4. Recorder(e, req'[c], pc'[c])
  BY DEF e
<1> QED
  BY <1>2, <1>3, <1>4 DEF EntriesOK

\* Four actions record entries.
LEMMA LedgerWriters ==
    ASSUME NEW c \in Calls, Call(c) \/ Step(c) \/ Crash(c)
    PROVE  ledger' = ledger \/ HoldDebit(c) \/ HoldCredit(c) \/ Record(c) \/ RecordSettle(c)
BY DEF Call, Claim, Crash, Step, HoldStep, ResolveStep, HoldRead, HoldCreateWallet,
       HoldCreateItem, HoldCasWallet, HoldDeleteItem, HoldPublish, Lock, ReadUser,
       ReadModel, CreateModel, CasModel, CasUser, Unlock, Finalize

\* Every step of the system keeps a recorder for each entry.
LEMMA EntriesStep ==
    ASSUME IInv, EntriesOK, [Next]_vars
    PROVE  EntriesOK'
<1>0. TypeOK /\ Shape
  BY DEF IInv, Shape
<1>1. ASSUME NEW c \in Calls, Call(c) \/ Step(c) \/ Crash(c) PROVE EntriesOK'
  <2>1. \A x \in ledger, d \in Calls : Recorder(x, req[d], pc[d]) => Recorder(x, req'[d], pc'[d])
    BY <1>0, <1>1, RecorderKept
  <2>2. CASE ledger' = ledger
    BY <2>1, <2>2 DEF EntriesOK
  <2>3. CASE HoldDebit(c)
    <3>1. IsHold(c) /\ req' = req /\ pc'[c] = "credit"
      BY <1>0, <2>3, HoldFields DEF HoldDebit, HoldSteps, TypeOK
    <3>2. CreateEntry(c, "_debit", req[c].user, "available", -req[c].amount)
      BY <2>3 DEF HoldDebit
    <3>3. Recorder([key |-> <<req[c].key, "_debit">>, account |-> req[c].user,
                    state |-> "available", amount |-> -req[c].amount], req'[c], pc'[c])
      BY <3>1 DEF Recorder, IsHold
    <3> QED
      BY <2>1, <3>2, <3>3, CreateEntryKeeps
  <2>4. CASE HoldCredit(c)
    <3>1. IsHold(c) /\ req' = req /\ pc'[c] = "publish"
      BY <1>0, <2>4, HoldFields DEF HoldCredit, HoldSteps, TypeOK
    <3>2. CreateEntry(c, "_credit", req[c].user, "escrow", req[c].amount)
      BY <2>4 DEF HoldCredit
    <3>3. Recorder([key |-> <<req[c].key, "_credit">>, account |-> req[c].user,
                    state |-> "escrow", amount |-> req[c].amount], req'[c], pc'[c])
      BY <3>1 DEF Recorder, IsHold
    <3> QED
      BY <2>1, <3>2, <3>3, CreateEntryKeeps
  <2>5. CASE Record(c)
    <3>1. /\ req[c].kind \in {"settle", "refund", "partial"} /\ req' = req
          /\ pc'[c] = AfterRefundEntry(c)
      BY <1>0, <2>5, ResolveFields DEF Record, IsResolve, Resolving, TypeOK
    <3>2. CASE req[c].kind = "settle"
      <4>1. CreateEntry(c, "", req[c].model, "earned", req[c].amount)
        BY <2>5, <3>2 DEF Record
      <4>2. Recorder([key |-> <<req[c].key, "">>, account |-> req[c].model,
                      state |-> "earned", amount |-> req[c].amount], req'[c], pc'[c])
        BY <3>1, <3>2 DEF Recorder, AfterRefundEntry
      <4> QED
        BY <2>1, <4>1, <4>2, CreateEntryKeeps
    <3>3. CASE req[c].kind = "refund"
      <4>1. CreateEntry(c, "", req[c].user, "available", req[c].amount)
        BY <2>5, <3>3 DEF Record
      <4>2. Recorder([key |-> <<req[c].key, "">>, account |-> req[c].user,
                      state |-> "available", amount |-> req[c].amount], req'[c], pc'[c])
        BY <3>1, <3>3 DEF Recorder, AfterRefundEntry
      <4> QED
        BY <2>1, <4>1, <4>2, CreateEntryKeeps
    <3>4. CASE req[c].kind = "partial"
      <4>1. CreateEntry(c, "_refund", req[c].user, "available", req[c].refund)
        BY <2>5, <3>4 DEF Record
      <4>2. Recorder([key |-> <<req[c].key, "_refund">>, account |-> req[c].user,
                      state |-> "available", amount |-> req[c].refund], req'[c], pc'[c])
        BY <3>1, <3>4 DEF Recorder, AfterRefundEntry
      <4> QED
        BY <2>1, <4>1, <4>2, CreateEntryKeeps
    <3> QED
      BY <3>1, <3>2, <3>3, <3>4
  <2>6. CASE RecordSettle(c)
    <3>1. req[c].kind = "partial" /\ req' = req /\ pc'[c] = "returned"
      BY <1>0, <2>6, RequestFields DEF RecordSettle, RequestOK, TypeOK
    <3>2. CreateEntry(c, "_settle", req[c].model, "earned", req[c].amount)
      BY <2>6 DEF RecordSettle
    <3>3. Recorder([key |-> <<req[c].key, "_settle">>, account |-> req[c].model,
                    state |-> "earned", amount |-> req[c].amount], req'[c], pc'[c])
      BY <3>1 DEF Recorder
    <3> QED
      BY <2>1, <3>2, <3>3, CreateEntryKeeps
  <2> QED
    BY <1>1, <2>2, <2>3, <2>4, <2>5, <2>6, LedgerWriters
<1>2. CASE (\E u \in Users : OtherWrite(u)) \/ UNCHANGED vars
  <2>1. ledger' = ledger /\ pc' = pc /\ req' = req
    BY <1>2 DEF OtherWrite, vars
  <2> QED
    BY <2>1 DEF EntriesOK, Recorder
<1> QED
  BY <1>1, <1>2 DEF Next

-----------------------------------------------------------------------------
(* What items and trusted requests say of each other.                       *)

\* An item keeps its user and its amount until its own hold deletes it.
LEMMA ItemKept ==
    ASSUME IInv, [Next]_vars, NEW e \in EscrowIds, items[e].status # "none",
           \A c \in Calls : HoldDeleteItem(c) => req[c].escrow # e
    PROVE  items'[e].user = items[e].user /\ items'[e].amount = items[e].amount
<1>0. Shape /\ TypeOK /\ EscrowLockExclusive /\ Holds
  BY DEF IInv, Shape
<1>1. CASE items' = items
  BY <1>1
<1>2. ASSUME NEW c \in Calls, HoldCreateItem(c)
      PROVE  items'[e] = items[e]
  BY <1>0, <1>2 DEF HoldCreateItem, TypeOK
<1>3. ASSUME NEW c \in Calls, HoldDeleteItem(c)
      PROVE  items'[e] = items[e]
  BY <1>0, <1>3, DeletedItem DEF TypeOK
<1>4. ASSUME NEW c \in Calls, items' # items, Lock(c) \/ Unlock(c) \/ Finalize(c)
      PROVE  items'[e].user = items[e].user /\ items'[e].amount = items[e].amount
  <2>1. \E s : items' = [items EXCEPT ![req[c].escrow].status = s]
    BY <1>0, <1>4, StatusWriters
  <2> QED
    BY <1>0, <2>1 DEF TypeOK, Item
<1> QED
  BY <1>1, <1>2, <1>3, <1>4, ItemWriters

\* An item that callers know of keeps its user and its amount for good.
LEMMA AnnouncedKept ==
    ASSUME IInv, [Next]_vars, NEW e \in announced
    PROVE  /\ e \in EscrowIds /\ e \in announced'
           /\ items'[e].user = items[e].user /\ items'[e].amount = items[e].amount
<1>1. e \in EscrowIds /\ items[e].status # "none"
  BY DEF IInv, Holds, AnnouncedOK, Shape, TypeOK
<1>2. \A c \in Calls : HoldDeleteItem(c) => req[c].escrow # e
  BY DeletedItem DEF IInv
<1>3. announced \subseteq announced'
  <2>1. ASSUME NEW c \in Calls, Call(c) \/ Step(c) \/ Crash(c)
        PROVE  announced \subseteq announced'
    BY <2>1, StepFrame DEF Frame, IInv, Shape
  <2>2. ASSUME NEW u \in Users, OtherWrite(u) PROVE announced' = announced
    BY <2>2 DEF OtherWrite
  <2> QED
    BY <2>1, <2>2 DEF Next, vars
<1> QED
  BY <1>1, <1>2, <1>3, ItemKept

HoldItemOK(r) ==
    r.kind = "hold" /\ r.escrow # Null =>
        items[r.escrow].user = r.user /\ items[r.escrow].amount = r.amount

\* A hold that keeps its request keeps its item.
LEMMA HoldItemKept ==
    ASSUME IInv, [Next]_vars, NEW c \in Calls, req'[c] = req[c], HoldItemOK(req[c])
    PROVE  HoldItemOK(req[c])'
<1> SUFFICES ASSUME req[c].kind = "hold", req[c].escrow # Null
             PROVE  /\ items'[req[c].escrow].user = items[req[c].escrow].user
                    /\ items'[req[c].escrow].amount = items[req[c].escrow].amount
  BY DEF HoldItemOK
<1>1. req[c].escrow \in EscrowIds /\ items[req[c].escrow].status # "none"
  <2>1. req[c] \in Request
    BY DEF IInv, Shape, TypeOK
  <2> QED
    BY <2>1 DEF Request, IInv, Holds, HoldsOK
<1>2. ASSUME NEW d \in Calls, HoldDeleteItem(d) PROVE req[d].escrow # req[c].escrow
  <2>1. req[d].kind = "hold" /\ req[d].escrow \in EscrowIds
    BY <1>2, DeletedItem DEF IInv
  <2>2. d # c
    <3>1. req'[d].escrow = Null
      BY <1>2, <2>1 DEF HoldDeleteItem, IInv, Shape, TypeOK, Request
    <3> QED
      BY <2>1, <3>1, NullAssumption
  <2> QED
    BY <2>1, <2>2 DEF IInv, Holds, HoldsOK
<1> QED
  BY <1>1, <1>2, ItemKept

\* Every step of the system keeps the items of the holds.
LEMMA HoldItemsStep ==
    ASSUME IInv, HoldItemsOK, [Next]_vars
    PROVE  HoldItemsOK'
<1>0. TypeOK /\ Shape /\ \A d \in Calls : HoldItemOK(req[d])
  BY DEF IInv, Shape, HoldItemsOK, HoldItemOK
<1>1. ASSUME NEW d \in Calls, req'[d] = req[d] PROVE HoldItemOK(req[d])'
  BY <1>0, <1>1, HoldItemKept
<1>2. ASSUME NEW c \in Calls, Call(c) \/ Step(c) \/ Crash(c)
      PROVE  HoldItemOK(req[c])'
  <2>1. CASE Call(c)
    <3>1. PICK r \in Requests : req' = [req EXCEPT ![c] = r]
      BY <2>1 DEF Call
    <3>2. req'[c] = r /\ (r.kind = "hold" => r.escrow = Null)
      BY <1>0, <3>1 DEF TypeOK, Requests, HoldRequests, SettleRequests,
                        RefundRequests, PartialRequests
    <3> QED
      BY <3>2 DEF HoldItemOK
  <2>2. CASE HoldCreateItem(c) /\ req' # req
    <3>1. IsHold(c)
      BY <1>0, <2>2, HoldFields DEF HoldCreateItem, HoldSteps
    <3>2. PICK e \in EscrowIds :
             /\ items' = [items EXCEPT ![e] =
                    [status |-> "held", user |-> req[c].user,
                     amount |-> req[c].amount, queueItem |-> req[c].queueItem]]
             /\ req' = [req EXCEPT ![c].escrow = e]
      BY <2>2 DEF HoldCreateItem
    <3>3. /\ req'[c].escrow = e /\ req'[c].user = req[c].user
          /\ req'[c].amount = req[c].amount
      BY <1>0, <3>1, <3>2 DEF IsHold, TypeOK, Request
    <3>4. items'[e].user = req[c].user /\ items'[e].amount = req[c].amount
      BY <1>0, <3>2 DEF TypeOK
    <3> QED
      BY <3>3, <3>4 DEF HoldItemOK
  <2>3. CASE HoldDeleteItem(c)
    <3>1. req'[c].escrow = Null
      BY <1>0, <2>3 DEF HoldDeleteItem, TypeOK, Request
    <3> QED
      BY <3>1 DEF HoldItemOK
  <2>4. CASE req' = req
    BY <1>1, <2>4
  <2>5. \/ Call(c) \/ req' = req \/ HoldDeleteItem(c)
        \/ HoldCreateItem(c) /\ req' # req
    BY <1>2 DEF Claim, Crash, Step, HoldStep, ResolveStep, HoldRead, HoldCreateWallet,
       HoldCasWallet, HoldDebit, HoldCredit, HoldPublish, Lock, ReadUser, ReadModel,
       CreateModel, CasModel, CasUser, Unlock, Finalize, Record, RecordSettle
  <2> QED
    BY <2>1, <2>2, <2>3, <2>4, <2>5
<1>3. ASSUME NEW c \in Calls, Call(c) \/ Step(c) \/ Crash(c) PROVE HoldItemsOK'
  <2>1. \A d \in Calls \ {c} : req'[d] = req[d]
    BY <1>0, <1>3, StepFrame DEF Frame
  <2>2. \A d \in Calls : HoldItemOK(req[d])'
    BY <1>1, <1>2, <1>3, <2>1
  <2> QED
    BY <2>2 DEF HoldItemsOK, HoldItemOK
<1>4. CASE (\E u \in Users : OtherWrite(u)) \/ UNCHANGED vars
  BY <1>4 DEF OtherWrite, vars, HoldItemsOK
<1> QED
  BY <1>3, <1>4 DEF Next

TrustedRequest(r) ==
    Trusted(r) /\ (r.kind \in {"settle", "refund"} => r.refund = 0)

\* A request stays that of a trusted caller.
LEMMA TrustedKept ==
    ASSUME IInv, [Next]_vars, NEW r, TrustedRequest(r)
    PROVE  TrustedRequest(r)'
BY AnnouncedKept DEF TrustedRequest, Trusted

\* Every step of the system keeps the requests those of trusted callers.
LEMMA TrustStep ==
    ASSUME IInv, TrustOK, [Next]_vars
    PROVE  TrustOK'
<1> SUFFICES ASSUME TrustedCallers
             PROVE  \A c \in Calls : TrustedRequest(req[c])'
  BY DEF TrustOK, TrustedRequest
<1>0. TypeOK /\ Shape /\ \A c \in Calls : TrustedRequest(req[c])
  BY DEF IInv, Shape, TrustOK, TrustedRequest
<1>1. ASSUME NEW d \in Calls, req'[d] = req[d] PROVE TrustedRequest(req[d])'
  BY <1>0, <1>1, TrustedKept DEF TrustedRequest, Trusted
<1>2. ASSUME NEW c \in Calls, Call(c) \/ Step(c) \/ Crash(c)
      PROVE  TrustedRequest(req[c])'
  <2>1. CASE Call(c)
    <3>1. PICK r \in Requests : Admissible(r) /\ req' = [req EXCEPT ![c] = r]
      BY <2>1 DEF Call
    <3>2. r.kind \in {"settle", "refund"} => r.refund = 0
      BY <3>1 DEF Requests, HoldRequests, SettleRequests, RefundRequests, PartialRequests
    <3>3. TrustedRequest(r)' /\ req'[c] = r
      BY <1>0, <3>1, <3>2, TrustedKept DEF Admissible, TrustedRequest, TypeOK
    <3> QED
      BY <3>3 DEF TrustedRequest, Trusted
  <2>2. CASE HoldCreateItem(c) \/ HoldDeleteItem(c)
    <3>1. req[c].kind = "hold"
      BY <1>0, <2>2, HoldFields DEF HoldCreateItem, HoldDeleteItem, HoldSteps, IsHold
    <3>2. req'[c].kind = "hold"
      BY <1>0, <2>2, <3>1 DEF HoldCreateItem, HoldDeleteItem, TypeOK, Request
    <3> QED
      BY <3>2 DEF TrustedRequest, Trusted, Resolving
  <2>3. CASE req' = req
    BY <1>1, <2>3
  <2>4. Call(c) \/ req' = req \/ HoldDeleteItem(c) \/ HoldCreateItem(c)
    BY <1>2 DEF Claim, Crash, Step, HoldStep, ResolveStep, HoldRead, HoldCreateWallet,
       HoldCasWallet, HoldDebit, HoldCredit, HoldPublish, Lock, ReadUser, ReadModel,
       CreateModel, CasModel, CasUser, Unlock, Finalize, Record, RecordSettle
  <2> QED
    BY <2>1, <2>2, <2>3, <2>4
<1>3. ASSUME NEW c \in Calls, Call(c) \/ Step(c) \/ Crash(c)
      PROVE  \A d \in Calls : TrustedRequest(req[d])'
  BY <1>0, <1>1, <1>2, <1>3, StepFrame DEF Frame
<1>4. CASE (\E u \in Users : OtherWrite(u)) \/ UNCHANGED vars
  <2>1. req' = req
    BY <1>4 DEF OtherWrite, vars
  <2> QED
    BY <1>1, <2>1
<1> QED
  BY <1>3, <1>4 DEF Next

-----------------------------------------------------------------------------
(* The ledger adds up, one entry at a time.                                 *)

Posts(account, state) == {x \in ledger : x.account = account /\ x.state = state}
AmountsOf(posts) == [x \in posts |-> x.amount]

\* What is posted to an account is the sum of the amounts of its entries.
LEMMA PostedSum ==
    ASSUME NEW a, NEW s
    PROVE  Posted(a, s) = SumFunctionOnSet(AmountsOf(Posts(a, s)), Posts(a, s))
BY DEF Posted, Posts, AmountsOf, SumFunction

\* It is an integer.
LEMMA PostedType ==
    ASSUME TypeOK, IsFiniteSet(ledger), NEW a, NEW s
    PROVE  Posted(a, s) \in Int
<1>1. IsFiniteSet(Posts(a, s)) /\ \A x \in Posts(a, s) : x.amount \in Int
  BY FS_Subset DEF Posts, TypeOK, Entry
<1>2. \A x \in Posts(a, s) : AmountsOf(Posts(a, s))[x] \in Int
  BY <1>1 DEF AmountsOf
<1> QED
  BY <1>1, <1>2, PostedSum, SumType

\* A new entry adds its amount to what is posted to its account, and to nothing else.
LEMMA PostedAdded ==
    ASSUME TypeOK, IsFiniteSet(ledger), NEW e \in Entry, e \notin ledger,
           ledger' = ledger \cup {e}, NEW a, NEW s
    PROVE  Posted(a, s)' = Posted(a, s) + (IF e.account = a /\ e.state = s
                                           THEN e.amount ELSE 0)
<1> DEFINE P == Posts(a, s)
           Q == Posts(a, s)'
<1>0. /\ Posted(a, s) = SumFunctionOnSet(AmountsOf(P), P)
      /\ Posted(a, s)' = SumFunctionOnSet(AmountsOf(Q), Q)
  <2>1. Posted(a, s)' = SumFunctionOnSet(AmountsOf(Q), Q)
    BY DEF Posted, Posts, AmountsOf, SumFunction
  <2> QED
    BY <2>1, PostedSum
<1>1. IsFiniteSet(P) /\ \A x \in P : x.amount \in Int
  BY FS_Subset DEF Posts, TypeOK, Entry
<1>2. Posted(a, s) \in Int
  BY PostedType
<1>3. CASE e.account = a /\ e.state = s
  <2>1. Q = P \cup {e} /\ e \notin P
    BY <1>3 DEF Posts
  <2>2. e.amount \in Int
    BY DEF Entry
  <2> HIDE DEF P, Q
  <2>3. \A x \in P \cup {e} : AmountsOf(Q)[x] = x.amount /\ x.amount \in Int
    BY <1>1, <2>1, <2>2 DEF AmountsOf
  <2>4. SumFunctionOnSet(AmountsOf(Q), Q) = e.amount + SumFunctionOnSet(AmountsOf(Q), P)
    <3>1. \A x \in P \cup {e} : AmountsOf(Q)[x] \in Int
      BY <2>3
    <3>2. AmountsOf(Q)[e] = e.amount
      BY <2>3
    <3> DEFINE f == AmountsOf(Q)
    <3> HIDE DEF f
    <3>3. SumFunctionOnSet(f, P \cup {e}) = f[e] + SumFunctionOnSet(f, P)
      BY <1>1, <2>1, <3>1, SumAdd DEF f
    <3> QED
      BY <2>1, <3>2, <3>3 DEF f
  <2>5. SumFunctionOnSet(AmountsOf(Q), P) = SumFunctionOnSet(AmountsOf(P), P)
    <3>1. \A x \in P : AmountsOf(Q)[x] = AmountsOf(P)[x]
      BY <2>3 DEF AmountsOf
    <3> QED
      BY <1>1, <3>1, SumEqual
  <2> QED
    BY <1>0, <1>2, <1>3, <2>2, <2>4, <2>5
<1>4. CASE ~(e.account = a /\ e.state = s)
  <2>1. Q = P
    BY <1>4 DEF Posts
  <2> QED
    BY <1>0, <1>2, <1>4, <2>1
<1> QED
  BY <1>3, <1>4

-----------------------------------------------------------------------------
(* Keys are free when a call records.                                       *)

\* The parts of a key.
LEMMA KeyParts ==
    ASSUME NEW key, NEW a, NEW b, key = <<a, b>>
    PROVE  key[1] = a /\ key[2] = b
OBVIOUS

\* What a new entry is.
LEMMA NewEntry ==
    ASSUME NEW c, NEW suffix, NEW account, NEW state, NEW amount,
           CreateEntry(c, suffix, account, state, amount),
           NEW x \in ledger', x \notin ledger
    PROVE  /\ x.key[1] = req[c].key /\ x.key[2] = suffix
           /\ x.account = account /\ x.state = state /\ x.amount = amount
BY DEF CreateEntry

\* Two calls past their claims never share a key in one scope.
LEMMA OwnKey ==
    ASSUME IInv, NEW c \in Calls, NEW d \in Calls, c # d, PastClaim(c), PastClaim(d)
    PROVE  req[c].key # req[d].key \/ req[c].kind # req[d].kind
BY DEF IInv, KeysOK, Scoped

\* No entry has the call's key with a suffix.
Free(c, suffix) == \A x \in ledger : x.key # <<req[c].key, suffix>>

\* Before a hold or a partial settlement records there is no entry with its key.
LEMMA KeyFree ==
    ASSUME IInv, EntriesOK, NEW c \in Calls, NEW suffix,
           \/ suffix = "_debit" /\ pc[c] = "debit"
           \/ suffix = "_refund" /\ pc[c] = "record" /\ req[c].kind = "partial"
    PROVE  Free(c, suffix)
<1> SUFFICES ASSUME NEW x \in ledger, x.key = <<req[c].key, suffix>> PROVE FALSE
  BY DEF Free
<1>1. PICK d \in Calls : Recorder(x, req[d], pc[d])
  BY DEF EntriesOK
<1>2. req[c].kind = IF suffix = "_debit" THEN "hold" ELSE "partial"
  BY HoldFields DEF IInv, HoldSteps, IsHold
<1>3. x.key[1] = req[c].key /\ x.key[2] = suffix
  OBVIOUS
<1>4. /\ req[d].key = req[c].key /\ req[d].kind = req[c].kind
      /\ pc[d] \in {"credit", "publish", "returned", "recordSettle"}
      /\ pc[d] # pc[c]
  BY <1>1, <1>2, <1>3 DEF Recorder
<1>5. PastClaim(c) /\ PastClaim(d)
  BY <1>4 DEF PastClaim
<1> QED
  BY <1>4, <1>5, OwnKey

\* The entry of a refund is recorded by no other call, and at its last step.
LEMMA RefundRecorder ==
    ASSUME IInv, EntriesOK, NEW c \in Calls, req[c].kind = "refund", PastClaim(c),
           RefundRecorded(c)
    PROVE  pc[c] = "returned"
<1>1. PICK x \in ledger : x.key = <<req[c].key, "">> /\ x.state = "available"
  BY DEF RefundRecorded
<1>2. PICK d \in Calls : Recorder(x, req[d], pc[d])
  BY DEF EntriesOK
<1>3. x.key[1] = req[c].key /\ x.key[2] = ""
  BY <1>1, KeyParts
<1>4. req[d].key = req[c].key /\ req[d].kind = "refund" /\ pc[d] = "returned"
  BY <1>1, <1>2, <1>3 DEF Recorder
<1>5. PastClaim(d)
  BY <1>4 DEF PastClaim
<1> QED
  BY <1>4, <1>5, OwnKey

\* No step of another call records or forgets the entry of a refund.
LEMMA RefundRecordedKept ==
    ASSUME IInv, EntriesOK, EntriesOK', NEW c \in Calls, Call(c) \/ Step(c) \/ Crash(c),
           NEW d \in Calls \ {c}, req[d].kind = "refund", PastClaim(d)
    PROVE  RefundRecorded(d)' <=> RefundRecorded(d)
<1>0. /\ req'[d] = req[d] /\ pc'[d] = pc[d] /\ PastClaim(d)' /\ TypeOK
      /\ Shape
  BY StepFrame DEF Frame, PastClaim, IInv, Shape
<1>1. ledger \subseteq ledger'
  <2>1. CASE ledger' = ledger
    BY <2>1
  <2>2. CASE HoldDebit(c) \/ HoldCredit(c) \/ RecordSettle(c)
    BY <2>2 DEF HoldDebit, HoldCredit, RecordSettle, CreateEntry
  <2>3. CASE Record(c)
    <3>1. req[c].kind \in {"settle", "refund", "partial"}
      BY <1>0, <2>3, ResolveFields DEF Record, IsResolve, Resolving
    <3> QED
      BY <2>3, <3>1 DEF Record, CreateEntry
  <2> QED
    BY <2>1, <2>2, <2>3, LedgerWriters
<1>2. ASSUME RefundRecorded(d)', ~RefundRecorded(d) PROVE FALSE
  <2>1. PICK x \in ledger' : /\ x.key = <<req[d].key, "">> /\ x.account = req[d].user
                             /\ x.state = "available"
    BY <1>0, <1>2 DEF RefundRecorded
  <2>2. x \notin ledger
    BY <1>2, <2>1 DEF RefundRecorded
  <2>3. Record(c) /\ req[c].kind = "refund" /\ req[c].key = req[d].key
    <3>0. x.key = <<req[d].key, "">>
      BY <2>1
    <3>1. x.key[1] = req[d].key /\ x.key[2] = ""
      BY <3>0, KeyParts, Zenon
    <3>2. /\ HoldDebit(c) => x.key[2] = "_debit"
          /\ HoldCredit(c) => x.key[2] = "_credit"
          /\ RecordSettle(c) => x.key[2] = "_settle"
      BY <2>2, NewEntry DEF HoldDebit, HoldCredit, RecordSettle
    <3>3. Record(c)
      BY <2>2, <3>1, <3>2, LedgerWriters
    <3>4. req[c].kind \in {"settle", "refund", "partial"}
      BY <1>0, <3>3, ResolveFields DEF Record, IsResolve, Resolving
    <3>5. req[c].kind = "settle" => x.state = "earned"
      <4>1. ASSUME req[c].kind = "settle" PROVE x.state = "earned"
        <5>1. PICK suffix : CreateEntry(c, suffix, req[c].model, "earned", req[c].amount)
          BY <3>3, <4>1 DEF Record
        <5> QED
          BY <2>2, <5>1, NewEntry
      <4> QED
        BY <4>1
    <3>6. req[c].kind = "partial" => x.key[2] = "_refund"
      BY <2>2, <3>3, NewEntry DEF Record
    <3>7. req[c].kind = "refund" => x.key[1] = req[c].key
      <4>1. ASSUME req[c].kind = "refund" PROVE x.key[1] = req[c].key
        <5>1. PICK suffix : CreateEntry(c, suffix, req[c].user, "available", req[c].amount)
          BY <3>3, <4>1 DEF Record
        <5> QED
          BY <2>2, <5>1, NewEntry
      <4> QED
        BY <4>1
    <3> QED
      BY <2>1, <3>1, <3>3, <3>4, <3>5, <3>6, <3>7
  <2>4. PastClaim(c)
    BY <2>3 DEF Record, PastClaim
  <2> QED
    BY <2>3, <2>4, OwnKey
<1>3. RefundRecorded(d) => RefundRecorded(d)'
  BY <1>0, <1>1 DEF RefundRecorded
<1> QED
  BY <1>2, <1>3

\* createEntry under a free key posts its amount to its account.
LEMMA PostedByCreate ==
    ASSUME TypeOK, IsFiniteSet(ledger), NEW c \in Calls, req[c].key \in Keys,
           NEW suffix \in Suffixes, NEW account \in Users \cup Models,
           NEW state \in {"available", "escrow", "earned"}, NEW amount \in Int,
           CreateEntry(c, suffix, account, state, amount), NEW a, NEW s
    PROVE  /\ (s # state \/ a # account) => Posted(a, s)' = Posted(a, s)
           /\ s = state /\ a = account /\ Free(c, suffix)
                 => Posted(a, s)' = Posted(a, s) + amount
           /\ ~Free(c, suffix) => ledger' = ledger
<1> DEFINE e == [key |-> <<req[c].key, suffix>>, account |-> account,
                 state |-> state, amount |-> amount]
<1>1. e \in Entry /\ e.account = account /\ e.state = state /\ e.amount = amount
      /\ e.key = <<req[c].key, suffix>>
  BY DEF Entry
<1>2. ledger' = IF \E x \in ledger : x.key = <<req[c].key, suffix>>
                THEN ledger ELSE ledger \cup {e}
  BY DEF CreateEntry
<1> HIDE DEF e
<1>3. CASE ~Free(c, suffix)
  <2>1. ledger' = ledger
    BY <1>2, <1>3 DEF Free
  <2>2. Posted(a, s)' = Posted(a, s)
    BY <2>1 DEF Posted
  <2> QED
    BY <1>3, <2>1, <2>2
<1>4. CASE Free(c, suffix)
  <2>1. ledger' = ledger \cup {e} /\ e \notin ledger
    BY <1>1, <1>2, <1>4 DEF Free
  <2>2. Posted(a, s)' = Posted(a, s) + (IF e.account = a /\ e.state = s
                                         THEN e.amount ELSE 0)
    BY <1>1, <2>1, PostedAdded
  <2>4. Posted(a, s) \in Int
    BY PostedType
  <2> QED
    BY <1>1, <1>4, <2>2, <2>4
<1> QED
  BY <1>3, <1>4

-----------------------------------------------------------------------------
(* What a call has not recorded yet.                                        *)

\* Nothing, while it has not written the user's wallet.
LEMMA NothingUnrecorded ==
    ASSUME NEW c, NEW u
    PROVE  /\ "user" \notin applied[c] => Unrecorded(c, u) = 0
           /\ "user" \notin applied'[c] => Unrecorded(c, u)' = 0
BY DEF Unrecorded

\* An amount of points otherwise.
LEMMA UnrecordedType ==
    ASSUME Shape, NEW u
    PROVE  \A c \in Calls : Unrecorded(c, u) \in Int
<1> TAKE c \in Calls
<1>1. req[c].amount \in Int /\ req[c].refund \in Int
  BY RequestFields
<1> QED
  BY <1>1 DEF Unrecorded, Released

\* A step of a call changes nothing of what the others have not recorded.
LEMMA UnrecordedKept ==
    ASSUME IInv, AppliedOK, EntriesOK, EntriesOK',
           NEW c \in Calls, Call(c) \/ Step(c) \/ Crash(c),
           NEW d \in Calls \ {c}, NEW u
    PROVE  Unrecorded(d, u)' = Unrecorded(d, u)
<1>0. /\ pc'[d] = pc[d] /\ req'[d] = req[d] /\ applied'[d] = applied[d]
  BY StepFrame DEF Frame, IInv, Shape
<1>1. CASE "user" \notin applied[d]
  BY <1>0, <1>1, NothingUnrecorded
<1>2. CASE "user" \in applied[d] /\ req[d].kind = "settle"
  <2>1. Unrecorded(d, u) = 0
    BY <1>2 DEF Unrecorded
  <2>2. Unrecorded(d, u)' = 0
    BY <1>0, <1>2 DEF Unrecorded
  <2> QED
    BY <2>1, <2>2
<1>3. CASE "user" \in applied[d] /\ req[d].kind # "settle"
  <2>1. PastClaim(d)
    BY <1>3 DEF PastClaim
  <2>2. req[d].kind = "refund" => (RefundRecorded(d)' <=> RefundRecorded(d))
    BY <2>1, RefundRecordedKept
  <2> QED
    BY <1>0, <1>3, <2>2 DEF Unrecorded, Payer, Released
<1> QED
  BY <1>1, <1>2, <1>3

\* What a user's available balance and ledger entries say of each other.
Explained(u) ==
    wallets[u].available = others[u].net + Posted(u, "available")
                             + SumFunction([c \in Calls |-> Unrecorded(c, u)])

\* The equation survives a step of c that changes the two sides alike.
LEMMA ExplainedByStep ==
    ASSUME IInv, AppliedOK, EntriesOK, EntriesOK', Shape',
           NEW c \in Calls, Call(c) \/ Step(c) \/ Crash(c), NEW u \in Users,
           Explained(u), others' = others, wallets[u].available \in Int,
           wallets'[u].available \in Int, Posted(u, "available")' \in Int,
           Unrecorded(c, u)' \in Int,
           wallets'[u].available - wallets[u].available
             = Posted(u, "available")' - Posted(u, "available")
                 + Unrecorded(c, u)' - Unrecorded(c, u)
    PROVE  Explained(u)'
<1> DEFINE U == [d \in Calls |-> Unrecorded(d, u)]
           V == [d \in Calls |-> Unrecorded(d, u)']
<1>1. /\ \A d \in Calls : U[d] \in Int /\ V[d] \in Int
      /\ \A d \in Calls \ {c} : V[d] = U[d]
      /\ U[c] = Unrecorded(c, u) /\ V[c] = Unrecorded(c, u)'
  <2>1. \A d \in Calls : Unrecorded(d, u) \in Int
    BY UnrecordedType DEF IInv
  <2>2. \A d \in Calls \ {c} : Unrecorded(d, u)' = Unrecorded(d, u)
    BY UnrecordedKept
  <2> QED
    BY <2>1, <2>2
<1>2. wallets[u].available = others[u].net + Posted(u, "available")
                               + SumFunctionOnSet(U, Calls)
  BY DEF Explained, SumFunction
<1>3. Explained(u)' <=> wallets'[u].available = others'[u].net + Posted(u, "available")'
                               + SumFunctionOnSet(V, Calls)
  BY DEF Explained, SumFunction
<1>4. others[u].net \in Int /\ Posted(u, "available") \in Int
  BY PostedType DEF IInv, Shape, TypeOK, EntriesOK
<1> HIDE DEF U, V
<1>5. SumFunctionOnSet(V, Calls) = SumFunctionOnSet(U, Calls) + V[c] - U[c]
      /\ SumFunctionOnSet(U, Calls) \in Int
  BY <1>1, SumChange, SumType, FiniteAssumption
<1> QED
  BY <1>1, <1>2, <1>3, <1>4, <1>5

-----------------------------------------------------------------------------
(* Every step keeps available balances explained.                           *)

\* Three actions of a call write user wallets, one of them no balance.
LEMMA WalletWriters ==
    ASSUME NEW c \in Calls, Call(c) \/ Step(c) \/ Crash(c)
    PROVE  /\ \/ wallets' = wallets \/ HoldCreateWallet(c)
              \/ HoldCasWallet(c) \/ CasUser(c)
           /\ \/ applied' = applied \/ HoldCasWallet(c) \/ CasUser(c) \/ CasModel(c)
           /\ others' = others
BY DEF Call, Claim, Crash, Step, HoldStep, ResolveStep, HoldRead, HoldCreateWallet,
       HoldCreateItem, HoldCasWallet, HoldDeleteItem, HoldDebit, HoldCredit,
       HoldPublish, Lock, ReadUser, ReadModel, CreateModel, CasModel, CasUser,
       Unlock, Finalize, Record, RecordSettle

\* Creating a wallet gives it no points.
LEMMA CreatedEmpty ==
    ASSUME TypeOK, NEW c \in Calls, HoldCreateWallet(c), NEW u \in Users
    PROVE  /\ wallets'[u].available = wallets[u].available
           /\ wallets'[u].escrow = wallets[u].escrow
<1>1. wallets[u] \in Wallet
  BY DEF TypeOK
<1>2. wallets'[u] \in {wallets[u], [wallets[u] EXCEPT !.present = TRUE]}
  BY DEF HoldCreateWallet, TypeOK
<1> QED
  BY <1>1, <1>2 DEF Wallet

\* The steps that write no user wallet before the call has written one.
LEMMA BeforeUserWrite ==
    ASSUME IInv, AppliedOK, NEW c \in Calls, Call(c) \/ Step(c) \/ Crash(c),
           "user" \notin applied[c], "user" \notin applied'[c], NEW u \in Users
    PROVE  /\ wallets'[u].available = wallets[u].available
           /\ wallets'[u].escrow = wallets[u].escrow
           /\ ledger' = ledger
<1>0. /\ TypeOK /\ Shape /\ applied[c] \in AppliedAt(req[c].kind, pc[c]) /\ RequestOK(c)
  BY RequestFields DEF IInv, Shape, AppliedOK
<1>1. wallets'[u].available = wallets[u].available
      /\ wallets'[u].escrow = wallets[u].escrow
  <2>1. ASSUME HoldCasWallet(c) \/ CasUser(c) PROVE wallets' = wallets
    BY <1>0, <2>1 DEF HoldCasWallet, CasUser, TypeOK
  <2> QED
    BY <1>0, <2>1, WalletWriters, CreatedEmpty
<1>2. ~HoldDebit(c) /\ ~HoldCredit(c)
  BY <1>0 DEF HoldDebit, HoldCredit, AppliedAt, RequestOK, HoldSteps
<1>3. ~Record(c) /\ ~RecordSettle(c)
  BY <1>0 DEF Record, RecordSettle, AppliedAt, RequestOK, Resolving
<1> QED
  BY <1>1, <1>2, <1>3, LedgerWriters

\* The steps after it.
LEMMA AfterUserWrite ==
    ASSUME IInv, AppliedOK, NEW c \in Calls, Call(c) \/ Step(c) \/ Crash(c),
           "user" \in applied[c]
    PROVE  \/ HoldDebit(c) \/ HoldCredit(c) \/ HoldPublish(c) \/ CasModel(c)
           \/ Unlock(c) \/ Finalize(c) \/ Record(c) \/ RecordSettle(c) \/ Crash(c)
<1>0. /\ TypeOK /\ Shape /\ applied[c] \in AppliedAt(req[c].kind, pc[c]) /\ RequestOK(c)
  BY RequestFields DEF IInv, Shape, AppliedOK
<1>1. pc[c] \in {"debit", "credit", "publish", "casModel", "unlock", "finalize",
                 "record", "recordSettle", "returned", "thrown"}
  BY <1>0 DEF AppliedAt
<1>2. ~Call(c) /\ ~Claim(c)
  BY <1>1 DEF Call, Claim
<1>3. HoldStep(c) => HoldDebit(c) \/ HoldCredit(c) \/ HoldPublish(c)
  BY <1>1 DEF HoldStep, HoldRead, HoldCreateWallet, HoldCreateItem, HoldCasWallet,
              HoldDeleteItem
<1>4. ResolveStep(c) => CasModel(c) \/ Unlock(c) \/ Finalize(c) \/ Record(c)
                        \/ RecordSettle(c)
  BY <1>1 DEF ResolveStep, Lock, ReadUser, ReadModel, CreateModel, CasUser
<1> QED
  BY <1>2, <1>3, <1>4 DEF Step

\* The two writes themselves: a hold moves points into escrow, the others out of it.
LEMMA UserWrite ==
    ASSUME IInv, NEW c \in Calls, Call(c) \/ Step(c) \/ Crash(c),
           "user" \notin applied[c], "user" \in applied'[c], NEW u \in Users
    PROVE  /\ Payer(c) \in Users /\ req' = req /\ items' = items /\ ledger' = ledger
           /\ models' = models /\ others' = others
           /\ applied' = [applied EXCEPT ![c] = @ \cup {"user"}]
           /\ u # Payer(c) => wallets'[u] = wallets[u]
           /\ \/ /\ HoldCasWallet(c) /\ IsHold(c) /\ pc'[c] = "debit"
                 /\ u = Payer(c) =>
                      /\ wallets'[u].available = wallets[u].available - req[c].amount
                      /\ wallets'[u].escrow = wallets[u].escrow + req[c].amount
              \/ /\ CasUser(c) /\ IsResolve(c) /\ HoldsLock(c)
                 /\ pc'[c] = IF req[c].kind = "partial" THEN "casModel" ELSE "finalize"
                 /\ Released(c) \in Int /\ Unescrowed(c) \in Int
                 /\ u = Payer(c) =>
                      /\ wallets'[u].available = wallets[u].available + Released(c)
                      /\ wallets'[u].escrow = wallets[u].escrow - Unescrowed(c)
<1>0. /\ TypeOK /\ Shape /\ EscrowLockExclusive
      /\ wallets[u].available \in Int /\ wallets[u].escrow \in Int
  BY DEF IInv, Shape, TypeOK, Wallet
<1>1. HoldCasWallet(c) \/ CasUser(c)
  <2>1. ASSUME CasModel(c) PROVE "user" \notin applied'[c]
    <3>1. applied' = applied \/ applied' = [applied EXCEPT ![c] = @ \cup {"model"}]
      BY <2>1 DEF CasModel
    <3> QED
      BY <1>0, <3>1 DEF TypeOK
  <2>2. applied' # applied
    OBVIOUS
  <2> QED
    BY <2>1, <2>2, WalletWriters
<1>2. CASE HoldCasWallet(c)
  <2>1. IsHold(c) /\ HoldSaw(c) /\ Payer(c) = req[c].user /\ Payer(c) \in Users
    BY <1>0, <1>2, HoldFields DEF HoldCasWallet, HoldSteps, IInv, SnapshotsOK, IsHold, Payer
  <2>2. /\ SameVersion(c) /\ pc' = [pc EXCEPT ![c] = "debit"]
        /\ applied' = [applied EXCEPT ![c] = @ \cup {"user"}]
        /\ wallets' = [wallets EXCEPT ![req[c].user] =
                 [present   |-> TRUE,
                  available |-> sawWallet[c].available - req[c].amount,
                  escrow    |-> sawWallet[c].escrow + req[c].amount,
                  version   |-> sawWallet[c].version + 1]]
    BY <1>2 DEF HoldCasWallet
  <2>3. sawWallet[c] = wallets[req[c].user]
    BY <2>1, <2>2 DEF SameVersion, HoldSaw
  <2>4. u = Payer(c) =>
           /\ wallets'[u].available = wallets[u].available - req[c].amount
           /\ wallets'[u].escrow = wallets[u].escrow + req[c].amount
    BY <1>0, <2>1, <2>2, <2>3 DEF TypeOK
  <2>5. u # Payer(c) => wallets'[u] = wallets[u]
    BY <1>0, <2>1, <2>2 DEF TypeOK
  <2>6. pc'[c] = "debit"
    BY <1>0, <2>2 DEF TypeOK
  <2>7. /\ req' = req /\ items' = items /\ ledger' = ledger
        /\ models' = models /\ others' = others
    BY <1>2 DEF HoldCasWallet
  <2> QED
    BY <1>2, <2>1, <2>2, <2>4, <2>5, <2>6, <2>7
<1>3. CASE CasUser(c)
  <2>1. IsResolve(c) /\ HoldsLock(c) /\ Payer(c) \in Users /\ req[c].escrow \in EscrowIds
    BY <1>0, <1>3, ResolveFields, LockedItem DEF CasUser, LockedSteps
  <2>2. /\ applied' = [applied EXCEPT ![c] = @ \cup {"user"}]
        /\ wallets' = [wallets EXCEPT ![Payer(c)] =
                             Inc(wallets[Payer(c)], Released(c), -Unescrowed(c))]
        /\ pc'[c] = IF req[c].kind = "partial" THEN "casModel" ELSE "finalize"
    BY <1>0, <1>3 DEF CasUser, TypeOK
  <2>3. Released(c) \in Int /\ Unescrowed(c) \in Int /\ -Unescrowed(c) \in Int
    <3>1. items[req[c].escrow].amount \in Nat
      <4>1. items[req[c].escrow] \in Item
        BY <1>0, <2>1 DEF TypeOK
      <4> QED
        BY <4>1, PointsAreNaturals DEF Item
    <3> QED
      BY <1>0, <3>1, RequestFields DEF Released, Unescrowed
  <2>4. u = Payer(c) =>
           /\ wallets'[u].available = wallets[u].available + Released(c)
           /\ wallets'[u].escrow = wallets[u].escrow - Unescrowed(c)
    <3>1. ASSUME NEW w \in Wallet, NEW a \in Int, NEW b \in Int
          PROVE  /\ Inc(w, a, -b).available = w.available + a
                 /\ Inc(w, a, -b).escrow = w.escrow - b
      BY DEF Inc, Wallet
    <3>2. u = Payer(c) => wallets'[u] = Inc(wallets[u], Released(c), -Unescrowed(c))
      BY <1>0, <2>1, <2>2 DEF TypeOK
    <3>3. wallets[u] \in Wallet
      BY <1>0 DEF TypeOK
    <3> QED
      BY <2>3, <3>1, <3>2, <3>3
  <2>5. u # Payer(c) => wallets'[u] = wallets[u]
    BY <1>0, <2>1, <2>2 DEF TypeOK
  <2>6. /\ req' = req /\ items' = items /\ ledger' = ledger
        /\ models' = models /\ others' = others
    BY <1>3 DEF CasUser
  <2> QED
    BY <1>3, <2>1, <2>2, <2>3, <2>4, <2>5, <2>6
<1> QED
  BY <1>1, <1>2, <1>3

\* The balance stays explained in every step of a call.
LEMMA ExplainedCall ==
    ASSUME IInv, AppliedOK, EntriesOK, AppliedOK', EntriesOK', Shape',
           NEW c \in Calls, Call(c) \/ Step(c) \/ Crash(c), NEW u \in Users,
           Explained(u)
    PROVE  Explained(u)'
<1> DEFINE K == req[c].kind
<1>0. /\ TypeOK /\ Shape /\ RequestOK(c) /\ IsFiniteSet(ledger)
      /\ applied[c] \in AppliedAt(K, pc[c]) /\ others' = others
      /\ wallets[u].available \in Int /\ Posted(u, "available") \in Int
      /\ Unrecorded(c, u) \in Int /\ req[c].amount \in Nat /\ req[c].refund \in Nat
  BY RequestFields, WalletWriters, PostedType, UnrecordedType
     DEF IInv, Shape, AppliedOK, EntriesOK, TypeOK, Wallet
<1>1. ASSUME wallets'[u].available = wallets[u].available,
             Posted(u, "available")' = Posted(u, "available"),
             Unrecorded(c, u)' = Unrecorded(c, u)
      PROVE  Explained(u)'
  BY <1>0, <1>1, ExplainedByStep
<1>2. ledger' = ledger => Posted(u, "available")' = Posted(u, "available")
  BY DEF Posted
<1>3. CASE "user" \notin applied[c] /\ "user" \notin applied'[c]
  <2>1. wallets'[u].available = wallets[u].available /\ ledger' = ledger
    BY <1>3, BeforeUserWrite
  <2>2. Unrecorded(c, u) = 0 /\ Unrecorded(c, u)' = 0
    BY <1>3, NothingUnrecorded
  <2> QED
    BY <1>1, <1>2, <2>1, <2>2
<1>4. CASE "user" \notin applied[c] /\ "user" \in applied'[c]
  <2>1. Unrecorded(c, u) = 0
    BY <1>4, NothingUnrecorded
  <2>2. req' = req /\ items' = items /\ ledger' = ledger /\ Payer(c)' = Payer(c)
    BY <1>4, UserWrite DEF Payer
  <2>3. CASE u # Payer(c)
    <3>1. wallets'[u] = wallets[u]
      BY <1>4, <2>3, UserWrite
    <3>2. Unrecorded(c, u)' = 0
      BY <2>2, <2>3 DEF Unrecorded
    <3> QED
      BY <1>1, <1>2, <2>1, <2>2, <3>1, <3>2
  <2>4. CASE u = Payer(c) /\ HoldCasWallet(c)
    <3>1. /\ IsHold(c) /\ pc'[c] = "debit"
          /\ wallets'[u].available = wallets[u].available + (-req[c].amount)
      BY <1>0, <1>4, <2>4, UserWrite DEF HoldCasWallet, CasUser
    <3>2. Unrecorded(c, u)' = -req[c].amount
      BY <1>4, <2>2, <2>4, <3>1 DEF Unrecorded, IsHold
    <3> QED
      BY <1>0, <1>2, <2>1, <2>2, <3>1, <3>2, ExplainedByStep
  <2>5. CASE u = Payer(c) /\ CasUser(c)
    <3>1. /\ IsResolve(c) /\ Released(c) \in Int
          /\ pc[c] = "casUser"
          /\ pc'[c] = IF K = "partial" THEN "casModel" ELSE "finalize"
          /\ wallets'[u].available = wallets[u].available + Released(c)
      BY <1>4, <2>5, UserWrite DEF CasUser, HoldCasWallet
    <3>2. K \in {"settle", "refund", "partial"}
      BY <3>1 DEF IsResolve, Resolving
    <3>3. K = "refund" => ~RefundRecorded(c)'
      <4>1. K = "refund" => ~RefundRecorded(c)
        BY <3>1, RefundRecorder DEF PastClaim
      <4> QED
        BY <2>2, <4>1 DEF RefundRecorded
    <3>4. Released(c)' = Released(c) /\ (K = "settle" => Released(c) = 0)
      BY <2>2 DEF Released
    <3>5. Unrecorded(c, u)' = Released(c)
      BY <1>4, <2>2, <2>5, <3>1, <3>2, <3>3, <3>4 DEF Unrecorded
    <3> QED
      BY <1>0, <1>2, <2>1, <2>2, <3>1, <3>5, ExplainedByStep
  <2> QED
    BY <1>4, <2>3, <2>4, <2>5, UserWrite
<1>5. ASSUME "user" \in applied[c], req' = req, "user" \in applied'[c],
             K \in {"refund", "partial"} =>
                (Unrecorded(c, u)' = Unrecorded(c, u) \/ Payer(c) # u),
             K = "hold" => pc[c] # "debit" /\ pc'[c] # "debit"
      PROVE  Unrecorded(c, u)' = Unrecorded(c, u)
  <2>1. CASE K \in {"refund", "partial"}
    <3>1. K # "settle" => Payer(c)' = Payer(c)
      BY <1>5 DEF Payer
    <3> QED
      BY <1>5, <2>1, <3>1 DEF Unrecorded
  <2>2. CASE K \notin {"refund", "partial"}
    <3>1. Unrecorded(c, u) = 0
      BY <1>5, <2>2 DEF Unrecorded
    <3>2. Unrecorded(c, u)' = 0
      BY <1>5, <2>2 DEF Unrecorded
    <3> QED
      BY <3>1, <3>2
  <2> QED
    BY <2>1, <2>2
<1>6. CASE "user" \in applied[c]
  <2>0. /\ wallets' = wallets /\ req' = req
        /\ "user" \in applied'[c]
    <3>1. wallets' = wallets /\ req' = req
      BY <1>6, AfterUserWrite DEF HoldDebit, HoldCredit, HoldPublish, CasModel, Unlock,
         Finalize, Record, RecordSettle, Crash
    <3>2. applied' = applied \/ applied' = [applied EXCEPT ![c] = @ \cup {"model"}]
      BY <1>6, AfterUserWrite DEF HoldDebit, HoldCredit, HoldPublish, CasModel, Unlock,
         Finalize, Record, RecordSettle, Crash
    <3> QED
      BY <1>0, <1>6, <3>1, <3>2 DEF TypeOK
  <2>1. CASE HoldDebit(c)
    <3>1. /\ IsHold(c) /\ pc[c] = "debit" /\ pc'[c] = "credit"
          /\ CreateEntry(c, "_debit", req[c].user, "available", -req[c].amount)
          /\ Payer(c) = req[c].user
      BY <1>0, <2>1, HoldFields DEF HoldDebit, HoldSteps, TypeOK, IsHold, Payer
    <3>2. Free(c, "_debit")
      BY <3>1, KeyFree
    <3>3. /\ req[c].key \in Keys /\ "_debit" \in Suffixes
          /\ req[c].user \in Users \cup Models /\ -req[c].amount \in Int
      BY <3>1 DEF IsHold, Suffixes
    <3>4. /\ u # req[c].user => Posted(u, "available")' = Posted(u, "available")
          /\ u = req[c].user =>
                Posted(u, "available")' = Posted(u, "available") + (-req[c].amount)
      BY <1>0, <3>1, <3>2, <3>3, PostedByCreate
    <3>5. Unrecorded(c, u) = IF u = req[c].user THEN -req[c].amount ELSE 0
      BY <1>6, <3>1 DEF Unrecorded, IsHold
    <3>6. Unrecorded(c, u)' = 0
      BY <2>0, <3>1 DEF Unrecorded, IsHold
    <3> QED
      BY <1>0, <1>1, <2>0, <3>3, <3>4, <3>5, <3>6, ExplainedByStep
  <2>2. CASE HoldCredit(c) \/ HoldPublish(c)
    <3>1. IsHold(c) /\ pc[c] # "debit" /\ pc'[c] # "debit"
      BY <1>0, <2>2, HoldFields DEF HoldCredit, HoldPublish, HoldSteps, TypeOK
    <3>2. Posted(u, "available")' = Posted(u, "available")
      <4>1. CASE HoldCredit(c)
        <5>1. CreateEntry(c, "_credit", req[c].user, "escrow", req[c].amount)
          BY <4>1 DEF HoldCredit
        <5>2. /\ req[c].key \in Keys /\ "_credit" \in Suffixes
              /\ req[c].user \in Users \cup Models /\ req[c].amount \in Int
          BY <3>1 DEF IsHold, Suffixes
        <5> QED
          BY <1>0, <5>1, <5>2, PostedByCreate
      <4>2. CASE HoldPublish(c)
        BY <1>2, <4>2 DEF HoldPublish
      <4> QED
        BY <2>2, <4>1, <4>2
    <3> QED
      BY <1>1, <1>5, <1>6, <2>0, <3>1, <3>2 DEF IsHold
  <2>3. CASE CasModel(c) \/ Unlock(c) \/ Finalize(c)
    <3>1. ledger' = ledger /\ IsResolve(c) /\ (RefundRecorded(c)' <=> RefundRecorded(c))
      BY <1>0, <2>0, <2>3, ResolveFields DEF CasModel, Unlock, Finalize, LockedSteps,
         RefundRecorded
    <3>2. K \in {"settle", "refund", "partial"} /\ (K # "settle" => Payer(c)' = Payer(c))
          /\ Released(c)' = Released(c)
      BY <2>0, <3>1 DEF IsResolve, Resolving, Payer, Released
    <3>3. K = "refund" => Unrecorded(c, u)' = Unrecorded(c, u)
      BY <1>6, <2>0, <3>1, <3>2 DEF Unrecorded
    <3>4. K = "partial" => Unrecorded(c, u)' = Unrecorded(c, u)
      <4>1. pc[c] \notin {"recordSettle", "returned"}
        BY <2>3 DEF CasModel, Unlock, Finalize
      <4>2. K = "partial" => \/ pc'[c] \notin {"recordSettle", "returned"}
                             \/ req[c].refund = 0
        BY <1>0, <2>3 DEF CasModel, Unlock, Finalize, TypeOK
      <4>3. K = "partial" => Released(c) = req[c].refund
        BY DEF Released
      <4> QED
        BY <1>6, <2>0, <3>2, <4>1, <4>2, <4>3 DEF Unrecorded
    <3> QED
      BY <1>1, <1>2, <1>5, <1>6, <2>0, <3>1, <3>2, <3>3, <3>4
  <2>4. CASE Record(c) /\ K = "settle"
    <3>1. PICK suffix \in Suffixes : CreateEntry(c, suffix, req[c].model, "earned", req[c].amount)
      BY <2>4 DEF Record, Suffixes
    <3>2. req[c].key \in Keys /\ req[c].model \in Users \cup Models /\ req[c].amount \in Int
      BY <1>0, <2>4 DEF RequestOK
    <3>3. Posted(u, "available")' = Posted(u, "available")
      BY <1>0, <3>1, <3>2, PostedByCreate
    <3> QED
      BY <1>1, <1>5, <1>6, <2>0, <2>4, <3>3
  <2>5. CASE RecordSettle(c)
    <3>1. CreateEntry(c, "_settle", req[c].model, "earned", req[c].amount)
          /\ pc[c] = "recordSettle" /\ pc'[c] = "returned" /\ K = "partial"
      BY <1>0, <2>5 DEF RecordSettle, RequestOK, TypeOK
    <3>2. req[c].key \in Keys /\ req[c].model \in Users \cup Models /\ req[c].amount \in Int
          /\ "_settle" \in Suffixes
      BY <1>0, <3>1 DEF RequestOK, Suffixes
    <3>3. Posted(u, "available")' = Posted(u, "available")
      BY <1>0, <3>1, <3>2, PostedByCreate
    <3>4. Unrecorded(c, u) = 0
      BY <3>1 DEF Unrecorded
    <3>5. Unrecorded(c, u)' = 0
      BY <2>0, <3>1 DEF Unrecorded
    <3> QED
      BY <1>1, <2>0, <3>3, <3>4, <3>5
  <2>6. CASE Record(c) /\ K = "partial"
    <3>1. /\ CreateEntry(c, "_refund", req[c].user, "available", req[c].refund)
          /\ pc[c] = "record" /\ pc'[c] \in {"recordSettle", "returned"}
          /\ Payer(c) = req[c].user
      BY <1>0, <2>6 DEF Record, AfterRefundEntry, TypeOK, Payer
    <3>2. /\ req[c].key \in Keys /\ req[c].user \in Users \cup Models
          /\ req[c].refund \in Int /\ "_refund" \in Suffixes
      BY <1>0, <2>6 DEF RequestOK, Suffixes
    <3>3. Free(c, "_refund")
      BY <2>6, <3>1, KeyFree
    <3>4. /\ u # req[c].user => Posted(u, "available")' = Posted(u, "available")
          /\ u = req[c].user =>
                Posted(u, "available")' = Posted(u, "available") + req[c].refund
      BY <1>0, <3>1, <3>2, <3>3, PostedByCreate
    <3>5. Unrecorded(c, u) = IF u = req[c].user THEN req[c].refund ELSE 0
      BY <1>6, <2>6, <3>1 DEF Unrecorded, Released
    <3>6. Unrecorded(c, u)' = 0
      BY <2>0, <2>6, <3>1 DEF Unrecorded
    <3> QED
      BY <1>0, <1>1, <2>0, <3>2, <3>4, <3>5, <3>6, ExplainedByStep
  <2>7. CASE Record(c) /\ K = "refund"
    <3>1. PICK suffix \in Suffixes :
             /\ suffix = ""
             /\ CreateEntry(c, suffix, req[c].user, "available", req[c].amount)
      BY <2>7 DEF Record, Suffixes
    <3>2. /\ req[c].key \in Keys /\ req[c].user \in Users \cup Models
          /\ req[c].amount \in Int
      BY <1>0, <2>7 DEF RequestOK
    <3>3. pc[c] = "record" /\ Payer(c) = req[c].user /\ Payer(c)' = Payer(c)
          /\ Released(c) = req[c].amount /\ Released(c)' = req[c].amount
      BY <2>0, <2>7 DEF Record, Payer, Released
    <3>4. ~RefundRecorded(c)
      BY <2>7, <3>3, RefundRecorder DEF PastClaim
    <3>5. Unrecorded(c, u) = IF u = req[c].user THEN req[c].amount ELSE 0
      BY <1>6, <2>7, <3>3, <3>4 DEF Unrecorded
    <3>6. CASE ~Free(c, suffix)
      <4>1. ledger' = ledger
        <5>1. suffix \in Suffixes
              /\ CreateEntry(c, suffix, req[c].user, "available", req[c].amount)
          BY <3>1
        <5> QED
          BY <1>0, <5>1, <3>2, <3>6, PostedByCreate
      <4>2. ~RefundRecorded(c)'
        BY <2>0, <3>4, <4>1 DEF RefundRecorded
      <4>3. Unrecorded(c, u)' = IF u = req[c].user THEN req[c].amount ELSE 0
        BY <2>0, <2>7, <3>3, <4>2 DEF Unrecorded
      <4> QED
        BY <1>1, <1>2, <2>0, <3>5, <4>1, <4>3
    <3>7. CASE Free(c, suffix)
      <4>1. /\ u # req[c].user => Posted(u, "available")' = Posted(u, "available")
            /\ u = req[c].user =>
                  Posted(u, "available")' = Posted(u, "available") + req[c].amount
        <5>1. suffix \in Suffixes
              /\ CreateEntry(c, suffix, req[c].user, "available", req[c].amount)
          BY <3>1
        <5> QED
          BY <1>0, <5>1, <3>2, <3>7, PostedByCreate
      <4>2. RefundRecorded(c)'
        <5> DEFINE e == [key |-> <<req[c].key, suffix>>, account |-> req[c].user,
                         state |-> "available", amount |-> req[c].amount]
        <5>1. e \in ledger'
          BY <3>1, <3>7 DEF CreateEntry, Free
        <5>2. e.key = <<req[c].key, suffix>> /\ e.account = req[c].user
              /\ e.state = "available"
          OBVIOUS
        <5> HIDE DEF e
        <5>3. e.key = <<req'[c].key, suffix>> /\ e.account = req'[c].user
          BY <2>0, <5>2
        <5> QED
          BY <3>1, <5>1, <5>2, <5>3, Zenon DEF RefundRecorded
      <4>3. Unrecorded(c, u)' = 0
        BY <2>0, <2>7, <4>2 DEF Unrecorded
      <4> QED
        BY <1>0, <1>1, <2>0, <3>2, <3>5, <4>1, <4>3, ExplainedByStep
    <3> QED
      BY <3>6, <3>7
  <2>8. CASE Crash(c)
    <3>1. /\ pc' = pc /\ applied' = applied /\ items' = items /\ ledger' = ledger
      BY <2>8 DEF Crash
    <3>2. Unrecorded(c, u)' = Unrecorded(c, u)
      BY <2>0, <3>1 DEF Unrecorded, RefundRecorded, Payer, Released
    <3> QED
      BY <1>1, <1>2, <2>0, <3>1, <3>2
  <2>9. Record(c) => K \in {"settle", "refund", "partial"}
    BY <1>0, ResolveFields DEF Record, IsResolve, Resolving
  <2> QED
    BY <1>6, <2>1, <2>2, <2>3, <2>4, <2>5, <2>6, <2>7, <2>8, <2>9, AfterUserWrite
<1> QED
  BY <1>3, <1>4, <1>6

\* The balance stays explained in every step of the system.
LEMMA ExplainedStep ==
    ASSUME IInv, AppliedOK, EntriesOK, AvailableExplained, [Next]_vars,
           AppliedOK', EntriesOK', Shape'
    PROVE  AvailableExplained'
<1>0. \A u \in Users : Explained(u)
  BY DEF AvailableExplained, Explained
<1>1. ASSUME NEW c \in Calls, Call(c) \/ Step(c) \/ Crash(c), NEW u \in Users
      PROVE  Explained(u)'
  BY <1>0, <1>1, ExplainedCall
<1>2. ASSUME NEW x \in Users, OtherWrite(x), NEW u \in Users
      PROVE  Explained(u)'
  <2>1. PICK a \in Amounts : \E d \in {a, -a} :
          /\ wallets' = [wallets EXCEPT ![x] = Inc(wallets[x], d, 0)]
          /\ others' = [others EXCEPT ![x] =
                [count |-> others[x].count + 1, net |-> others[x].net + d]]
    BY <1>2 DEF OtherWrite
  <2>2. PICK d \in {a, -a} :
          /\ wallets' = [wallets EXCEPT ![x] = Inc(wallets[x], d, 0)]
          /\ others' = [others EXCEPT ![x] =
                [count |-> others[x].count + 1, net |-> others[x].net + d]]
    BY <2>1
  <2>3. d \in Int /\ wallets[u] \in Wallet /\ wallets[u].available \in Int
        /\ others[u].net \in Int /\ TypeOK
    BY AmountsAssumption DEF IInv, Shape, TypeOK, Wallet
  <2>4. /\ u = x => /\ wallets'[u].available = wallets[u].available + d
                    /\ others'[u].net = others[u].net + d
        /\ u # x => wallets'[u] = wallets[u] /\ others'[u] = others[u]
    BY <2>2, <2>3 DEF TypeOK, Inc, Wallet
  <2>5. /\ ledger' = ledger /\ pc' = pc /\ req' = req /\ applied' = applied
        /\ items' = items
    BY <1>2 DEF OtherWrite
  <2>6. Posted(u, "available")' = Posted(u, "available")
    BY <2>5 DEF Posted
  <2> DEFINE U == [c \in Calls |-> Unrecorded(c, u)]
  <2>7. U' = U
    BY <2>5 DEF Unrecorded, RefundRecorded, Payer, Released
  <2>8. U \in [Calls -> Int] /\ Posted(u, "available") \in Int
    BY UnrecordedType, PostedType DEF IInv, Shape, EntriesOK
  <2>9. wallets[u].available = others[u].net + Posted(u, "available") + SumFunction(U)
        /\ (Explained(u)' <=> wallets'[u].available
               = others'[u].net + Posted(u, "available")' + SumFunction(U'))
    BY <1>0 DEF Explained
  <2>10. SumFunction(U) \in Int
    <3>1. DOMAIN U = Calls /\ \A c \in Calls : U[c] \in Int
      BY <2>8
    <3> HIDE DEF U
    <3> QED
      BY <3>1, SumType, FiniteAssumption DEF SumFunction
  <2> HIDE DEF U
  <2> QED
    BY <2>3, <2>4, <2>6, <2>7, <2>8, <2>9, <2>10
<1>3. ASSUME UNCHANGED vars, NEW u \in Users PROVE Explained(u)'
  <2>1. /\ ledger' = ledger /\ pc' = pc /\ req' = req /\ applied' = applied
        /\ items' = items /\ wallets' = wallets /\ others' = others
    BY <1>3 DEF vars
  <2> DEFINE U == [c \in Calls |-> Unrecorded(c, u)]
  <2>2. U' = U
    BY <2>1 DEF Unrecorded, RefundRecorded, Payer, Released
  <2>3. Posted(u, "available")' = Posted(u, "available")
    BY <2>1 DEF Posted
  <2>4. /\ Explained(u) <=> wallets[u].available
               = others[u].net + Posted(u, "available") + SumFunction(U)
        /\ Explained(u)' <=> wallets'[u].available
               = others'[u].net + Posted(u, "available")' + SumFunction(U')
    BY DEF Explained
  <2> HIDE DEF U
  <2> QED
    BY <1>0, <2>1, <2>2, <2>3, <2>4
<1>4. \A u \in Users : Explained(u)'
  BY <1>1, <1>2, <1>3 DEF Next
<1> QED
  BY <1>4 DEF AvailableExplained, Explained


-----------------------------------------------------------------------------
(* The points that open items stand for.                                    *)

\* An item is open for a user: a term for every id makes one sum of them.
Open(e, u) == /\ items[e].user = u /\ ~Unfunded(e)
              /\ items[e].status \in {"held"} \cup Processing
Backing(e, u) == IF Open(e, u) THEN items[e].amount ELSE 0
BackedSum(u) == SumFunction([e \in EscrowIds |-> Backing(e, u)])

\* It is the sum over the open items.
LEMMA BackedSumOf ==
    ASSUME TypeOK, NEW u
    PROVE  /\ SumFunction([e \in OpenItems(u) |-> items[e].amount]) = BackedSum(u)
           /\ BackedSum(u) \in Int
<1> DEFINE O == OpenItems(u)
           F == [e \in O |-> items[e].amount]
           G == [e \in EscrowIds |-> Backing(e, u)]
<1>1. /\ O \in SUBSET EscrowIds /\ IsFiniteSet(EscrowIds)
      /\ \A e \in EscrowIds : e \in O <=> Open(e, u)
      /\ \A e \in EscrowIds : items[e].amount \in Nat
  BY FiniteAssumption, PointsAreNaturals DEF OpenItems, Open, TypeOK, Item
<1>2. /\ \A e \in EscrowIds : G[e] \in Int
      /\ \A e \in EscrowIds \ O : G[e] = 0
      /\ \A e \in O : F[e] = G[e]
  BY <1>1 DEF Backing
<1>3. /\ SumFunction(F) = SumFunctionOnSet(F, O)
      /\ BackedSum(u) = SumFunctionOnSet(G, EscrowIds)
  BY DEF SumFunction, BackedSum
<1> HIDE DEF O, F, G
<1>4. IsFiniteSet(O)
  BY <1>1, FS_Subset
<1>5. SumFunctionOnSet(F, O) = SumFunctionOnSet(G, O)
  BY <1>2, <1>4, SumEqual
<1>6. SumFunctionOnSet(G, O) = SumFunctionOnSet(G, EscrowIds)
  BY <1>1, <1>2, SumSupport
<1>7. SumFunctionOnSet(G, EscrowIds) \in Int
  BY <1>1, <1>2, SumType
<1> QED
  BY <1>3, <1>5, <1>6, <1>7 DEF F, O

\* The terms are amounts of points.
LEMMA BackingType ==
    ASSUME TypeOK, TypeOK', NEW e \in EscrowIds, NEW u
    PROVE  Backing(e, u) \in Int /\ Backing(e, u)' \in Int
<1>1. items[e].amount \in Nat /\ items'[e].amount \in Nat
  BY PointsAreNaturals DEF TypeOK, Item
<1> QED
  BY <1>1 DEF Backing

\* The sum follows the one term that changes.
LEMMA BackedSumMoves ==
    ASSUME TypeOK, TypeOK', NEW u, NEW x \in EscrowIds,
           \A e \in EscrowIds \ {x} : Backing(e, u)' = Backing(e, u)
    PROVE  BackedSum(u)' = BackedSum(u) + Backing(x, u)' - Backing(x, u)
<1> DEFINE F == [e \in EscrowIds |-> Backing(e, u)]
           G == [e \in EscrowIds |-> Backing(e, u)']
<1>1. /\ \A e \in EscrowIds : F[e] \in Int /\ G[e] \in Int
      /\ \A e \in EscrowIds \ {x} : G[e] = F[e]
      /\ F[x] = Backing(x, u) /\ G[x] = Backing(x, u)'
  BY BackingType
<1>2. /\ BackedSum(u) = SumFunctionOnSet(F, EscrowIds)
      /\ BackedSum(u)' = SumFunctionOnSet(G, EscrowIds)
  BY DEF BackedSum, SumFunction
<1> HIDE DEF F, G
<1>3. SumFunctionOnSet(G, EscrowIds) = SumFunctionOnSet(F, EscrowIds) + G[x] - F[x]
  BY <1>1, SumChange, FiniteAssumption
<1> QED
  BY <1>1, <1>2, <1>3

\* It does not change with none.
LEMMA BackedSumKept ==
    ASSUME NEW u, \A e \in EscrowIds : Backing(e, u)' = Backing(e, u)
    PROVE  BackedSum(u)' = BackedSum(u)
<1> DEFINE F == [e \in EscrowIds |-> Backing(e, u)]
           G == [e \in EscrowIds |-> Backing(e, u)']
<1>1. F = G
  OBVIOUS
<1>2. BackedSum(u) = SumFunction(F) /\ BackedSum(u)' = SumFunction(G)
  BY DEF BackedSum
<1> QED
  BY <1>1, <1>2

\* Whether an item waits for its hold's wallet write is up to the holds alone.
LEMMA UnfundedKept ==
    ASSUME TypeOK, NEW c \in Calls, Call(c) \/ Step(c) \/ Crash(c), NEW e,
           (req'[c].kind = "hold" /\ req'[c].escrow = e /\ applied'[c] = {})
             <=> (req[c].kind = "hold" /\ req[c].escrow = e /\ applied[c] = {})
    PROVE  Unfunded(e)' <=> Unfunded(e)
<1>1. \A d \in Calls \ {c} : req'[d] = req[d] /\ applied'[d] = applied[d]
  BY StepFrame DEF Frame
<1> QED
  BY <1>1 DEF Unfunded

\* The terms that follow from it.
LEMMA BackingKept ==
    ASSUME NEW e, NEW u, Unfunded(e)' <=> Unfunded(e),
           items'[e].user = items[e].user, items'[e].amount = items[e].amount,
           items'[e].status \in {"held"} \cup Processing
             <=> items[e].status \in {"held"} \cup Processing
    PROVE  Backing(e, u)' = Backing(e, u)
BY DEF Backing, Open


-----------------------------------------------------------------------------
(* What a step does to them.                                                *)

\* Creating and deleting an item of a hold that has not written the wallet,
\* locking and unlocking one, change nothing.
LEMMA BackingSteps ==
    ASSUME IInv, NEW c \in Calls, Call(c) \/ Step(c) \/ Crash(c), ~Finalize(c),
           req[c].kind = "hold" => applied'[c] = applied[c],
           NEW e \in EscrowIds, NEW u
    PROVE  Backing(e, u)' = Backing(e, u)
<1>0. /\ TypeOK /\ Shape /\ RequestOK(c) /\ EscrowLockExclusive /\ Holds
      /\ e # Null /\ items[e] \in Item
  BY RequestFields, NullAssumption DEF IInv, Shape, TypeOK
<1>1. CASE Call(c)
  <2>1. PICK r \in Requests : req' = [req EXCEPT ![c] = r]
    BY <1>1 DEF Call
  <2>2. r.kind = "hold" => r.escrow = Null
    BY <1>0, CallerRequest
  <2>3. req[c].kind = "none" /\ req'[c] = r /\ items' = items /\ applied' = applied
    BY <1>0, <1>1, <2>1 DEF Call, RequestOK, TypeOK
  <2>4. Unfunded(e)' <=> Unfunded(e)
    BY <1>0, <1>1, <2>2, <2>3, UnfundedKept
  <2> QED
    BY <2>3, <2>4, BackingKept
<1>2. CASE HoldCreateItem(c)
  <2>1. IsHold(c) /\ applied' = applied
    BY <1>0, <1>2, HoldFields DEF HoldCreateItem, HoldSteps
  <2>2. applied[c] = {} /\ req[c].escrow = Null
    BY <1>0, <1>2, <2>1 DEF HoldCreateItem, Holds, HoldPcOK, IsHold, Resolving
  <2>3. CASE items' = items /\ req' = req
    <3>1. Unfunded(e)' <=> Unfunded(e)
      BY <1>0, <1>2, <2>1, <2>3, UnfundedKept DEF Step, HoldStep
    <3> QED
      BY <2>3, <3>1, BackingKept
  <2>4. CASE ~(items' = items /\ req' = req)
    <3>1. PICK x \in EscrowIds :
             /\ items[x].status = "none"
             /\ items' = [items EXCEPT ![x] =
                    [status |-> "held", user |-> req[c].user,
                     amount |-> req[c].amount, queueItem |-> req[c].queueItem]]
             /\ req' = [req EXCEPT ![c].escrow = x]
      BY <1>2, <2>4 DEF HoldCreateItem
    <3>2. req'[c].kind = "hold" /\ req'[c].escrow = x
      BY <1>0, <2>1, <3>1 DEF IsHold, TypeOK, Request
    <3>3. CASE e = x
      <4>1. Unfunded(e)'
        BY <2>1, <2>2, <3>2, <3>3 DEF Unfunded
      <4>2. items[e].status \notin {"held"} \cup Processing
        BY <3>1, <3>3 DEF Processing
      <4> QED
        BY <4>1, <4>2 DEF Backing, Open
    <3>4. CASE e # x
      <4>1. Unfunded(e)' <=> Unfunded(e)
        BY <1>0, <1>2, <2>2, <3>2, <3>4, UnfundedKept DEF Step, HoldStep
      <4>2. items'[e] = items[e]
        BY <1>0, <3>1, <3>4 DEF TypeOK
      <4> QED
        BY <4>1, <4>2, BackingKept
    <3> QED
      BY <3>3, <3>4
  <2> QED
    BY <2>3, <2>4
<1>3. CASE HoldDeleteItem(c)
  <2>1. /\ req[c].kind = "hold" /\ req[c].escrow \in EscrowIds /\ applied[c] = {}
        /\ items' = [items EXCEPT ![req[c].escrow] = NoItem]
    BY <1>0, <1>3, DeletedItem
  <2>2. req'[c].escrow = Null /\ applied' = applied
    BY <1>0, <1>3 DEF HoldDeleteItem, TypeOK, Request
  <2>3. CASE e = req[c].escrow
    <3>1. Unfunded(e)
      BY <2>1, <2>3 DEF Unfunded
    <3>2. items'[e].status \notin {"held"} \cup Processing
      BY <1>0, <2>1, <2>3 DEF NoItem, Processing, TypeOK
    <3> QED
      BY <3>1, <3>2 DEF Backing, Open
  <2>4. CASE e # req[c].escrow
    <3>1. Unfunded(e)' <=> Unfunded(e)
      BY <1>0, <1>3, <2>2, <2>4, UnfundedKept DEF Step, HoldStep
    <3>2. items'[e] = items[e]
      BY <1>0, <2>1, <2>4 DEF TypeOK
    <3> QED
      BY <3>1, <3>2, BackingKept
  <2> QED
    BY <2>3, <2>4
<1>4. CASE Lock(c) \/ Unlock(c)
  <2>1. req' = req /\ applied' = applied
    BY <1>4 DEF Lock, Unlock
  <2>2. Unfunded(e)' <=> Unfunded(e)
    BY <1>0, <2>1, UnfundedKept
  <2>3. CASE items' = items
    BY <2>2, <2>3, BackingKept
  <2>4. CASE items' # items
    <3> DEFINE x == req[c].escrow
    <3>1. PICK s \in {"held"} \cup Processing \cup Processed :
             /\ s \in Processing <=> Lock(c)
             /\ items' = [items EXCEPT ![x].status = s]
      BY <1>0, <1>4, <2>4, StatusWriters
    <3>2. /\ x \in EscrowIds
          /\ items[x].status \in {"held"} \cup Processing
      BY <1>0, <1>4, <2>4, StatusWriters
    <3>3. s \in {"held"} \cup Processing
      <4>1. ASSUME Unlock(c), ~Lock(c) PROVE s = "held"
        <5>1. x \in EscrowIds /\ items' = [items EXCEPT ![x].status = "held"]
          BY <3>2, <4>1 DEF Unlock, Rollback
        <5>2. items'[x].status = "held" /\ items'[x].status = s
          BY <1>0, <3>1, <3>2, <5>1 DEF TypeOK, Item
        <5> QED
          BY <5>2
      <4> QED
        BY <1>4, <3>1, <4>1
    <3>4. /\ items'[e].user = items[e].user /\ items'[e].amount = items[e].amount
          /\ e # x => items'[e] = items[e]
          /\ e = x => items'[e].status = s
      BY <1>0, <3>1, <3>2 DEF TypeOK, Item
    <3> QED
      BY <2>2, <3>2, <3>3, <3>4, BackingKept
  <2> QED
    BY <2>3, <2>4
<1>5. ASSUME items' = items, req' = req PROVE Backing(e, u)' = Backing(e, u)
  <2>1. Unfunded(e)' <=> Unfunded(e)
    BY <1>0, <1>5, UnfundedKept
  <2> QED
    BY <1>5, <2>1, BackingKept
<1> QED
  BY <1>1, <1>2, <1>3, <1>4, <1>5 DEF Claim, Crash, Step, HoldStep, ResolveStep, HoldRead,
     HoldCreateWallet, HoldCasWallet, HoldDebit, HoldCredit, HoldPublish, ReadUser,
     ReadModel, CreateModel, CasModel, CasUser, Record, RecordSettle

\* The wallet write of a hold opens its item, and no other.
LEMMA HoldOpens ==
    ASSUME IInv, HoldItemsOK, NEW c \in Calls, HoldCasWallet(c), applied[c] = {},
           "user" \in applied'[c], NEW x, x = req[c].escrow, NEW u
    PROVE  /\ x \in EscrowIds
           /\ \A e \in EscrowIds \ {x} : Backing(e, u)' = Backing(e, u)
           /\ Backing(x, u) = 0
           /\ Backing(x, u)' = IF u = req[c].user THEN req[c].amount ELSE 0
<1>0. /\ TypeOK /\ Shape /\ RequestOK(c) /\ Holds /\ IsHold(c) /\ items' = items /\ req' = req
      /\ Call(c) \/ Step(c) \/ Crash(c)
  BY RequestFields, HoldFields DEF IInv, Shape, HoldCasWallet, HoldSteps, Step, HoldStep
<1>1. x \in EscrowIds /\ x # Null /\ req[c].kind = "hold"
  BY <1>0, NullAssumption DEF RequestOK, HoldCasWallet, IsHold
<1>2. applied'[c] # {} /\ \A d \in Calls \ {c} : applied'[d] = applied[d]
  BY <1>0, StepFrame DEF Frame
<1>3. ASSUME NEW e \in EscrowIds \ {x} PROVE Backing(e, u)' = Backing(e, u)
  <2>1. Unfunded(e)' <=> Unfunded(e)
    BY <1>0, <1>3, UnfundedKept
  <2> QED
    BY <1>0, <2>1, BackingKept
<1>4. Unfunded(x)
  BY <1>1 DEF Unfunded
<1>5. ~Unfunded(x)'
  <2>1. \A d \in Calls \ {c} : req[d].kind = "hold" => req[d].escrow # x
    BY <1>0, <1>1 DEF Holds, HoldsOK
  <2> QED
    BY <1>0, <1>2, <2>1 DEF Unfunded
<1>6. /\ items[x].status = "held" /\ items[x].user = req[c].user
      /\ items[x].amount = req[c].amount
  BY <1>0, <1>1 DEF Holds, HoldsOK, HoldItemsOK
<1> QED
  BY <1>0, <1>1, <1>3, <1>4, <1>5, <1>6 DEF Backing, Open

\* The last step of a call that processes an item closes it, and no other.
LEMMA FinalizeCloses ==
    ASSUME IInv, NEW c \in Calls, Finalize(c), NEW x, x = req[c].escrow, NEW u
    PROVE  /\ x \in EscrowIds /\ x \in announced /\ HoldsLock(c)
           /\ \A e \in EscrowIds \ {x} : Backing(e, u)' = Backing(e, u)
           /\ Backing(x, u)' = 0
           /\ Backing(x, u) = IF u = items[x].user THEN items[x].amount ELSE 0
<1>0. /\ TypeOK /\ Shape /\ RequestOK(c) /\ Holds /\ EscrowLockExclusive
      /\ req' = req /\ applied' = applied
      /\ Call(c) \/ Step(c) \/ Crash(c)
  BY RequestFields DEF IInv, Shape, Finalize, Step, ResolveStep
<1>1. /\ HoldsLock(c) /\ x \in EscrowIds
      /\ items[x].status \in Processing
  BY <1>0, LockedItem DEF Finalize, LockedSteps
<1>2. x \in announced
  BY <1>0, <1>1, NullAssumption DEF RequestOK, HoldsLock
<1>3. ~Unfunded(x)
  BY <1>0, <1>2 DEF Holds, AnnouncedOK
<1>4. ASSUME NEW e \in EscrowIds \ {x} PROVE Backing(e, u)' = Backing(e, u)
  <2>1. Unfunded(e)' <=> Unfunded(e)
    BY <1>0, UnfundedKept
  <2>2. items'[e] = items[e]
    BY <1>0 DEF Finalize, TypeOK
  <2> QED
    BY <2>1, <2>2, BackingKept
<1>5. items'[x].status \notin {"held"} \cup Processing
  BY <1>0, <1>1 DEF Finalize, TypeOK, Item, FinalStatus, Processing
<1> QED
  BY <1>1, <1>2, <1>3, <1>4, <1>5 DEF Backing, Open


-----------------------------------------------------------------------------
(* The points taken out of open items.                                      *)

TakenSum(u) == SumFunction([c \in Calls |-> TakenOut(c, u)])

\* Nothing, while a call has not written the user's wallet.
LEMMA NothingTaken ==
    ASSUME NEW c, NEW u
    PROVE  /\ "user" \notin applied[c] => TakenOut(c, u) = 0
           /\ "user" \notin applied'[c] => TakenOut(c, u)' = 0
BY DEF TakenOut

\* The amounts are points.
LEMMA TakenType ==
    ASSUME Shape, AppliedOK, NEW c \in Calls, NEW u
    PROVE  TakenOut(c, u) \in Int
<1>1. req[c].amount \in Int
  BY RequestFields
<1>2. CASE "user" \notin applied[c]
  BY <1>2, NothingTaken
<1>3. CASE "user" \in applied[c]
  <2>1. req[c].escrow \in EscrowIds
    BY <1>3 DEF AppliedOK
  <2>2. items[req[c].escrow] \in Item
    BY <2>1 DEF Shape, TypeOK
  <2>3. items[req[c].escrow].amount \in Nat
    BY <2>2, PointsAreNaturals DEF Item
  <2> QED
    BY <1>1, <2>3 DEF TakenOut, Unescrowed
<1> QED
  BY <1>2, <1>3

\* The item of a call that has written the user's wallet keeps its user and amount.
LEMMA WrittenItemKept ==
    ASSUME IInv, AppliedOK, [Next]_vars, NEW d \in Calls, "user" \in applied[d],
           req[d].kind \in Resolving, req'[d] = req[d]
    PROVE  Payer(d)' = Payer(d) /\ Unescrowed(d)' = Unescrowed(d)
<1>1. req[d].escrow \in announced
  BY RequestFields, NullAssumption DEF IInv, AppliedOK, RequestOK
<1>2. /\ items'[req[d].escrow].user = items[req[d].escrow].user
      /\ items'[req[d].escrow].amount = items[req[d].escrow].amount
  BY <1>1, AnnouncedKept
<1> QED
  BY <1>2 DEF Payer, Unescrowed

\* A step of a call changes nothing of what the others have taken out.
LEMMA TakenKept ==
    ASSUME IInv, AppliedOK, NEW c \in Calls, Call(c) \/ Step(c) \/ Crash(c),
           NEW d \in Calls \ {c}, NEW u
    PROVE  TakenOut(d, u)' = TakenOut(d, u)
<1>0. /\ pc'[d] = pc[d] /\ req'[d] = req[d] /\ applied'[d] = applied[d]
      /\ [Next]_vars
  BY StepFrame DEF Frame, IInv, Shape, Next
<1>1. CASE "user" \notin applied[d] \/ req[d].kind \notin Resolving
  BY <1>0, <1>1 DEF TakenOut
<1>2. CASE "user" \in applied[d] /\ req[d].kind \in Resolving
  <2>1. Payer(d)' = Payer(d) /\ Unescrowed(d)' = Unescrowed(d)
    BY <1>0, <1>2, WrittenItemKept
  <2> QED
    BY <1>0, <2>1 DEF TakenOut
<1> QED
  BY <1>1, <1>2

\* The sum follows what the call itself takes out.
LEMMA TakenSumMoves ==
    ASSUME IInv, AppliedOK, NEW c \in Calls, Call(c) \/ Step(c) \/ Crash(c), NEW u,
           TakenOut(c, u)' \in Int
    PROVE  /\ TakenSum(u)' = TakenSum(u) + TakenOut(c, u)' - TakenOut(c, u)
           /\ TakenSum(u) \in Int
<1> DEFINE F == [d \in Calls |-> TakenOut(d, u)]
           G == [d \in Calls |-> TakenOut(d, u)']
<1>1. /\ \A d \in Calls : F[d] \in Int /\ G[d] \in Int
      /\ \A d \in Calls \ {c} : G[d] = F[d]
      /\ F[c] = TakenOut(c, u) /\ G[c] = TakenOut(c, u)'
  <2>1. \A d \in Calls : TakenOut(d, u) \in Int
    BY TakenType DEF IInv
  <2>2. \A d \in Calls \ {c} : TakenOut(d, u)' = TakenOut(d, u)
    BY TakenKept
  <2> QED
    BY <2>1, <2>2
<1>2. /\ TakenSum(u) = SumFunctionOnSet(F, Calls)
      /\ TakenSum(u)' = SumFunctionOnSet(G, Calls)
  BY DEF TakenSum, SumFunction
<1> HIDE DEF F, G
<1>3. /\ SumFunctionOnSet(G, Calls) = SumFunctionOnSet(F, Calls) + G[c] - F[c]
      /\ SumFunctionOnSet(F, Calls) \in Int
  BY <1>1, SumChange, SumType, FiniteAssumption
<1> QED
  BY <1>1, <1>2, <1>3

\* What a user's escrow balance and open items say of each other.
Backed(u) == wallets[u].escrow = BackedSum(u) - TakenSum(u)

LEMMA BackedOf ==
    TypeOK => (EscrowBacked <=> \A u \in Users : Backed(u))
BY BackedSumOf DEF EscrowBacked, Backed, TakenSum

\* The balance stays backed in every step of a call.
LEMMA BackedCall ==
    ASSUME TrustedCallers, IInv, AppliedOK, HoldItemsOK, TrustOK, Shape',
           NEW c \in Calls, Call(c) \/ Step(c) \/ Crash(c), NEW u \in Users, Backed(u)
    PROVE  Backed(u)'
<1> DEFINE K == req[c].kind
<1>0. /\ TypeOK /\ TypeOK' /\ Shape /\ RequestOK(c)
      /\ applied[c] \in AppliedAt(K, pc[c]) /\ [Next]_vars
      /\ wallets[u].escrow \in Int /\ BackedSum(u) \in Int
      /\ TakenOut(c, u) \in Int /\ req[c].amount \in Int
  <2>1. TypeOK /\ TypeOK' /\ Shape /\ [Next]_vars /\ wallets[u] \in Wallet
    BY DEF IInv, Shape, TypeOK, Next
  <2>2. TakenOut(c, u) \in Int /\ BackedSum(u) \in Int
    BY <2>1, TakenType, BackedSumOf
  <2>3. RequestOK(c) /\ req[c].amount \in Int
    BY <2>1, RequestFields
  <2> QED
    BY <2>1, <2>2, <2>3 DEF AppliedOK, Wallet
<1>1. ASSUME wallets'[u].escrow = wallets[u].escrow, BackedSum(u)' = BackedSum(u),
             TakenOut(c, u)' = TakenOut(c, u)
      PROVE  Backed(u)'
  BY <1>0, <1>1, TakenSumMoves DEF Backed
<1>2. ASSUME ~Finalize(c), K = "hold" => applied'[c] = applied[c]
      PROVE  BackedSum(u)' = BackedSum(u)
  <2>1. \A e \in EscrowIds : Backing(e, u)' = Backing(e, u)
    BY <1>2, BackingSteps
  <2> QED
    BY <2>1, BackedSumKept
<1>3. CASE "user" \notin applied[c] /\ "user" \notin applied'[c]
  <2>1. wallets'[u].escrow = wallets[u].escrow
    BY <1>3, BeforeUserWrite
  <2>2. TakenOut(c, u)' = 0 /\ TakenOut(c, u) = 0
    BY <1>3, NothingTaken
  <2>3. ~Finalize(c)
    BY <1>0, <1>3 DEF Finalize, AppliedAt, RequestOK, LockedSteps, Resolving
  <2>4. K = "hold" => applied'[c] = applied[c]
    <3>1. ASSUME K = "hold" PROVE ~CasUser(c) /\ ~CasModel(c)
      BY <1>0, <3>1 DEF CasUser, CasModel, RequestOK, LockedSteps, Resolving
    <3>2. HoldCasWallet(c) => applied' = applied
      BY <1>0, <1>3 DEF HoldCasWallet, TypeOK
    <3> QED
      BY <3>1, <3>2, WalletWriters
  <2> QED
    BY <1>1, <1>2, <2>1, <2>2, <2>3, <2>4
<1>4. CASE "user" \notin applied[c] /\ "user" \in applied'[c]
  <2>1. TakenOut(c, u) = 0
    BY <1>4, NothingTaken
  <2>2. /\ req' = req /\ items' = items /\ Payer(c)' = Payer(c)
        /\ Unescrowed(c)' = Unescrowed(c)
        /\ applied' = [applied EXCEPT ![c] = @ \cup {"user"}]
    BY <1>4, UserWrite DEF Payer, Unescrowed
  <2>3. CASE HoldCasWallet(c)
    <3>1. /\ IsHold(c) /\ Payer(c) = req[c].user
          /\ u = Payer(c) => wallets'[u].escrow = wallets[u].escrow + req[c].amount
          /\ u # Payer(c) => wallets'[u] = wallets[u]
      BY <1>4, <2>3, UserWrite DEF HoldCasWallet, CasUser, IsHold, Payer
    <3>2. TakenOut(c, u)' = 0
      BY <2>2, <3>1 DEF TakenOut, IsHold, Resolving
    <3>3. applied[c] = {}
      BY <1>0, <2>3, <3>1 DEF AppliedAt, HoldCasWallet, IsHold
    <3>4. PICK x : x = req[c].escrow
      OBVIOUS
    <3>5. /\ x \in EscrowIds
          /\ \A e \in EscrowIds \ {x} : Backing(e, u)' = Backing(e, u)
          /\ Backing(x, u) = 0
          /\ Backing(x, u)' = IF u = req[c].user THEN req[c].amount ELSE 0
      BY <1>4, <2>3, <3>3, <3>4, HoldOpens
    <3>6. BackedSum(u)' = BackedSum(u) + Backing(x, u)' - Backing(x, u)
      BY <1>0, <3>5, BackedSumMoves
    <3>7. TakenSum(u)' = TakenSum(u) /\ TakenSum(u) \in Int
      BY <2>1, <3>2, TakenSumMoves
    <3> QED
      BY <1>0, <3>1, <3>5, <3>6, <3>7 DEF Backed
  <2>4. CASE CasUser(c)
    <3>1. /\ IsResolve(c) /\ pc'[c] \in {"casModel", "finalize"} /\ Unescrowed(c) \in Int
          /\ u = Payer(c) => wallets'[u].escrow = wallets[u].escrow - Unescrowed(c)
          /\ u # Payer(c) => wallets'[u] = wallets[u]
      BY <1>4, <2>4, UserWrite DEF HoldCasWallet, CasUser
    <3>2. K \in Resolving /\ K # "hold" /\ ~Finalize(c)
      BY <2>4, <3>1 DEF IsResolve, CasUser, Finalize, Resolving
    <3>3. TakenOut(c, u)' = IF u = Payer(c) THEN Unescrowed(c) ELSE 0
      BY <1>4, <2>2, <3>1, <3>2 DEF TakenOut
    <3>4. BackedSum(u)' = BackedSum(u)
      BY <1>2, <3>2
    <3>5. TakenSum(u)' = TakenSum(u) + TakenOut(c, u)' /\ TakenSum(u) \in Int
      BY <2>1, <3>1, <3>3, TakenSumMoves
    <3> QED
      BY <1>0, <3>1, <3>3, <3>4, <3>5 DEF Backed
  <2> QED
    BY <1>4, <2>3, <2>4, UserWrite
<1>5. CASE "user" \in applied[c]
  <2>0. /\ wallets' = wallets /\ req' = req /\ "user" \in applied'[c]
        /\ applied' = applied \/ CasModel(c)
    <3>1. /\ wallets' = wallets /\ req' = req
          /\ applied' = applied \/ CasModel(c)
      BY <1>5, AfterUserWrite DEF HoldDebit, HoldCredit, HoldPublish, CasModel, Unlock,
         Finalize, Record, RecordSettle, Crash
    <3>2. applied' = applied \/ applied' = [applied EXCEPT ![c] = @ \cup {"model"}]
      BY <3>1 DEF CasModel
    <3> QED
      BY <1>0, <1>5, <3>1, <3>2 DEF TypeOK
  <2>1. K = "hold" => applied'[c] = applied[c]
    BY <1>0, <2>0 DEF CasModel, RequestOK, LockedSteps, Resolving
  <2>2. CASE K \notin Resolving
    <3>1. TakenOut(c, u)' = 0 /\ TakenOut(c, u) = 0
      BY <2>0, <2>2 DEF TakenOut
    <3>2. ~Finalize(c)
      BY <1>0, <2>2 DEF Finalize, RequestOK, LockedSteps
    <3> QED
      BY <1>1, <1>2, <2>0, <2>1, <3>1, <3>2
  <2>3. CASE K \in Resolving /\ ~Finalize(c)
    <3>1. Payer(c)' = Payer(c) /\ Unescrowed(c)' = Unescrowed(c)
      BY <1>0, <1>5, <2>0, <2>3, WrittenItemKept
    <3>2. pc[c] \in {"casModel", "finalize", "unlock", "thrown"}
            <=> pc'[c] \in {"casModel", "finalize", "unlock", "thrown"}
      <4>1. CASE CasModel(c) \/ Unlock(c) \/ Record(c) \/ RecordSettle(c) \/ Crash(c)
        BY <1>0, <1>5, <2>3, <4>1 DEF CasModel, Unlock, Record, RecordSettle, Crash, TypeOK,
           AfterRefundEntry, AppliedAt, Resolving
      <4>2. ~HoldDebit(c) /\ ~HoldCredit(c) /\ ~HoldPublish(c)
        BY <1>0, <2>3 DEF HoldDebit, HoldCredit, HoldPublish, RequestOK, HoldSteps, Resolving
      <4> QED
        BY <1>5, <2>3, <4>1, <4>2, AfterUserWrite
    <3>3. TakenOut(c, u)' = TakenOut(c, u)
      BY <1>5, <2>0, <3>1, <3>2 DEF TakenOut
    <3> QED
      BY <1>1, <1>2, <2>0, <2>1, <2>3, <3>3
  <2>4. CASE Finalize(c)
    <3>1. PICK x : x = req[c].escrow
      OBVIOUS
    <3>2. /\ x \in EscrowIds /\ x \in announced /\ HoldsLock(c)
          /\ \A e \in EscrowIds \ {x} : Backing(e, u)' = Backing(e, u)
          /\ Backing(x, u)' = 0
          /\ Backing(x, u) = IF u = items[x].user THEN items[x].amount ELSE 0
      BY <2>4, <3>1, FinalizeCloses
    <3>3. K \in Resolving /\ pc[c] = "finalize"
          /\ pc'[c] \in {"record", "recordSettle", "returned"}
      BY <1>0, <2>4, <3>2 DEF Finalize, HoldsLock, AfterRefundEntry, TypeOK
    <3>4. Payer(c) = items[x].user /\ Unescrowed(c) = items[x].amount
      <4>1. /\ Trusted(req[c])
            /\ K \in {"settle", "refund"} => req[c].refund = 0
        BY DEF TrustOK
      <4>2. /\ req[c].user \in {Null, items[x].user}
            /\ req[c].amount + req[c].refund = items[x].amount
        BY <3>1, <3>3, <4>1 DEF Trusted
      <4>3. Payer(c) = items[x].user
        BY <1>0, <3>1, <3>3, <4>2, NullAssumption DEF Payer, RequestOK, Resolving
      <4>4. Unescrowed(c) = items[x].amount
        BY <1>0, <3>1, <3>3, <4>1, <4>2 DEF Unescrowed, Resolving
      <4> QED
        BY <4>3, <4>4
    <3>5. TakenOut(c, u) = IF u = items[x].user THEN items[x].amount ELSE 0
      BY <1>5, <3>3, <3>4 DEF TakenOut
    <3>6. TakenOut(c, u)' = 0
      BY <3>3 DEF TakenOut
    <3>7. BackedSum(u)' = BackedSum(u) + Backing(x, u)' - Backing(x, u)
      BY <1>0, <3>2, BackedSumMoves
    <3>8. /\ TakenSum(u)' = TakenSum(u) + TakenOut(c, u)' - TakenOut(c, u)
          /\ TakenSum(u) \in Int
      BY <3>6, TakenSumMoves
    <3>9. items[x].amount \in Nat
      <4>1. items[x] \in Item
        BY <1>0, <3>2 DEF TypeOK
      <4> QED
        BY <4>1, PointsAreNaturals DEF Item
    <3> QED
      BY <1>0, <2>0, <3>2, <3>5, <3>6, <3>7, <3>8, <3>9 DEF Backed
  <2> QED
    BY <2>2, <2>3, <2>4
<1> QED
  BY <1>3, <1>4, <1>5

\* The balance stays backed in every step of the system.
LEMMA BackedStep ==
    ASSUME TrustedCallers, IInv, AppliedOK, HoldItemsOK, TrustOK, EscrowBacked,
           [Next]_vars, Shape'
    PROVE  EscrowBacked'
<1>0. TypeOK /\ TypeOK' /\ \A u \in Users : Backed(u)
  BY BackedOf DEF IInv, Shape
<1>1. ASSUME NEW c \in Calls, Call(c) \/ Step(c) \/ Crash(c), NEW u \in Users
      PROVE  Backed(u)'
  BY <1>0, <1>1, BackedCall
<1>2. ASSUME items' = items, req' = req, pc' = pc, applied' = applied,
             NEW u \in Users, wallets'[u].escrow = wallets[u].escrow
      PROVE  Backed(u)'
  <2> DEFINE F == [c \in Calls |-> TakenOut(c, u)]
             G == [e \in EscrowIds |-> Backing(e, u)]
  <2>1. F' = F /\ G' = G
    BY <1>2 DEF TakenOut, Payer, Unescrowed, Backing, Open, Unfunded
  <2>2. TakenSum(u) = SumFunction(F) /\ TakenSum(u)' = SumFunction(F')
        /\ BackedSum(u) = SumFunction(G) /\ BackedSum(u)' = SumFunction(G')
    BY DEF TakenSum, BackedSum
  <2> HIDE DEF F, G
  <2> QED
    BY <1>0, <1>2, <2>1, <2>2 DEF Backed
<1>3. ASSUME NEW x \in Users, OtherWrite(x), NEW u \in Users PROVE Backed(u)'
  <2>1. wallets'[u].escrow = wallets[u].escrow
    <3>0. PICK a \in Amounts : \E d \in {a, -a} :
             wallets' = [wallets EXCEPT ![x] = Inc(wallets[x], d, 0)]
      BY <1>3 DEF OtherWrite
    <3>1. PICK d \in {a, -a} : wallets' = [wallets EXCEPT ![x] = Inc(wallets[x], d, 0)]
      BY <3>0
    <3>2. wallets[u] \in Wallet /\ wallets[u].escrow \in Int
      BY <1>0 DEF TypeOK, Wallet
    <3> QED
      BY <1>0, <3>1, <3>2 DEF TypeOK, Inc, Wallet
  <2> QED
    BY <1>2, <1>3, <2>1 DEF OtherWrite
<1>4. ASSUME UNCHANGED vars, NEW u \in Users PROVE Backed(u)'
  BY <1>2, <1>4 DEF vars
<1>5. \A u \in Users : Backed(u)'
  BY <1>1, <1>3, <1>4 DEF Next
<1>6. (TypeOK => (EscrowBacked <=> \A u \in Users : Backed(u)))'
  BY BackedOf, PTL
<1> QED
  BY <1>0, <1>5, <1>6


-----------------------------------------------------------------------------
(* All points.                                                              *)

Held(u) == wallets[u].available + wallets[u].escrow
HeldSum == SumFunction([u \in Users |-> Held(u)])
EarnedSum == SumFunction([m \in Models |-> models[m].earned])
UnbalancedSum == SumFunction([c \in Calls |-> Unbalanced(c)])

\* The equation between the four sums.
LEMMA ConservedOf ==
    PointsConserved <=> HeldSum + EarnedSum = Granted + UnbalancedSum
BY DEF PointsConserved, Circulating, HeldSum, EarnedSum, UnbalancedSum, Held

\* The sums are integers.
LEMMA SumTypes ==
    ASSUME Shape
    PROVE  HeldSum \in Int /\ EarnedSum \in Int /\ Granted \in Int /\ UnbalancedSum \in Int
<1> DEFINE F == [u \in Users |-> Held(u)]
           G == [m \in Models |-> models[m].earned]
           H == [u \in Users |-> others[u].net]
           I == [c \in Calls |-> Unbalanced(c)]
<1>1. \A u \in Users : F[u] \in Int /\ H[u] \in Int
  BY DEF Held, Shape, TypeOK, Wallet
<1>2. \A m \in Models : G[m] \in Int
  BY DEF Shape, TypeOK, ModelWallet
<1>3. \A c \in Calls : I[c] \in Int
  BY RequestFields DEF Unbalanced
<1>4. /\ HeldSum = SumFunctionOnSet(F, Users) /\ EarnedSum = SumFunctionOnSet(G, Models)
      /\ Granted = SumFunctionOnSet(H, Users) /\ UnbalancedSum = SumFunctionOnSet(I, Calls)
  BY DEF HeldSum, EarnedSum, Granted, UnbalancedSum, SumFunction
<1> HIDE DEF F, G, H, I
<1> QED
  BY <1>1, <1>2, <1>3, <1>4, SumType, FiniteAssumption

\* Those of the wallets follow the one that changes.
LEMMA HeldMoves ==
    ASSUME TypeOK, TypeOK', NEW x \in Users,
           \A u \in Users \ {x} : Held(u)' = Held(u)
    PROVE  HeldSum' = HeldSum + Held(x)' - Held(x)
<1> DEFINE F == [u \in Users |-> Held(u)]
           G == [u \in Users |-> Held(u)']
<1>1. /\ \A u \in Users : F[u] \in Int /\ G[u] \in Int
      /\ \A u \in Users \ {x} : G[u] = F[u]
      /\ F[x] = Held(x) /\ G[x] = Held(x)'
  BY DEF Held, TypeOK, Wallet
<1>2. HeldSum = SumFunctionOnSet(F, Users) /\ HeldSum' = SumFunctionOnSet(G, Users)
  BY DEF HeldSum, SumFunction
<1> HIDE DEF F, G
<1>3. SumFunctionOnSet(G, Users) = SumFunctionOnSet(F, Users) + G[x] - F[x]
  BY <1>1, SumChange, FiniteAssumption
<1> QED
  BY <1>1, <1>2, <1>3

\* It does not change with none.
LEMMA HeldKept ==
    ASSUME \A u \in Users : Held(u)' = Held(u)
    PROVE  HeldSum' = HeldSum
<1> DEFINE F == [u \in Users |-> Held(u)]
           G == [u \in Users |-> Held(u)']
<1>1. F = G
  OBVIOUS
<1>2. HeldSum = SumFunction(F) /\ HeldSum' = SumFunction(G)
  BY DEF HeldSum
<1> QED
  BY <1>1, <1>2

\* The sum of the models follows the wallet that changes.
LEMMA EarnedMoves ==
    ASSUME TypeOK, TypeOK', NEW x \in Models,
           \A m \in Models \ {x} : models'[m] = models[m]
    PROVE  EarnedSum' = EarnedSum + models'[x].earned - models[x].earned
<1> DEFINE F == [m \in Models |-> models[m].earned]
           G == [m \in Models |-> models'[m].earned]
<1>1. /\ \A m \in Models : F[m] \in Int /\ G[m] \in Int
      /\ \A m \in Models \ {x} : G[m] = F[m]
      /\ F[x] = models[x].earned /\ G[x] = models'[x].earned
  BY DEF TypeOK, ModelWallet
<1>2. EarnedSum = SumFunctionOnSet(F, Models) /\ EarnedSum' = SumFunctionOnSet(G, Models)
  BY DEF EarnedSum, SumFunction
<1> HIDE DEF F, G
<1>3. SumFunctionOnSet(G, Models) = SumFunctionOnSet(F, Models) + G[x] - F[x]
  BY <1>1, SumChange, FiniteAssumption
<1> QED
  BY <1>1, <1>2, <1>3

\* It does not change when no model earns.
LEMMA EarnedKept ==
    ASSUME \A m \in Models : models'[m].earned = models[m].earned
    PROVE  EarnedSum' = EarnedSum
<1> DEFINE F == [m \in Models |-> models[m].earned]
           G == [m \in Models |-> models'[m].earned]
<1>1. F = G
  OBVIOUS
<1>2. EarnedSum = SumFunction(F) /\ EarnedSum' = SumFunction(G)
  BY DEF EarnedSum
<1> QED
  BY <1>1, <1>2

\* The sum of what came in follows the user it came in for.
LEMMA GrantedMoves ==
    ASSUME TypeOK, TypeOK', NEW x \in Users,
           \A u \in Users \ {x} : others'[u] = others[u]
    PROVE  Granted' = Granted + others'[x].net - others[x].net
<1> DEFINE F == [u \in Users |-> others[u].net]
           G == [u \in Users |-> others'[u].net]
<1>1. /\ \A u \in Users : F[u] \in Int /\ G[u] \in Int
      /\ \A u \in Users \ {x} : G[u] = F[u]
      /\ F[x] = others[x].net /\ G[x] = others'[x].net
  BY DEF TypeOK
<1>2. Granted = SumFunctionOnSet(F, Users) /\ Granted' = SumFunctionOnSet(G, Users)
  BY DEF Granted, SumFunction
<1> HIDE DEF F, G
<1>3. SumFunctionOnSet(G, Users) = SumFunctionOnSet(F, Users) + G[x] - F[x]
  BY <1>1, SumChange, FiniteAssumption
<1> QED
  BY <1>1, <1>2, <1>3

\* That of the calls follows the call that takes the step.
LEMMA UnbalancedMoves ==
    ASSUME Shape, Shape', NEW c \in Calls, Call(c) \/ Step(c) \/ Crash(c)
    PROVE  UnbalancedSum' = UnbalancedSum + Unbalanced(c)' - Unbalanced(c)
<1> DEFINE F == [d \in Calls |-> Unbalanced(d)]
           G == [d \in Calls |-> Unbalanced(d)']
<1>0. \A d \in Calls : req[d].amount \in Nat /\ req'[d].amount \in Nat
  <2>1. \A d \in Calls : req[d] \in Request /\ req'[d] \in Request
    BY DEF Shape, TypeOK
  <2>2. \A d \in Calls : req[d].amount \in Points /\ req'[d].amount \in Points
    BY <2>1 DEF Request
  <2> QED
    BY <2>2, PointsAreNaturals
<1>1. /\ \A d \in Calls : F[d] \in Int /\ G[d] \in Int
      /\ \A d \in Calls \ {c} : G[d] = F[d]
      /\ F[c] = Unbalanced(c) /\ G[c] = Unbalanced(c)'
  <2>1. \A d \in Calls : F[d] \in Int /\ G[d] \in Int
    BY <1>0 DEF Unbalanced
  <2>2. \A d \in Calls \ {c} : req'[d] = req[d] /\ applied'[d] = applied[d]
    BY StepFrame DEF Frame, Shape
  <2>3. \A d \in Calls \ {c} : G[d] = F[d]
    BY <2>2 DEF Unbalanced
  <2> QED
    BY <2>1, <2>3
<1>2. UnbalancedSum = SumFunctionOnSet(F, Calls) /\ UnbalancedSum' = SumFunctionOnSet(G, Calls)
  BY DEF UnbalancedSum, SumFunction
<1> HIDE DEF F, G
<1>3. SumFunctionOnSet(G, Calls) = SumFunctionOnSet(F, Calls) + G[c] - F[c]
  BY <1>1, SumChange, FiniteAssumption
<1> QED
  BY <1>1, <1>2, <1>3


\* A step of a call that writes no balance keeps the equation.
LEMMA ConservedQuiet ==
    ASSUME IInv, Shape', PointsConserved,
           NEW c \in Calls, Call(c) \/ Step(c) \/ Crash(c),
           applied'[c] = applied[c],
           \A u \in Users : wallets'[u].available = wallets[u].available
                              /\ wallets'[u].escrow = wallets[u].escrow,
           \A m \in Models : models'[m].earned = models[m].earned
    PROVE  PointsConserved'
<1>0. TypeOK /\ Shape /\ RequestOK(c)
  BY RequestFields DEF IInv, Shape
<1>1. HeldSum' = HeldSum /\ EarnedSum' = EarnedSum
  BY HeldKept, EarnedKept DEF Held
<1>2. Granted' = Granted
  <2>1. others' = others
    BY WalletWriters
  <2> QED
    BY <2>1 DEF Granted
<1>3. Unbalanced(c)' = Unbalanced(c) /\ Unbalanced(c) \in Int
  <2>1. CASE Call(c)
    <3>1. applied[c] = {}
      BY <2>1 DEF Call, IInv, Holds, HoldPcOK
    <3> QED
      BY <3>1 DEF Unbalanced
  <2>2. CASE Step(c) \/ Crash(c)
    <3>1. req' = req \/ \E e : req' = [req EXCEPT ![c].escrow = e]
      BY <2>2 DEF Claim, Crash, Step, HoldStep, ResolveStep, HoldRead, HoldCreateWallet,
         HoldCreateItem, HoldCasWallet, HoldDeleteItem, HoldDebit, HoldCredit,
         HoldPublish, Lock, ReadUser, ReadModel, CreateModel, CasModel, CasUser,
         Unlock, Finalize, Record, RecordSettle
    <3>2. req'[c].kind = req[c].kind /\ req'[c].amount = req[c].amount
      BY <1>0, <3>1 DEF TypeOK, Request
    <3> QED
      BY <1>0, <3>2, RequestFields DEF Unbalanced
  <2> QED
    BY <2>1, <2>2
<1>4. UnbalancedSum' = UnbalancedSum
  BY <1>0, <1>3, UnbalancedMoves, SumTypes
<1>5. PointsConserved' <=> HeldSum' + EarnedSum' = Granted' + UnbalancedSum'
  BY DEF PointsConserved, Circulating, HeldSum, EarnedSum, UnbalancedSum, Held
<1> QED
  BY <1>1, <1>2, <1>4, <1>5, ConservedOf

\* Two actions of a call write the wallet of the model, one of them no balance.
LEMMA ModelWriters ==
    ASSUME NEW c \in Calls, Call(c) \/ Step(c) \/ Crash(c)
    PROVE  models' = models \/ CreateModel(c) \/ CasModel(c)
BY DEF Call, Claim, Crash, Step, HoldStep, ResolveStep, HoldRead, HoldCreateWallet,
       HoldCreateItem, HoldCasWallet, HoldDeleteItem, HoldDebit, HoldCredit,
       HoldPublish, Lock, ReadUser, ReadModel, CasUser, Unlock, Finalize, Record,
       RecordSettle

\* So does every other step of a call.
LEMMA ConservedCall ==
    ASSUME TrustedCallers, IInv, AppliedOK, TrustOK, Shape', PointsConserved,
           NEW c \in Calls, Call(c) \/ Step(c) \/ Crash(c)
    PROVE  PointsConserved'
<1> DEFINE K == req[c].kind
<1>0. /\ TypeOK /\ TypeOK' /\ Shape /\ RequestOK(c) /\ EscrowLockExclusive
      /\ applied[c] \in AppliedAt(K, pc[c])
      /\ req[c].amount \in Int /\ others' = others
  BY RequestFields, WalletWriters DEF IInv, Shape, AppliedOK
<1>1. /\ HeldSum + EarnedSum = Granted + UnbalancedSum
      /\ HeldSum \in Int /\ EarnedSum \in Int /\ Granted \in Int /\ UnbalancedSum \in Int
      /\ Granted' = Granted
      /\ UnbalancedSum' = UnbalancedSum + Unbalanced(c)' - Unbalanced(c)
  BY <1>0, ConservedOf, SumTypes, UnbalancedMoves DEF Granted
<1>2. PointsConserved' <=> HeldSum' + EarnedSum' = Granted' + UnbalancedSum'
  BY DEF PointsConserved, Circulating, HeldSum, EarnedSum, UnbalancedSum, Held
<1>3. CASE "user" \notin applied[c] /\ "user" \in applied'[c]
  <2>0. Payer(c) \in Users
    <3>1. HoldCasWallet(c) \/ CasUser(c)
      <4>1. ASSUME CasModel(c) PROVE "user" \notin applied'[c]
        <5>1. applied' = applied \/ applied' = [applied EXCEPT ![c] = @ \cup {"model"}]
          BY <4>1 DEF CasModel
        <5> QED
          BY <1>0, <1>3, <5>1 DEF TypeOK
      <4> QED
        BY <1>3, <4>1, WalletWriters
    <3>2. HoldCasWallet(c) => Payer(c) \in Users
      BY <1>0, HoldFields DEF HoldCasWallet, HoldSteps, IsHold, Payer
    <3>3. CasUser(c) => Payer(c) \in Users
      BY <1>0, LockedItem DEF CasUser, LockedSteps
    <3> QED
      BY <3>1, <3>2, <3>3
  <2>3. PICK x \in Users : x = Payer(c)
    BY <2>0
  <2>1. /\ req' = req /\ items' = items /\ models' = models
        /\ applied'[c] = applied[c] \cup {"user"}
        /\ \A u \in Users : u # Payer(c) => wallets'[u] = wallets[u]
    <3>1. applied' = [applied EXCEPT ![c] = @ \cup {"user"}]
      BY <1>3, <2>3, UserWrite
    <3>2. req' = req /\ items' = items /\ models' = models
      BY <1>3, <2>3, UserWrite
    <3>3. \A u \in Users : u # Payer(c) => wallets'[u] = wallets[u]
      BY <1>3, UserWrite
    <3> QED
      BY <1>0, <3>1, <3>2, <3>3 DEF TypeOK
  <2>2. EarnedSum' = EarnedSum
    BY <2>1 DEF EarnedSum
  <2>4. HeldSum' = HeldSum + Held(x)' - Held(x)
    BY <1>0, <2>1, <2>3, HeldMoves DEF Held
  <2>5. wallets[x].available \in Int /\ wallets[x].escrow \in Int
    BY <1>0 DEF TypeOK, Wallet
  <2>6. CASE HoldCasWallet(c)
    <3>1. /\ IsHold(c)
          /\ wallets'[x].available = wallets[x].available - req[c].amount
          /\ wallets'[x].escrow = wallets[x].escrow + req[c].amount
      BY <1>3, <2>3, <2>6, UserWrite DEF HoldCasWallet, CasUser
    <3>2. Unbalanced(c) = 0 /\ Unbalanced(c)' = 0
      BY <2>1, <3>1 DEF Unbalanced, IsHold
    <3>3. Held(x)' = Held(x)
      BY <1>0, <2>5, <3>1 DEF Held
    <3> QED
      BY <1>1, <1>2, <2>2, <2>4, <2>5, <3>2, <3>3 DEF Held
  <2>7. CASE CasUser(c)
    <3>1. /\ IsResolve(c) /\ pc[c] = "casUser" /\ HoldsLock(c)
          /\ Released(c) \in Int /\ Unescrowed(c) \in Int
          /\ wallets'[x].available = wallets[x].available + Released(c)
          /\ wallets'[x].escrow = wallets[x].escrow - Unescrowed(c)
      BY <1>3, <2>3, <2>7, UserWrite DEF HoldCasWallet, CasUser
    <3>2. Held(x)' - Held(x) = Released(c) - Unescrowed(c)
      BY <2>5, <3>1 DEF Held
    <3>3. K \in Resolving /\ req[c].refund \in Int
      BY <1>0, <3>1, RequestFields DEF IsResolve
    <3>4. Released(c) - Unescrowed(c) = Unbalanced(c)' - Unbalanced(c)
      <4>1. CASE K = "settle"
        <5>0. applied[c] = {"model"}
          BY <1>0, <3>1, <4>1 DEF AppliedAt
        <5>1. applied[c] = {"model"} /\ applied'[c] # {"model"}
          BY <1>3, <5>0
        <5>2. Unbalanced(c) = req[c].amount /\ Unbalanced(c)' = 0
          BY <2>1, <4>1, <5>1 DEF Unbalanced
        <5> QED
          BY <1>0, <4>1, <5>2 DEF Released, Unescrowed
      <4>2. CASE K = "refund"
        BY <1>0, <2>1, <4>2 DEF Released, Unescrowed, Unbalanced
      <4>3. CASE K = "partial"
        <5>1. applied[c] = {} /\ applied'[c] = {"user"}
          BY <1>0, <2>1, <3>1, <4>3 DEF AppliedAt
        <5>2. Unbalanced(c) = 0 /\ Unbalanced(c)' = -req[c].amount
          BY <2>1, <4>3, <5>1 DEF Unbalanced
        <5>3. req[c].amount + req[c].refund = items[req[c].escrow].amount
          BY <3>3 DEF TrustOK, Trusted
        <5> QED
          BY <1>0, <3>3, <4>3, <5>2, <5>3 DEF Released, Unescrowed
      <4> QED
        BY <3>3, <4>1, <4>2, <4>3 DEF Resolving
    <3>5. Unbalanced(c) \in Int /\ Unbalanced(c)' \in Int
      BY <1>0, <2>1 DEF Unbalanced
    <3>6. Held(x) \in Int /\ Held(x)' \in Int
      BY <2>5, <3>1 DEF Held
    <3> QED
      BY <1>1, <1>2, <2>2, <2>4, <3>2, <3>4, <3>5, <3>6
  <2> QED
    BY <1>3, <2>6, <2>7, UserWrite
<1>4. CASE CasModel(c) /\ applied'[c] # applied[c]
  <2>1. /\ SameModelVersion(c) /\ pc[c] = "casModel" /\ req' = req /\ wallets' = wallets
        /\ models' = [models EXCEPT ![req[c].model] =
                 [present |-> TRUE,
                  earned  |-> sawModel[c].earned + req[c].amount,
                  version |-> models[req[c].model].version + 1]]
        /\ applied'[c] = applied[c] \cup {"model"}
    BY <1>0, <1>4 DEF CasModel, TypeOK
  <2>2. K \in {"settle", "partial"} /\ req[c].model \in Models
    BY <1>0, <2>1 DEF RequestOK
  <2>3. PICK x \in Models : x = req[c].model
    BY <2>2
  <2>4. sawModel[c] = models[x]
    BY <2>1, <2>3 DEF SameModelVersion, IInv, SnapshotsOK, ModelSaw
  <2>5. /\ models'[x].earned = models[x].earned + req[c].amount
        /\ \A m \in Models \ {x} : models'[m] = models[m]
    BY <1>0, <2>1, <2>3, <2>4 DEF TypeOK
  <2>6. models[x].earned \in Int
    BY <1>0 DEF TypeOK, ModelWallet
  <2>7. EarnedSum' = EarnedSum + req[c].amount
    BY <1>0, <1>1, <2>5, <2>6, EarnedMoves
  <2>8. HeldSum' = HeldSum
    BY <2>1 DEF HeldSum, Held
  <2>9. Unbalanced(c)' - Unbalanced(c) = req[c].amount
    <3>1. CASE K = "settle"
      <4>1. applied[c] = {} /\ applied'[c] = {"model"}
        BY <1>0, <2>1, <3>1 DEF AppliedAt
      <4>2. Unbalanced(c) = 0 /\ Unbalanced(c)' = req[c].amount
        BY <2>1, <3>1, <4>1 DEF Unbalanced
      <4> QED
        BY <1>0, <4>2
    <3>2. CASE K = "partial"
      <4>1. applied[c] = {"user"} /\ applied'[c] # {"user"}
        BY <1>0, <2>1, <3>2 DEF AppliedAt
      <4>2. Unbalanced(c) = -req[c].amount /\ Unbalanced(c)' = 0
        BY <2>1, <3>2, <4>1 DEF Unbalanced
      <4> QED
        BY <1>0, <4>2
    <3> QED
      BY <2>2, <3>1, <3>2
  <2>10. Unbalanced(c) \in Int /\ Unbalanced(c)' \in Int
    BY <1>0, <2>1 DEF Unbalanced
  <2> QED
    BY <1>0, <1>1, <1>2, <2>7, <2>8, <2>9, <2>10
<1>5. CASE applied'[c] = applied[c]
  <2>1. \A u \in Users : wallets'[u].available = wallets[u].available
                           /\ wallets'[u].escrow = wallets[u].escrow
    <3>1. CASE "user" \in applied[c]
      <4>1. wallets' = wallets
        BY <3>1, AfterUserWrite DEF HoldDebit, HoldCredit, HoldPublish, CasModel, Unlock,
           Finalize, Record, RecordSettle, Crash
      <4> QED
        BY <4>1
    <3>2. CASE "user" \notin applied[c]
      BY <1>5, <3>2, BeforeUserWrite
    <3> QED
      BY <3>1, <3>2
  <2>2. \A m \in Models : models'[m].earned = models[m].earned
    <3>1. CASE models' = models
      BY <3>1
    <3>2. CASE CreateModel(c)
      <4>1. models' = models \/ models' = [models EXCEPT ![req[c].model].present = TRUE]
        BY <3>2 DEF CreateModel
      <4>2. ASSUME NEW m \in Models PROVE models'[m].earned = models[m].earned
        <5>1. models[m] \in ModelWallet
          BY <1>0 DEF TypeOK
        <5>2. models'[m] \in {models[m], [models[m] EXCEPT !.present = TRUE]}
          BY <1>0, <4>1 DEF TypeOK
        <5> QED
          BY <5>1, <5>2 DEF ModelWallet
      <4> QED
        BY <4>2
    <3>3. CASE CasModel(c)
      <4>1. "model" \notin applied[c]
        BY <1>0, <3>3 DEF CasModel, AppliedAt, RequestOK
      <4>2. models' = models
        BY <1>0, <1>5, <3>3, <4>1 DEF CasModel, TypeOK
      <4> QED
        BY <4>2
    <3> QED
      BY <3>1, <3>2, <3>3, ModelWriters
  <2> QED
    BY <1>5, <2>1, <2>2, ConservedQuiet
<1>6. CASE "user" \in applied[c] /\ ~CasModel(c)
  <2>1. applied' = applied
    BY <1>6, AfterUserWrite DEF HoldDebit, HoldCredit, HoldPublish, Unlock,
       Finalize, Record, RecordSettle, Crash
  <2> QED
    BY <1>5, <2>1
<1>7. CASE "user" \notin applied[c] /\ "user" \notin applied'[c] /\ ~CasModel(c)
  <2>1. applied'[c] = applied[c]
    <3>1. applied' = applied \/ applied' = [applied EXCEPT ![c] = @ \cup {"user"}]
      BY <1>7, WalletWriters DEF HoldCasWallet, CasUser
    <3> QED
      BY <1>0, <1>7, <3>1 DEF TypeOK
  <2> QED
    BY <1>5, <2>1
<1> QED
  BY <1>3, <1>4, <1>5, <1>6, <1>7

\* Every step of the system keeps the equation.
LEMMA ConservedStep ==
    ASSUME TrustedCallers, IInv, AppliedOK, TrustOK, PointsConserved, [Next]_vars, Shape'
    PROVE  PointsConserved'
<1>0. TypeOK /\ TypeOK' /\ Shape
  BY DEF IInv, Shape
<1>1. ASSUME NEW c \in Calls, Call(c) \/ Step(c) \/ Crash(c) PROVE PointsConserved'
  BY <1>1, ConservedCall
<1>2. PointsConserved' <=> HeldSum' + EarnedSum' = Granted' + UnbalancedSum'
  BY DEF PointsConserved, Circulating, HeldSum, EarnedSum, UnbalancedSum, Held
<1>3. ASSUME NEW x \in Users, OtherWrite(x) PROVE PointsConserved'
  <2>0. PICK a \in Amounts : \E d \in {a, -a} :
          /\ wallets' = [wallets EXCEPT ![x] = Inc(wallets[x], d, 0)]
          /\ others' = [others EXCEPT ![x] =
                [count |-> others[x].count + 1, net |-> others[x].net + d]]
    BY <1>3 DEF OtherWrite
  <2>1. PICK d \in {a, -a} :
          /\ wallets' = [wallets EXCEPT ![x] = Inc(wallets[x], d, 0)]
          /\ others' = [others EXCEPT ![x] =
                [count |-> others[x].count + 1, net |-> others[x].net + d]]
    BY <2>0
  <2>2. /\ d \in Int /\ wallets[x].available \in Int /\ wallets[x].escrow \in Int
        /\ others[x].net \in Int
    BY <1>0, AmountsAssumption DEF TypeOK, Wallet
  <2>3. /\ \A u \in Users \ {x} : wallets'[u] = wallets[u] /\ others'[u] = others[u]
        /\ others'[x].net = others[x].net + d
    BY <1>0, <2>1 DEF TypeOK
  <2>4. wallets'[x].available = wallets[x].available + d
        /\ wallets'[x].escrow = wallets[x].escrow
    BY <1>0, <2>1, <2>2 DEF TypeOK, Inc, Wallet
  <2>5. HeldSum' = HeldSum + d
    <3>1. Held(x)' - Held(x) = d /\ Held(x) \in Int /\ Held(x)' \in Int
      BY <2>2, <2>4 DEF Held
    <3>2. HeldSum' = HeldSum + Held(x)' - Held(x)
      BY <1>0, <2>3, HeldMoves DEF Held
    <3> QED
      BY <1>0, <2>2, <3>1, <3>2, SumTypes
  <2>6. Granted' = Granted + d
    BY <1>0, <2>2, <2>3, GrantedMoves, SumTypes
  <2>7. EarnedSum' = EarnedSum /\ UnbalancedSum' = UnbalancedSum
    BY <1>3 DEF OtherWrite, EarnedSum, UnbalancedSum, Unbalanced
  <2>8. /\ HeldSum + EarnedSum = Granted + UnbalancedSum
        /\ HeldSum \in Int /\ EarnedSum \in Int /\ Granted \in Int /\ UnbalancedSum \in Int
    BY <1>0, ConservedOf, SumTypes
  <2>9. d \in Int
    BY <2>2
  <2> QED
    BY <1>2, <2>5, <2>6, <2>7, <2>8, <2>9
<1>4. CASE UNCHANGED vars
  BY <1>4, <1>2, ConservedOf DEF vars, HeldSum, EarnedSum, Granted, UnbalancedSum, Held, Unbalanced
<1> QED
  BY <1>1, <1>3, <1>4 DEF Next


-----------------------------------------------------------------------------
(* What createEntry was asked for is in the ledger.                         *)

RecordedOK(c) == EntriesDue(c) \subseteq ledger \/ \E d \in Calls : ShareBareKey(c, d)

\* Entries are only added.
LEMMA LedgerGrows ==
    ASSUME Shape, NEW c \in Calls, Call(c) \/ Step(c) \/ Crash(c)
    PROVE  ledger \subseteq ledger'
<1>1. CASE ledger' = ledger
  BY <1>1
<1>2. CASE HoldDebit(c) \/ HoldCredit(c) \/ RecordSettle(c)
  BY <1>2 DEF HoldDebit, HoldCredit, RecordSettle, CreateEntry
<1>3. CASE Record(c)
  <2>1. req[c].kind \in {"settle", "refund", "partial"}
    BY <1>3, ResolveFields DEF Record, IsResolve, Resolving
  <2> QED
    BY <1>3, <2>1 DEF Record, CreateEntry
<1> QED
  BY <1>1, <1>2, <1>3, LedgerWriters

\* Under a free key createEntry stores what it is asked for.
LEMMA EntryMade ==
    ASSUME NEW c \in Calls, NEW suffix, NEW account, NEW state, NEW amount,
           CreateEntry(c, suffix, account, state, amount), Free(c, suffix)
    PROVE  Due(c, suffix, account, state, amount) \in ledger'
BY DEF CreateEntry, Free, Due

\* A key is free when its entry is due, unless another operation uses it bare.
LEMMA DueKeyFree ==
    ASSUME IInv, EntriesOK, NEW c \in Calls, NEW suffix,
           \/ suffix = "_debit" /\ pc[c] = "debit"
           \/ suffix = "_credit" /\ pc[c] = "credit"
           \/ suffix = "_refund" /\ pc[c] = "record" /\ req[c].kind = "partial"
           \/ suffix = "_settle" /\ pc[c] = "recordSettle"
           \/ suffix = "" /\ pc[c] = "record" /\ req[c].kind \in {"settle", "refund"}
    PROVE  Free(c, suffix) \/ \E d \in Calls : ShareBareKey(c, d)
<1> SUFFICES ASSUME NEW x \in ledger, x.key = <<req[c].key, suffix>>
             PROVE  \E d \in Calls : ShareBareKey(c, d)
  BY DEF Free
<1>1. PICK d \in Calls : Recorder(x, req[d], pc[d])
  BY DEF EntriesOK
<1>2. /\ suffix \in {"_debit", "_credit"} => req[c].kind = "hold"
      /\ suffix = "_settle" => req[c].kind = "partial"
  BY HoldFields, RequestFields DEF IInv, Shape, HoldSteps, IsHold, RequestOK
<1>3. x.key[1] = req[c].key /\ x.key[2] = suffix
  BY KeyParts
<1>4. /\ req[d].key = req[c].key /\ pc[d] # pc[c]
      /\ pc[d] \in {"credit", "publish", "returned", "recordSettle"}
      /\ \/ req[d].kind = req[c].kind
         \/ suffix = "" /\ req[d].kind \in {"settle", "refund"}
  BY <1>1, <1>2, <1>3 DEF Recorder
<1>5. PastClaim(c) /\ PastClaim(d) /\ c # d
  BY <1>4 DEF PastClaim
<1>6. req[d].kind # req[c].kind
  BY <1>4, <1>5, OwnKey
<1>7. req[c].kind \in {"settle", "refund"} /\ req[d].kind \in {"settle", "refund"}
  BY <1>4, <1>6
<1> QED
  BY <1>4, <1>6, <1>7 DEF ShareBareKey

\* Two operations that share a key go on sharing it.
LEMMA SharedKept ==
    ASSUME Shape, NEW c \in Calls, Call(c) \/ Step(c) \/ Crash(c),
           NEW d \in Calls, NEW e \in Calls, ShareBareKey(d, e)
    PROVE  ShareBareKey(d, e)'
<1>1. ASSUME NEW f \in Calls, req[f].kind \in {"settle", "refund"}
      PROVE  req'[f] = req[f]
  <2>1. CASE f # c
    BY <2>1, StepFrame DEF Frame, Shape
  <2>2. CASE f = c
    <3>1. RequestOK(c)
      BY RequestFields
    <3>2. ~Call(c) /\ ~HoldCreateItem(c) /\ ~HoldDeleteItem(c)
      BY <1>1, <2>2, <3>1 DEF RequestOK, Call, HoldCreateItem, HoldDeleteItem, At, HoldSteps
    <3> QED
      BY <2>2, <3>2 DEF Step, Claim, Crash, HoldStep, ResolveStep, HoldRead,
         HoldCreateWallet, HoldCasWallet, HoldDebit, HoldCredit, HoldPublish, Lock,
         ReadUser, ReadModel, CreateModel, CasModel, CasUser, Unlock, Finalize,
         Record, RecordSettle, locals
  <2> QED
    BY <2>1, <2>2
<1>2. req[d].kind \in {"settle", "refund"} /\ req[e].kind \in {"settle", "refund"}
  BY DEF ShareBareKey
<1> QED
  BY <1>1, <1>2 DEF ShareBareKey

\* No entry is due of a call before its last wallet write, nor of one that throws.
LEMMA NothingDue ==
    ASSUME TypeOK, NEW c \in Calls, Call(c) \/ Step(c),
           ~HoldDebit(c), ~HoldCredit(c), ~HoldPublish(c), ~Record(c), ~RecordSettle(c),
           ~Finalize(c)
    PROVE  EntriesDue(c)' = {}
<1>1. pc'[c] \notin {"credit", "publish", "recordSettle", "returned"}
  <2>1. CASE Call(c) \/ Claim(c)
    BY <2>1 DEF Call, Claim, TypeOK
  <2>2. CASE HoldStep(c)
    BY <2>2 DEF HoldStep, HoldRead, HoldCreateWallet, HoldCreateItem, HoldCasWallet,
       HoldDeleteItem, TypeOK
  <2>3. CASE ResolveStep(c)
    BY <2>3 DEF ResolveStep, Lock, ReadUser, ReadModel, CreateModel, CasModel, CasUser,
       Unlock, AfterReadModel, TypeOK
  <2> QED
    BY <2>1, <2>2, <2>3 DEF Step
<1> QED
  BY <1>1 DEF EntriesDue

\* The entries due of a hold.
LEMMA RecordedByHold ==
    ASSUME IInv, EntriesOK, NEW c \in Calls, EntriesDue(c) \subseteq ledger,
           \A d \in Calls : ~ShareBareKey(c, d),
           HoldDebit(c) \/ HoldCredit(c) \/ HoldPublish(c)
    PROVE  EntriesDue(c)' \subseteq ledger'
<1> DEFINE debit  == Due(c, "_debit", req[c].user, "available", -req[c].amount)
           credit == Due(c, "_credit", req[c].user, "escrow", req[c].amount)
<1>0. TypeOK /\ Shape
  BY DEF IInv, Shape
<1>1. req' = req /\ req[c].kind = "hold"
  BY <1>0, HoldFields DEF HoldDebit, HoldCredit, HoldPublish, HoldSteps, IsHold
<1>2. ledger \subseteq ledger'
  BY <1>0, LedgerGrows DEF Step, HoldStep
<1>3. CASE HoldDebit(c)
  <2>0. pc'[c] = "credit"
    BY <1>0, <1>3 DEF HoldDebit, TypeOK
  <2>1. EntriesDue(c)' = {debit}
    BY <1>1, <2>0 DEF EntriesDue, Due
  <2>2. debit \in ledger'
    BY <1>3, DueKeyFree, EntryMade DEF HoldDebit
  <2> QED
    BY <2>1, <2>2
<1>4. CASE HoldCredit(c)
  <2>0. pc[c] = "credit" /\ pc'[c] = "publish"
    BY <1>0, <1>4 DEF HoldCredit, TypeOK
  <2>1. EntriesDue(c) = {debit} /\ EntriesDue(c)' = {debit, credit}
    BY <1>1, <2>0 DEF EntriesDue, Due
  <2>2. credit \in ledger'
    BY <1>4, DueKeyFree, EntryMade DEF HoldCredit
  <2> QED
    BY <1>2, <2>1, <2>2
<1>5. CASE HoldPublish(c)
  <2>1. EntriesDue(c)' = EntriesDue(c)
    BY <1>0, <1>1, <1>5 DEF HoldPublish, EntriesDue, Due
  <2> QED
    BY <1>2, <2>1
<1> QED
  BY <1>3, <1>4, <1>5

\* The entries due of a settlement, a refund or a partial settlement.
LEMMA RecordedByResolve ==
    ASSUME IInv, EntriesOK, NEW c \in Calls, EntriesDue(c) \subseteq ledger,
           \A d \in Calls : ~ShareBareKey(c, d),
           Finalize(c) \/ Record(c) \/ RecordSettle(c)
    PROVE  EntriesDue(c)' \subseteq ledger'
<1> DEFINE r == req[c]
           refund == Due(c, "_refund", r.user, "available", r.refund)
           settle == Due(c, "_settle", r.model, "earned", r.amount)
<1>0. TypeOK /\ Shape
  BY DEF IInv, Shape
<1>1. /\ req' = req /\ r.kind \in {"settle", "refund", "partial"}
      /\ r.amount \in Nat /\ r.refund \in Nat
      /\ RecordSettle(c) => r.kind = "partial"
  BY <1>0, ResolveFields, RequestFields DEF Finalize, Record, RecordSettle, IsResolve,
     Resolving, LockedSteps, RequestOK
<1>2. ledger \subseteq ledger'
  BY <1>0, LedgerGrows DEF Step, ResolveStep
<1>3. refund.amount = r.refund /\ settle.amount = r.amount
  BY DEF Due
<1>4. CASE Finalize(c)
  <2>1. CASE r.kind = "partial" /\ r.refund = 0
    <3>1. pc'[c] = IF r.amount > 0 THEN "recordSettle" ELSE "returned"
      BY <1>0, <1>4, <2>1 DEF Finalize, AfterRefundEntry, TypeOK
    <3>2. EntriesDue(c)' \subseteq {x \in {refund, settle} : x.amount > 0}
          /\ (r.amount > 0 => EntriesDue(c)' = {x \in {refund} : x.amount > 0})
      BY <1>1, <2>1, <3>1 DEF EntriesDue, Due
    <3> QED
      BY <1>1, <1>3, <2>1, <3>2
  <2>2. CASE ~(r.kind = "partial" /\ r.refund = 0)
    <3>1. pc'[c] = "record"
      BY <1>0, <1>4, <2>2 DEF Finalize, TypeOK
    <3> QED
      BY <3>1 DEF EntriesDue
  <2> QED
    BY <2>1, <2>2
<1>5. CASE Record(c) /\ r.kind = "settle"
  <2>1. pc'[c] = "returned" /\ CreateEntry(c, "", r.model, "earned", r.amount)
        /\ pc[c] = "record"
    BY <1>0, <1>5 DEF Record, AfterRefundEntry, TypeOK
  <2>2. Due(c, "", r.model, "earned", r.amount) \in ledger'
    BY <1>5, <2>1, DueKeyFree, EntryMade
  <2>3. EntriesDue(c)' = {Due(c, "", r.model, "earned", r.amount)}
    BY <1>1, <1>5, <2>1 DEF EntriesDue, Due
  <2> QED
    BY <2>2, <2>3
<1>6. CASE Record(c) /\ r.kind = "refund"
  <2>1. pc'[c] = "returned" /\ CreateEntry(c, "", r.user, "available", r.amount)
        /\ pc[c] = "record"
    BY <1>0, <1>6 DEF Record, AfterRefundEntry, TypeOK
  <2>2. Due(c, "", r.user, "available", r.amount) \in ledger'
    BY <1>6, <2>1, DueKeyFree, EntryMade
  <2>3. EntriesDue(c)' = {Due(c, "", r.user, "available", r.amount)}
    BY <1>1, <1>6, <2>1 DEF EntriesDue, Due
  <2> QED
    BY <2>2, <2>3
<1>7. CASE Record(c) /\ r.kind = "partial"
  <2>1. /\ pc'[c] = IF r.amount > 0 THEN "recordSettle" ELSE "returned"
        /\ pc[c] = "record" /\ CreateEntry(c, "_refund", r.user, "available", r.refund)
    BY <1>0, <1>7 DEF Record, AfterRefundEntry, TypeOK
  <2>2. refund \in ledger'
    BY <1>7, <2>1, DueKeyFree, EntryMade
  <2>3. EntriesDue(c)' \subseteq {x \in {refund, settle} : x.amount > 0}
        /\ (r.amount > 0 => EntriesDue(c)' = {x \in {refund} : x.amount > 0})
    BY <1>1, <1>7, <2>1 DEF EntriesDue, Due
  <2> QED
    BY <1>1, <1>3, <2>2, <2>3
<1>8. CASE RecordSettle(c)
  <2>1. /\ pc'[c] = "returned" /\ pc[c] = "recordSettle" /\ r.kind = "partial"
        /\ CreateEntry(c, "_settle", r.model, "earned", r.amount)
    BY <1>0, <1>1, <1>8 DEF RecordSettle, TypeOK
  <2>2. settle \in ledger'
    BY <2>1, DueKeyFree, EntryMade
  <2>3. EntriesDue(c) = {x \in {refund} : x.amount > 0}
        /\ EntriesDue(c)' = {x \in {refund, settle} : x.amount > 0}
    BY <1>1, <2>1 DEF EntriesDue, Due
  <2> QED
    BY <1>2, <2>2, <2>3
<1> QED
  BY <1>1, <1>4, <1>5, <1>6, <1>7, <1>8

\* Every step of the system records what is due.
LEMMA RecordedStep ==
    ASSUME IInv, EntriesOK, RecordedUnlessShared, [Next]_vars
    PROVE  RecordedUnlessShared'
<1>0. TypeOK /\ Shape /\ \A c \in Calls : RecordedOK(c)
  BY DEF IInv, Shape, RecordedUnlessShared, RecordedOK
<1>1. ASSUME NEW c \in Calls, Call(c) \/ Step(c) \/ Crash(c), NEW d \in Calls
      PROVE  RecordedOK(d)'
  <2>1. CASE \E e \in Calls : ShareBareKey(d, e)
    BY <1>0, <1>1, <2>1, SharedKept DEF RecordedOK
  <2>2. CASE /\ d # c \/ Crash(c)
             /\ \A e \in Calls : ~ShareBareKey(d, e)
    <3>1. req'[d] = req[d] /\ pc'[d] = pc[d]
      BY <1>0, <1>1, <2>2, StepFrame DEF Frame, Crash
    <3>2. EntriesDue(d)' = EntriesDue(d)
      BY <3>1 DEF EntriesDue, Due
    <3> QED
      BY <1>0, <1>1, <2>2, <3>2, LedgerGrows DEF RecordedOK
  <2>3. CASE /\ d = c /\ (Call(c) \/ Step(c))
             /\ \A e \in Calls : ~ShareBareKey(d, e)
    <3>1. EntriesDue(c) \subseteq ledger
      BY <1>0, <2>3 DEF RecordedOK
    <3>2. EntriesDue(c)' \subseteq ledger'
      BY <1>0, <2>3, <3>1, RecordedByHold, RecordedByResolve, NothingDue
    <3> QED
      BY <2>3, <3>2 DEF RecordedOK
  <2> QED
    BY <1>1, <2>1, <2>2, <2>3
<1>2. ASSUME (\E u \in Users : OtherWrite(u)) \/ UNCHANGED vars, NEW d \in Calls
      PROVE  RecordedOK(d)'
  <2>1. ledger' = ledger /\ pc' = pc /\ req' = req
    BY <1>2 DEF OtherWrite, vars
  <2> QED
    BY <1>0, <2>1 DEF RecordedOK, EntriesDue, Due, ShareBareKey
<1>3. \A d \in Calls : RecordedOK(d)'
  BY <1>1, <1>2 DEF Next
<1> QED
  BY <1>3 DEF RecordedOK, RecordedUnlessShared

-----------------------------------------------------------------------------
(* The three equations hold of every behaviour.                             *)

\* Before any call there is nothing to explain.
LEMMA InitAudit ==
    ASSUME Init
    PROVE  AuditInv
<1> USE DEF Init
<1>0. IInv /\ TypeOK /\ Shape
  BY InitInvariant DEF IInv, Shape
<1>1. \A u \in Users : /\ wallets[u].available \in Int /\ wallets[u].escrow = 0
                       /\ others[u].net = wallets[u].available
  BY BalanceAssumption DEF NoWallet, OldWallet
<1>2. Audit
  <2>1. AppliedOK /\ HoldItemsOK
    BY DEF AppliedOK, HoldItemsOK, NoRequest, AppliedAt
  <2>2. EntriesOK
    BY FS_EmptySet DEF EntriesOK
  <2>3. TrustOK
    BY DEF TrustOK, Trusted, NoRequest, Resolving
  <2> QED
    BY <2>1, <2>2, <2>3 DEF Audit
<1>3. AvailableExplained
  <2> SUFFICES ASSUME NEW u \in Users
               PROVE  wallets[u].available = others[u].net + Posted(u, "available")
                         + SumFunction([c \in Calls |-> Unrecorded(c, u)])
    BY DEF AvailableExplained
  <2>1. Posted(u, "available") = 0
    <3>1. Posts(u, "available") = {}
      BY DEF Posts
    <3> QED
      BY <3>1, PostedSum, SumEmpty
  <2> DEFINE F == [c \in Calls |-> Unrecorded(c, u)]
  <2>2. \A c \in Calls : F[c] = 0
    BY DEF Unrecorded
  <2>3. SumFunction(F) = SumFunctionOnSet(F, Calls)
    BY DEF SumFunction
  <2> HIDE DEF F
  <2>4. SumFunction(F) = 0
    BY <2>2, <2>3, SumZero, FiniteAssumption
  <2> QED
    BY <1>1, <2>1, <2>4 DEF F
<1>4. EscrowBacked
  <2> SUFFICES ASSUME NEW u \in Users PROVE Backed(u)
    BY <1>0, BackedOf
  <2> DEFINE F == [c \in Calls |-> TakenOut(c, u)]
             G == [e \in EscrowIds |-> Backing(e, u)]
  <2>1. \A c \in Calls : F[c] = 0
    BY DEF TakenOut
  <2>2. \A e \in EscrowIds : G[e] = 0
    BY DEF Backing, Open, NoItem, Processing
  <2>3. TakenSum(u) = SumFunctionOnSet(F, Calls) /\ BackedSum(u) = SumFunctionOnSet(G, EscrowIds)
    BY DEF TakenSum, BackedSum, SumFunction
  <2> HIDE DEF F, G
  <2>4. TakenSum(u) = 0 /\ BackedSum(u) = 0
    BY <2>1, <2>2, <2>3, SumZero, FiniteAssumption
  <2> QED
    BY <1>1, <2>4 DEF Backed
<1>5. PointsConserved
  <2> DEFINE F == [u \in Users |-> Held(u)]
             G == [u \in Users |-> others[u].net]
             H == [m \in Models |-> models[m].earned]
             I == [c \in Calls |-> Unbalanced(c)]
  <2>1. F = G
    BY <1>1 DEF Held
  <2>2. \A m \in Models : H[m] = 0
    BY DEF NoModelWallet
  <2>3. \A c \in Calls : I[c] = 0
    BY DEF Unbalanced, NoRequest
  <2>4. /\ HeldSum = SumFunction(F) /\ Granted = SumFunction(G)
        /\ EarnedSum = SumFunctionOnSet(H, Models)
        /\ UnbalancedSum = SumFunctionOnSet(I, Calls)
    BY DEF HeldSum, Granted, EarnedSum, UnbalancedSum, SumFunction
  <2> HIDE DEF F, G, H, I
  <2>5. EarnedSum = 0 /\ UnbalancedSum = 0 /\ HeldSum = Granted
    BY <2>1, <2>2, <2>3, <2>4, SumZero, FiniteAssumption
  <2> QED
    BY <1>0, <2>5, ConservedOf, SumTypes
<1> QED
  BY <1>0, <1>2, <1>3, <1>4, <1>5 DEF AuditInv

\* Every step keeps the invariant.
LEMMA NextAudit ==
    ASSUME AuditInv, [Next]_vars
    PROVE  AuditInv'
<1>1. IInv /\ AppliedOK /\ EntriesOK /\ HoldItemsOK /\ TrustOK /\ AvailableExplained
      /\ Shape /\ EscrowLockExclusive
  BY DEF AuditInv, Audit, IInv
<1>2. IInv' /\ Shape'
  BY <1>1, NextInvariant, ShapeStep
<1>3. AppliedOK' /\ EntriesOK' /\ HoldItemsOK' /\ TrustOK'
  BY <1>1, AppliedStep, EntriesStep, HoldItemsStep, TrustStep
<1>4. AvailableExplained'
  BY <1>1, <1>2, <1>3, ExplainedStep
<1>5. ASSUME TrustedCallers PROVE EscrowBacked' /\ PointsConserved'
  BY <1>1, <1>2, <1>5, BackedStep, ConservedStep DEF AuditInv
<1> QED
  BY <1>2, <1>3, <1>4, <1>5 DEF AuditInv, Audit

\* The invariant of the accounts holds of every reachable state, however the
\* calls of WalletService interleave, conflict, give up and die.
THEOREM AuditInvariant == Spec => []AuditInv
<1>1. Init => AuditInv
  BY InitAudit
<1>2. AuditInv /\ [Next]_vars => AuditInv'
  BY NextAudit
<1> QED
  BY <1>1, <1>2, PTL DEF Spec

\* The available balance a wallet shows is what came in from outside plus its
\* ledger entries plus exactly the changes still without one: no interleaving
\* of holds, refunds and partial settlements moves an available point unseen.
THEOREM AvailableIsExplained == Spec => []AvailableExplained
<1>1. AuditInv => AvailableExplained
  BY DEF AuditInv
<1> QED
  BY <1>1, AuditInvariant, PTL

\* No operation of WalletService loses a ledger entry to another call, or to a
\* repetition of itself, however calls interleave, conflict, give up and die, but
\* for a settlement and a refund that share a key (createEntry).
THEOREM EntriesRecorded == Spec => []RecordedUnlessShared
<1>1. Init => RecordedUnlessShared
  BY DEF Init, RecordedUnlessShared, EntriesDue, NoRequest
<1>2. AuditInv /\ RecordedUnlessShared /\ [Next]_vars => RecordedUnlessShared'
  BY RecordedStep DEF AuditInv, Audit
<1> QED
  BY <1>1, <1>2, AuditInvariant, PTL DEF Spec

\* If callers ask for the amount held, the escrow balance of a wallet is what
\* its open escrow items hold, up to the writes of a call between its wallet
\* update and its update of the item, or of one that stopped there.
THEOREM EscrowIsBacked ==
    ASSUME TrustedCallers
    PROVE  Spec => []EscrowBacked
<1>1. AuditInv => EscrowBacked
  BY DEF AuditInv
<1> QED
  BY <1>1, AuditInvariant, PTL

\* If callers ask for the amount held, holds, settlements and refunds create and
\* lose no points, but for a settlement between its two wallet updates, or one
\* that gave up or died there.
THEOREM PointsAreConserved ==
    ASSUME TrustedCallers
    PROVE  Spec => []PointsConserved
<1>1. AuditInv => PointsConserved
  BY DEF AuditInv
<1> QED
  BY <1>1, AuditInvariant, PTL


\* No call is under way, and none has thrown after it wrote a wallet.
Settled == \A c \in Calls : \/ pc[c] \in {"idle", "returned"}
                            \/ pc[c] = "thrown" /\ applied[c] = {}

\* Once every call has returned, or has thrown before its first wallet write, the
\* points in circulation are those granted, and the escrow balance of a user is
\* the sum of the user's open items: only the windows inside a call, and failures
\* between two writes of a call that are not compensated, ever part the books.
THEOREM SettledBooksBalance ==
    ASSUME TrustedCallers
    PROVE  Spec => [](Settled =>
              /\ Circulating = Granted
              /\ \A u \in Users : wallets[u].escrow =
                    SumFunction([e \in OpenItems(u) |-> items[e].amount]))
<1>1. ASSUME AuditInv, Settled, NEW c \in Calls
      PROVE  Unbalanced(c) = 0 /\ \A u \in Users : TakenOut(c, u) = 0
  <2>1. applied[c] \in AppliedAt(req[c].kind, pc[c])
    BY <1>1 DEF AuditInv, Audit, AppliedOK
  <2>2. CASE pc[c] = "thrown" /\ applied[c] = {}
    BY <2>2 DEF Unbalanced, TakenOut
  <2>3. CASE pc[c] = "idle"
    <3>1. req[c].kind = "none"
      BY <1>1, <2>3 DEF AuditInv, IInv, Shape, RequestsOK, RequestOK
    <3> QED
      BY <2>3, <3>1 DEF Unbalanced, TakenOut
  <2>4. CASE pc[c] = "returned"
    <3>1. req[c].kind \in {"settle", "partial"} => applied[c] = {"user", "model"}
      BY <2>1, <2>4 DEF AppliedAt
    <3>2. {"user", "model"} # {"model"} /\ {"user", "model"} # {"user"}
      OBVIOUS
    <3> QED
      BY <2>4, <3>1, <3>2 DEF Unbalanced, TakenOut
  <2> QED
    BY <1>1, <2>2, <2>3, <2>4 DEF Settled
<1>2. ASSUME AuditInv, Settled PROVE Circulating = Granted
  <2> DEFINE F == [c \in Calls |-> Unbalanced(c)]
  <2>1. \A c \in Calls : F[c] = 0
    BY <1>1, <1>2
  <2>2. Circulating = Granted + SumFunctionOnSet(F, Calls)
    BY <1>2 DEF AuditInv, PointsConserved, SumFunction
  <2> HIDE DEF F
  <2>3. SumFunctionOnSet(F, Calls) = 0
    BY <2>1, SumZero, FiniteAssumption
  <2>4. Granted \in Int
    BY <1>2, SumTypes DEF AuditInv, IInv
  <2> QED
    BY <2>2, <2>3, <2>4
<1>3. ASSUME AuditInv, Settled, NEW u \in Users
      PROVE  wallets[u].escrow = SumFunction([e \in OpenItems(u) |-> items[e].amount])
  <2>0. \A e \in EscrowIds : items[e].amount \in Int
    <3>1. items \in [EscrowIds -> Item] /\ Points \subseteq Int
      BY <1>3, PointsAreNaturals DEF AuditInv, IInv, Shape, TypeOK
    <3>2. ASSUME NEW e \in EscrowIds PROVE items[e].amount \in Int
      BY <3>1 DEF Item
    <3> QED
      BY <3>2
  <2> DEFINE F == [c \in Calls |-> TakenOut(c, u)]
             held == SumFunction([e \in OpenItems(u) |-> items[e].amount])
  <2>1. \A c \in Calls : F[c] = 0
    BY <1>1, <1>3
  <2>2. wallets[u].escrow = held - SumFunctionOnSet(F, Calls)
    BY <1>3 DEF AuditInv, EscrowBacked, SumFunction
  <2>3. held \in Int
    <3> DEFINE G == [e \in OpenItems(u) |-> items[e].amount]
    <3>1. held = SumFunctionOnSet(G, OpenItems(u))
      BY DEF SumFunction
    <3>2. IsFiniteSet(OpenItems(u))
      BY FiniteAssumption, FS_Subset DEF OpenItems
    <3>3. \A e \in OpenItems(u) : G[e] \in Int
      BY <2>0 DEF OpenItems
    <3> HIDE DEF G, held
    <3> QED
      BY <3>1, <3>2, <3>3, SumType
  <2> HIDE DEF F, held
  <2>4. SumFunctionOnSet(F, Calls) = 0
    BY <2>1, SumZero, FiniteAssumption
  <2>5. wallets[u].escrow = held
    BY <2>2, <2>3, <2>4
  <2> QED
    BY <2>5 DEF held
<1>4. AuditInv => (Settled =>
          /\ Circulating = Granted
          /\ \A u \in Users : wallets[u].escrow =
                SumFunction([e \in OpenItems(u) |-> items[e].amount]))
  BY <1>2, <1>3
<1> QED
  BY <1>4, AuditInvariant, PTL
==============================================================================
