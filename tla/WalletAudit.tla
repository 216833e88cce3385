---------------------------- MODULE WalletAudit ----------------------------
(***************************************************************************)
(* Accounting properties of WalletEscrow: what the wallets, the escrow     *)
(* items and the ledger say of each other, in every state.                 *)
(*                                                                         *)
(* Each equation names exactly the windows in which the two sides may      *)
(* differ: between two writes of one call, and after a failure the code    *)
(* does not compensate.  A point that appears or vanishes anywhere else    *)
(* violates it.  They are stated for callers that ask for the amount held. *)
(***************************************************************************)
EXTENDS WalletRefinement, Functions

\* What the sums range over.
ASSUME FiniteAssumption ==
    IsFiniteSet(Users) /\ IsFiniteSet(Models) /\ IsFiniteSet(EscrowIds) /\ IsFiniteSet(Calls)

Posted(account, state) ==
    LET posts == {x \in ledger : x.account = account /\ x.state = state}
    IN  SumFunction([x \in posts |-> x.amount])

-----------------------------------------------------------------------------
(* Available points and the ledger.                                         *)

\* The call's refund has an entry of its own: a settlement that used the key
\* before has one for the model (createEntry returns that and adds nothing).
RefundRecorded(c) ==
    \E x \in ledger : /\ x.key = <<req[c].key, "">>
                       /\ x.account = req[c].user /\ x.state = "available"

\* The change of available a call has made to u's wallet that the ledger lacks:
\* it is before createEntry, or failed or crashed there, or its key was taken.
Unrecorded(c, u) ==
    IF "user" \notin applied[c] \/ Payer(c) # u THEN 0
    ELSE CASE req[c].kind = "hold" /\ pc[c] = "debit" -> -req[c].amount
           [] req[c].kind = "refund" /\ ~RefundRecorded(c) -> Released(c)
           [] req[c].kind = "partial"
                /\ pc[c] \notin {"recordSettle", "returned"} -> Released(c)
           [] OTHER -> 0

\* The available balance of a user is what came in from outside plus the
\* user's "available" ledger entries plus the changes not yet recorded.
AvailableExplained ==
    \A u \in Users :
        wallets[u].available = others[u].net + Posted(u, "available")
                                 + SumFunction([c \in Calls |-> Unrecorded(c, u)])

\* The entries call c has asked createEntry for so far; a partial settlement asks
\* only for its positive parts.
Due(c, suffix, account, state, amount) ==
    [key |-> <<req[c].key, suffix>>, account |-> account, state |-> state,
     amount |-> amount]
EntriesDue(c) ==
    LET r == req[c]
        debit  == Due(c, "_debit", r.user, "available", -r.amount)
        refund == Due(c, "_refund", r.user, "available", r.refund)
    IN  CASE r.kind = "hold" /\ pc[c] = "credit" -> {debit}
          [] r.kind = "hold" /\ pc[c] \in {"publish", "returned"} ->
               {debit, Due(c, "_credit", r.user, "escrow", r.amount)}
          [] r.kind = "settle" /\ pc[c] = "returned" ->
               {Due(c, "", r.model, "earned", r.amount)}
          [] r.kind = "refund" /\ pc[c] = "returned" ->
               {Due(c, "", r.user, "available", r.amount)}
          [] r.kind = "partial" /\ pc[c] = "recordSettle" ->
               {x \in {refund} : x.amount > 0}
          [] r.kind = "partial" /\ pc[c] = "returned" ->
               {x \in {refund, Due(c, "_settle", r.model, "earned", r.amount)} :
                   x.amount > 0}
          [] OTHER -> {}

\* createEntry answers a key it knows with the stored entry, whichever operation
\* asks.  Yet no operation loses an entry to another, or to a repetition of
\* itself: only a settlement and a refund that share a key can, for both record
\* under the bare key (executeSettle, executeRefund; the others add a suffix).
ShareBareKey(c, d) ==
    req[c].key = req[d].key /\ {req[c].kind, req[d].kind} = {"settle", "refund"}
RecordedUnlessShared ==
    \A c \in Calls :
        EntriesDue(c) \subseteq ledger \/ \E d \in Calls : ShareBareKey(c, d)

-----------------------------------------------------------------------------
(* Escrowed points and the escrow items.                                    *)

\* Items that stand for points in escrow: not those of a hold that has not got
\* through (yet) to the wallet.
OpenItems(u) == {e \in EscrowIds :
                    /\ items[e].user = u /\ ~Unfunded(e)
                    /\ items[e].status \in {"held"} \cup Processing}

\* The points of an open item that call c has already taken out of escrow: it is
\* before finalize, or partialSettleEscrow gave up after writing the user wallet.
TakenOut(c, u) ==
    IF /\ req[c].kind \in Resolving /\ "user" \in applied[c]
       /\ Payer(c) = u /\ pc[c] \in {"casModel", "finalize", "unlock", "thrown"}
    THEN Unescrowed(c) ELSE 0

\* The escrow balance of a user is the sum of the user's open escrow items, less
\* those not funded yet and what was taken out and not yet (or never) finalised.
EscrowBacked ==
    \A u \in Users :
        wallets[u].escrow = SumFunction([e \in OpenItems(u) |-> items[e].amount])
                              - SumFunction([c \in Calls |-> TakenOut(c, u)])

-----------------------------------------------------------------------------
(* All points.                                                              *)

Circulating ==
    SumFunction([u \in Users |-> wallets[u].available + wallets[u].escrow])
        + SumFunction([m \in Models |-> models[m].earned])
Granted == SumFunction([u \in Users |-> others[u].net])

\* Points a call has added (settle credits the model first) or removed (partial
\* debits the user first) with its first wallet write and not yet balanced.
Unbalanced(c) ==
    CASE req[c].kind = "settle" /\ applied[c] = {"model"} -> req[c].amount
      [] req[c].kind = "partial" /\ applied[c] = {"user"} -> -req[c].amount
      [] OTHER -> 0

\* Points are neither created nor lost, except by a settlement or a partial
\* settlement between its two wallet writes, or one that never made the second.
PointsConserved ==
    Circulating = Granted + SumFunction([c \in Calls |-> Unbalanced(c)])

-----------------------------------------------------------------------------
(* The inductive invariant behind the three equations.                      *)

\* What a call at a step of its kind has written of the user's and the model's
\* wallet: a partial settlement may give up between the two, a settlement too.
AppliedAt(kind, step) ==
    CASE kind = "hold" ->
           IF step \in {"debit", "credit", "publish", "returned"}
           THEN {{"user"}} ELSE {{}}
      [] kind = "settle" ->
           (CASE step \in {"readUser", "casUser", "unlock"} -> {{"model"}}
              [] step \in {"finalize", "record", "returned"} -> {{"user", "model"}}
              [] step = "thrown" -> {{}, {"model"}}
              [] OTHER -> {{}})
      [] kind = "refund" ->
           IF step \in {"finalize", "record", "returned"} THEN {{"user"}} ELSE {{}}
      [] kind = "partial" ->
           (CASE step = "casModel" -> {{"user"}}
              [] step \in {"finalize", "record", "recordSettle", "returned"}
                   -> {{"user", "model"}}
              [] step \in {"unlock", "thrown"} -> {{}, {"user"}}
              [] OTHER -> {{}})
      [] OTHER -> {{}}
AppliedOK == \A c \in Calls :
    /\ applied[c] \in AppliedAt(req[c].kind, pc[c])
    /\ applied[c] # {} => req[c].escrow \in EscrowIds

\* Entry x was recorded for request r, by a call now past the step that does.
Recorder(x, r, step) ==
    /\ x.key[1] = r.key
    /\ CASE x.key[2] = "_debit"  -> /\ r.kind = "hold"
                                    /\ step \in {"credit", "publish", "returned"}
         [] x.key[2] = "_credit" -> /\ r.kind = "hold"
                                    /\ step \in {"publish", "returned"}
         [] x.key[2] = "_refund" -> /\ r.kind = "partial"
                                    /\ step \in {"recordSettle", "returned"}
         [] x.key[2] = "_settle" -> r.kind = "partial" /\ step = "returned"
         [] OTHER ->
              /\ step = "returned"
              /\ r.kind = IF x.state = "available" THEN "refund" ELSE "settle"
EntriesOK == /\ IsFiniteSet(ledger)
             /\ \A x \in ledger : \E c \in Calls : Recorder(x, req[c], pc[c])

\* The item of a hold that has not written the wallet is the hold's own; one
\* that a trusted caller asks for keeps the user and the amount asked for.
HoldItemsOK ==
    \A c \in Calls : req[c].kind = "hold" /\ req[c].escrow # Null =>
        /\ items[req[c].escrow].user = req[c].user
        /\ items[req[c].escrow].amount = req[c].amount
TrustOK ==
    TrustedCallers => \A c \in Calls :
        /\ Trusted(req[c])
        /\ req[c].kind \in {"settle", "refund"} => req[c].refund = 0

Audit == AppliedOK /\ EntriesOK /\ HoldItemsOK /\ TrustOK
AuditInv == /\ IInv /\ Audit /\ AvailableExplained
            /\ TrustedCallers => EscrowBacked /\ PointsConserved

-----------------------------------------------------------------------------
(* What documents, comments and tests of the repository say, and the code    *)
(* does not do (README, section 4).                                          *)

Quiet == \A c \in Calls : pc[c] \in Finished \cup {"idle"}

\* "No double-spend, no lost funds": once every call has ended, and none
\* crashed, the points in circulation are those that were granted.
NoPointsLostOrCreated == Quiet => Circulating = Granted

\* The rollback of partialSettleEscrow covers "both escrow and user wallet":
\* a partial settlement that throws has not written the user wallet.
PartialRollsBackWallet ==
    \A c \in Calls : req[c].kind = "partial" /\ pc[c] = "thrown" => applied[c] = {}

\* An item in a processing state is being processed: the call that locked it
\* has not ended.
ProcessingHasOwner ==
    \A e \in EscrowIds : items[e].status \in Processing =>
        \E c \in Calls : HoldsLock(c) /\ req[c].escrow = e

\* "Immutable transaction records (2x)": when every call has ended, the escrow
\* entries of the ledger add up to the escrow balance.
EscrowExplained ==
    Quiet => \A u \in Users : wallets[u].escrow = Posted(u, "escrow")

\* "Every operation logged": a refund that returned to its caller has its own
\* ledger entry, also when its key served another type of operation.
RefundIsRecorded ==
    \A c \in Calls :
        req[c].kind = "refund" /\ pc[c] = "returned" => RefundRecorded(c)

\* "Amount to settle (must match escrow amount)": what a finished settlement
\* paid to the model is what the item held.
SettlesAmountHeld ==
    \A c \in Calls : req[c].kind = "settle" /\ pc[c] = "returned" =>
        req[c].amount = items[req[c].escrow].amount

\* "Return the same result for duplicate keys": of two calls with one key in
\* one scope, the second does not throw after the first has returned.
DuplicateGetsSameResult ==
    \A c, d \in Calls :
        /\ <<req[c].key, req[c].kind>> = <<req[d].key, req[d].kind>>
        /\ pc[c] = "returned"
        => pc[d] # "thrown"
=============================================================================
