---------------------------- MODULE PointAccrual ----------------------------
(***************************************************************************)
(* The services that write a user's available balance without escrow:      *)
(* WalletController.creditPoints and deductPoints over PointAccrualService *)
(* (awardPoints, deductFromAvailable), its bonus methods called directly,  *)
(* PointExpirationService.processUserExpiration and                        *)
(* AdminOpsService.manualAdjustment with the refunds and corrections built *)
(* on it (src/src/api, src/src/services).                                  *)
(*                                                                         *)
(* All share one pattern, with no transaction around it: read the wallet,  *)
(* compare-and-set on its version, retry on a conflict, then add a ledger  *)
(* entry under a key that is unique.  An entry whose key exists already is *)
(* answered with the stored one and adds nothing.  One awaited database    *)
(* call is one action; a process may die between any two.                  *)
(***************************************************************************)
EXTENDS Integers, Sequences, FiniteSets, Functions

CONSTANTS
    Users,              \* user ids
    Keys,               \* idempotency keys, promotion ids, admin request ids
    Calls,              \* the calls of a behaviour, each made once
    Amounts,            \* amounts a caller may ask for
    InitialBalance,     \* available points of a wallet that already exists
    MaxRetryAttempts,   \* config.maxRetryAttempts of the accrual service
    LastDay,            \* bound: days are 1 .. LastDay
    MaxCrashes,         \* bound: calls whose process dies midway
    Null                \* no expiry date, no user in the key

ASSUME AmountsAssumption == Amounts \subseteq Nat \ {0}
ASSUME BalanceAssumption == InitialBalance \in Nat
ASSUME BoundsAssumption ==
    /\ MaxRetryAttempts \in Nat \ {0}
    /\ LastDay \in 1 .. 90        \* the records live 90 days (TTL index)
    /\ MaxCrashes \in Nat
ASSUME NullAssumption == Null \notin Users \cup Keys \cup Nat
ASSUME CallsAssumption == IsFiniteSet(Calls)

VARIABLES
    wallets,    \* wallets[u]: the WalletModel document of a user
    ledger,     \* LedgerEntryModel: the entries inserted
    records,    \* IdempotencyRecordModel of the controller: answered requests
    today,      \* the date
    pc,         \* pc[c]: the await call c is about to perform
    req,        \* req[c]: its request
    saw,        \* saw[c]: the wallet as it last read it
    due,        \* due[c]: totalExpired of an expiration
    attempts,   \* attempts[c]: retryCount of an award or a deduction
    crashed,    \* calls whose process died
    balances,   \* history: balances[u][v + 1] is the balance at version v
    moved,      \* history: moved[c] is what call c has added to the wallet
    earlier     \* history: calls that had answered c's request when it was made

store == <<wallets, ledger, records>>
locals == <<req, saw, due, attempts>>
history == <<balances, moved, earlier>>
vars == <<store, today, pc, locals, crashed, history>>

-----------------------------------------------------------------------------
(* Documents and requests.                                                  *)

Days == 1 .. LastDay

Wallet == [present: BOOLEAN, available: Int, version: Nat]
NoWallet == [present |-> FALSE, available |-> 0, version |-> 0]
NewWallet == [present |-> TRUE, available |-> 0, version |-> 0]
OldWallet == [present |-> TRUE, available |-> InitialBalance, version |-> 0]

Requested == {"credit", "deduct"}       \* through the controller
Crediting == {"credit", "award"}        \* awardPoints
Retrying == {"credit", "award", "deduct"}
Kinds == {"award", "adjust", "correct", "expire"} \cup Requested

Request == [kind: Kinds \cup {"none"}, user: Users \cup {Null},
            key: Keys \cup {Null}, amount: Int, expires: Days \cup {Null}]
NoRequest == [kind |-> "none", user |-> Null, key |-> Null, amount |-> 0,
              expires |-> Null]

\* The controller passes no expiry date on; a bonus may have one.
Requests ==
    [kind: Requested, user: Users, key: Keys, amount: Amounts, expires: {Null}]
      \cup [kind: {"award"}, user: Users, key: Keys, amount: Amounts,
            expires: Days \cup {Null}]
      \cup [kind: {"adjust", "correct"}, user: Users, key: Keys,
            amount: Amounts \cup {-a : a \in Amounts}, expires: {Null}]
      \cup [kind: {"expire"}, user: Users, key: {Null}, amount: {0},
            expires: {Null}]

LedgerKey == [scope: {"request", "bonus", "adjustment", "expiration"},
              id: Keys \cup Days, user: Users \cup {Null}]
Entry == [key: LedgerKey, transaction: Calls, user: Users, amount: Int,
          before: Int, after: Int, expires: Days \cup {Null}]

Finished == {"returned", "thrown"}
Steps == {"idle", "check", "query", "read", "create", "cas", "entry", "record"}
            \cup Finished

Init ==
    /\ wallets \in [Users -> {NoWallet, OldWallet}]
    /\ ledger = {}
    /\ records = {}
    /\ today = 1
    /\ pc = [c \in Calls |-> "idle"]
    /\ req = [c \in Calls |-> NoRequest]
    /\ saw = [c \in Calls |-> NoWallet]
    /\ due = [c \in Calls |-> 0]
    /\ attempts = [c \in Calls |-> 0]
    /\ crashed = {}
    /\ balances = [u \in Users |-> IF wallets[u].present
                                     THEN <<InitialBalance>> ELSE <<>>]
    /\ moved = [c \in Calls |-> 0]
    /\ earlier = [c \in Calls |-> {}]

-----------------------------------------------------------------------------
(* Helpers.                                                                 *)

At(c, step) == pc[c] = step /\ c \notin crashed
Goto(c, step) == pc' = [pc EXCEPT ![c] = step]

User(c) == req[c].user
WalletOf(c) == wallets[User(c)]

Lesser(a, b) == IF a <= b THEN a ELSE b

\* What the call adds to the available balance; an expiration takes at most
\* what it saw there.
Delta(c) == CASE req[c].kind = "deduct" -> -req[c].amount
              [] req[c].kind = "expire" -> -Lesser(due[c], saw[c].available)
              [] OTHER                  -> req[c].amount

\* Bug: the expiration records what was due.
EntryAmountDue(c) == IF req[c].kind = "expire" THEN -due[c] ELSE Delta(c)
EntryAmount(c) == Delta(c)

\* Expired credits of a user, whether or not an earlier run took them.
Expired(u) == {x \in ledger : /\ x.user = u /\ x.amount > 0
                              /\ x.expires # Null /\ x.expires <= today}
TotalExpired(u) == SumFunction([x \in Expired(u) |-> x.amount])

\* The key under which a call records: per request for the controller, per user
\* and promotion or admin request, per user and day.
KeyOf(c) ==
    CASE req[c].kind \in Requested ->
            [scope |-> "request", id |-> req[c].key, user |-> Null]
      [] req[c].kind = "award" ->
            [scope |-> "bonus", id |-> req[c].key, user |-> User(c)]
      [] req[c].kind = "expire" ->
            [scope |-> "expiration", id |-> today, user |-> User(c)]
      [] OTHER ->
            [scope |-> "adjustment", id |-> req[c].key, user |-> User(c)]

\* Bug: one operation for both directions, in the look-up only.
AnsweredAsCredit(c) == <<"credit", User(c), req[c].key>> \in records
\* checkKey: key and scope (user and operation) of the request.
Answered(c) == <<req[c].kind, User(c), req[c].key>> \in records

\* The filter of findOneAndUpdate; AnyVersion is the bug of not comparing.
AnyVersion(c) == req[c].kind = "deduct" => WalletOf(c).available >= req[c].amount
Matches(c) ==
    /\ WalletOf(c).version = saw[c].version
    /\ req[c].kind = "deduct" => WalletOf(c).available >= req[c].amount

\* Whether the operation goes on with the wallet it reads.
Accepts(c) ==
    /\ WalletOf(c).present
    /\ CASE req[c].kind = "deduct" -> WalletOf(c).available >= req[c].amount
         [] req[c].kind = "adjust" -> WalletOf(c).available + req[c].amount >= 0
         [] req[c].kind = "expire" -> WalletOf(c).available > 0
         [] OTHER                  -> TRUE

RetriesLeftInclusive(c) == req[c].kind \in Retrying => attempts[c] < MaxRetryAttempts
\* Expirations and adjustments retry without a limit.
RetriesLeft(c) == req[c].kind \in Retrying => attempts[c] + 1 < MaxRetryAttempts

\* Bug: the retry compares with the version it read before.
RetryStepStale(kind) == "cas"
RetryStep(kind) == IF kind = "expire" THEN "query" ELSE "read"

-----------------------------------------------------------------------------
(* One call, one action per await.                                          *)

FirstStep(kind) == CASE kind \in Requested -> "check"
                     [] kind = "expire"    -> "query"
                     [] OTHER              -> "read"

\* Controller calls with the same user, operation and key as r.
Twins(r) == {d \in Calls : /\ r.kind \in Requested /\ req[d].kind = r.kind
                           /\ User(d) = r.user /\ req[d].key = r.key}

Call(c) ==
    /\ pc[c] = "idle"
    /\ \E r \in Requests :
          /\ req' = [req EXCEPT ![c] = r]
          /\ Goto(c, FirstStep(r.kind))
          /\ earlier' = [earlier EXCEPT ![c] =
                            {d \in Twins(r) : pc[d] = "returned"}]
    /\ UNCHANGED <<store, today, saw, due, attempts, crashed, balances, moved>>

\* Requests of the controller only: an answered one is answered again.
Check(c) ==
    /\ At(c, "check")
    /\ Goto(c, IF Answered(c) THEN "returned" ELSE "read")
    /\ UNCHANGED <<store, today, locals, crashed, history>>

Query(c) ==
    /\ At(c, "query")
    /\ LET total == TotalExpired(User(c)) IN
        /\ due' = [due EXCEPT ![c] = total]
        /\ Goto(c, IF total = 0 THEN "returned" ELSE "read")
    /\ UNCHANGED <<store, today, req, saw, attempts, crashed, history>>

Read(c) ==
    /\ At(c, "read") /\ Accepts(c)
    /\ saw' = [saw EXCEPT ![c] = WalletOf(c)]
    /\ Goto(c, "cas")
    /\ UNCHANGED <<store, today, req, due, attempts, crashed, history>>

ReadNothing(c) ==
    /\ At(c, "read") /\ ~WalletOf(c).present
    /\ Goto(c, IF req[c].kind \in Crediting THEN "create" ELSE "thrown")
    /\ UNCHANGED <<store, today, locals, crashed, history>>

\* Insufficient or negative balance; an expiration returns null.
Refuse(c) ==
    /\ At(c, "read") /\ WalletOf(c).present /\ ~Accepts(c)
    /\ Goto(c, IF req[c].kind = "expire" THEN "returned" ELSE "thrown")
    /\ UNCHANGED <<store, today, locals, crashed, history>>

\* The unique index on userId refuses the second of two creations.
CreateWallet(c) ==
    /\ At(c, "create")
    /\ IF WalletOf(c).present
         THEN /\ Goto(c, "thrown")
              /\ UNCHANGED <<wallets, saw, balances>>
         ELSE /\ wallets' = [wallets EXCEPT ![User(c)] = NewWallet]
              /\ saw' = [saw EXCEPT ![c] = NewWallet]
              /\ balances' = [balances EXCEPT ![User(c)] = <<0>>]
              /\ Goto(c, "cas")
    /\ UNCHANGED <<ledger, records, today, req, due, attempts, crashed, moved,
                   earlier>>

Written(w, d) == [present |-> w.present, available |-> w.available + d,
                  version |-> w.version + 1]

Cas(c) ==
    /\ At(c, "cas") /\ Matches(c)
    /\ wallets' = [wallets EXCEPT ![User(c)] = Written(WalletOf(c), Delta(c))]
    /\ balances' = [balances EXCEPT ![User(c)] =
                       Append(@, WalletOf(c).available + Delta(c))]
    /\ moved' = [moved EXCEPT ![c] = Delta(c)]
    /\ Goto(c, "entry")
    /\ UNCHANGED <<ledger, records, today, locals, crashed, earlier>>

CasConflict(c) ==
    /\ At(c, "cas") /\ ~Matches(c)
    /\ IF RetriesLeft(c)
         THEN /\ Goto(c, RetryStep(req[c].kind))
              /\ attempts' = [attempts EXCEPT ![c] =
                                IF req[c].kind \in Retrying THEN @ + 1 ELSE @]
         ELSE Goto(c, "thrown") /\ UNCHANGED attempts
    /\ UNCHANGED <<store, today, req, saw, due, crashed, history>>

\* createEntry: the unique index on the key refuses a second entry, and the
\* stored one is returned instead.
CreateEntry(c) ==
    /\ At(c, "entry")
    /\ ledger' =
         IF \E x \in ledger : x.key = KeyOf(c) THEN ledger
         ELSE ledger \cup
                {[key |-> KeyOf(c), transaction |-> c, user |-> User(c),
                  amount |-> EntryAmount(c), before |-> saw[c].available,
                  after |-> saw[c].available + Delta(c),
                  expires |-> req[c].expires]}
    /\ Goto(c, IF req[c].kind \in Requested THEN "record" ELSE "returned")
    /\ UNCHANGED <<wallets, records, today, locals, crashed, history>>

\* recordKey: a record that exists makes the insertion, and the call, fail.
RecordKey(c) ==
    /\ At(c, "record")
    /\ Goto(c, IF Answered(c) THEN "thrown" ELSE "returned")
    /\ records' = records \cup {<<req[c].kind, User(c), req[c].key>>}
    /\ UNCHANGED <<wallets, ledger, today, locals, crashed, history>>

-----------------------------------------------------------------------------
(* The environment, and the specification.                                  *)

\* A process dies, a database call rejects, or createEntry refuses metadata
\* with personal data: the call stops, and what it wrote stays.
Crash(c) ==
    /\ pc[c] \notin Finished \cup {"idle"} /\ c \notin crashed
    /\ Cardinality(crashed) < MaxCrashes
    /\ crashed' = crashed \cup {c}
    /\ UNCHANGED <<store, today, pc, locals, history>>

NextDay ==
    /\ today < LastDay
    /\ today' = today + 1
    /\ UNCHANGED <<store, pc, locals, crashed, history>>

Step(c) == \/ Check(c) \/ Query(c) \/ Read(c) \/ ReadNothing(c) \/ Refuse(c)
           \/ CreateWallet(c) \/ Cas(c) \/ CasConflict(c) \/ CreateEntry(c)
           \/ RecordKey(c)

Next == NextDay \/ \E c \in Calls : Call(c) \/ Step(c) \/ Crash(c)

Spec == Init /\ [][Next]_vars

\* A call that has been accepted and whose process lives performs its next step.
FairSpec == Spec /\ \A c \in Calls : WF_vars(Step(c))

-----------------------------------------------------------------------------
(* Properties.                                                              *)

\* Every variable has its type, and no award or deduction tries more often than
\* configured (the retryCount guard at the head of awardPoints).
TypeOK ==
    /\ wallets \in [Users -> Wallet]
    /\ ledger \subseteq Entry /\ IsFiniteSet(ledger)
    /\ records \subseteq Requested \X Users \X Keys
    /\ today \in Days
    /\ pc \in [Calls -> Steps]
    /\ req \in [Calls -> Request]
    /\ saw \in [Calls -> Wallet]
    /\ due \in [Calls -> Nat]
    /\ attempts \in [Calls -> 0 .. (MaxRetryAttempts - 1)]
    /\ crashed \subseteq Calls
    /\ balances \in [Users -> Seq(Int)]
    /\ moved \in [Calls -> Int]
    /\ earlier \in [Calls -> SUBSET Calls]

\* Only an admin's correction makes a balance negative: deductFromAvailable,
\* processUserExpiration and manualAdjustment check a balance they read one
\* await before they write.
NegativeOnlyByCorrection ==
    [][\A u \in Users :
         wallets'[u].available < 0 =>
            \/ wallets'[u].available >= wallets[u].available
            \/ \E c \in Calls : /\ req[c].kind = "correct" /\ User(c) = u
                                /\ moved'[c] # moved[c]]_vars

\* balanceBefore and balanceAfter of an entry are two balances the wallet had one
\* after the other (computed from a read, recorded two awaits later).
EntriesTellHistory ==
    \A x \in ledger :
        \E v \in 1 .. (Len(balances[x.user]) - 1) :
            /\ balances[x.user][v] = x.before
            /\ balances[x.user][v + 1] = x.after
            /\ x.after = x.before + x.amount

Posted(u) == LET posts == {x \in ledger : x.user = u}
             IN  SumFunction([x \in posts |-> x.amount])

\* The change of u's wallet by call c that the ledger does not have.
Unrecorded(c, u) ==
    IF User(c) = u /\ \A x \in ledger : x.transaction # c THEN moved[c] ELSE 0

\* The first balance of u's wallet, and the changes the ledger does not have.
Opening(u) == IF balances[u] = <<>> THEN 0 ELSE Head(balances[u])
Pending(u) == SumFunction([c \in Calls |-> Unrecorded(c, u)])

\* The balance is the initial one plus the user's entries plus the changes not
\* recorded; and of the calls that got past createEntry these are only changes
\* for which the ledger holds an entry of another call under the same key.
LedgerExplainsWallet ==
    /\ \A u \in Users : wallets[u].available = Opening(u) + Posted(u) + Pending(u)
    /\ \A c \in Calls :
        /\ moved[c] # 0 /\ req[c].kind # "expire"
        /\ pc[c] \in {"record"} \cup Finished
        => \E x \in ledger : x.key = KeyOf(c)

\* A request to the controller that is repeated after it was answered moves no
\* points again (checkKey, recordKey); concurrent repetitions may.
RepeatIsAnswered == \A c \in Calls : earlier[c] # {} => moved[c] = 0

-----------------------------------------------------------------------------
(* The inductive invariant behind the safety theorems.                      *)

\* The wallet is the last balance of its history, and the version counts.
WalletsOK ==
    \A u \in Users :
        /\ wallets[u].present <=> balances[u] # <<>>
        /\ wallets[u].present =>
              /\ Len(balances[u]) = wallets[u].version + 1
              /\ balances[u][Len(balances[u])] = wallets[u].available

\* A version names one balance: what a call read is that balance, and what it
\* wrote is the next one.
SawOK ==
    \A c \in Calls :
        LET v == saw[c].version + 1
            b == balances[User(c)]
        IN /\ pc[c] \in {"cas", "entry"} =>
                v \in 1 .. Len(b) /\ b[v] = saw[c].available
           /\ pc[c] = "entry" =>
                v + 1 \in 1 .. Len(b) /\ b[v + 1] = saw[c].available + Delta(c)

\* The check of the balance holds of the balance read.
AcceptedOK ==
    \A c \in Calls :
        /\ req[c].kind = "expire" /\ pc[c] \in {"read", "cas"} => due[c] > 0
        /\ pc[c] = "cas" =>
            /\ req[c].kind \in {"deduct", "expire"} => saw[c].available > 0
            /\ req[c].kind \in {"deduct", "expire", "adjust"} =>
                  saw[c].available + Delta(c) >= 0
            /\ req[c].kind \in Crediting => Delta(c) > 0

\* A call has a request, moves points once, and a controller call that returned
\* has a record.
RequestsOK ==
    \A c \in Calls :
        /\ pc[c] # "idle" => req[c] \in Requests
        /\ pc[c] = "idle" => req[c] = NoRequest
        /\ pc[c] \in {"check", "record"} => req[c].kind \in Requested
        /\ pc[c] = "query" => req[c].kind = "expire"
        /\ pc[c] = "create" => req[c].kind \in Crediting
        /\ pc[c] \in {"idle", "check", "query", "read", "create", "cas"} =>
              moved[c] = 0
        /\ req[c].kind \in Requested /\ pc[c] = "returned" => Answered(c)
        /\ earlier[c] # {} => /\ req[c].kind \in Requested /\ Answered(c)
                              /\ pc[c] \in {"check", "returned"}
                              /\ moved[c] = 0

\* What the theorems about awards, deductions, expirations and adjustments need
\* together to be inductive.
IInv == TypeOK /\ WalletsOK /\ SawOK /\ AcceptedOK /\ RequestsOK
          /\ EntriesTellHistory

\* A wallet that does not exist holds nothing; a call about to record has moved
\* what it will record; what names a call in the ledger is that call's entry,
\* which is its last word but the idempotency record.
AccountsOK ==
    /\ \A u \in Users : ~wallets[u].present => wallets[u].available = 0
    /\ \A c \in Calls : pc[c] = "entry" => moved[c] = Delta(c) /\ moved[c] # 0
    /\ \A x \in ledger : pc[x.transaction] \in {"record"} \cup Finished

\* The invariant behind the theorem that the ledger explains the wallet.
Accounted == IInv /\ AccountsOK /\ LedgerExplainsWallet

-----------------------------------------------------------------------------
(* What the services promise.                                               *)

\* The change a call has made to a wallet, and the change an entry tells.
ChangeOf(c) ==
    [call |-> c, kind |-> req[c].kind, user |-> User(c),
     before |-> saw[c].available, amount |-> moved[c],
     after |-> saw[c].available + moved[c]]
Told(x) ==
    [call |-> x.transaction, kind |-> req[x.transaction].kind, user |-> x.user,
     before |-> x.before, amount |-> x.amount, after |-> x.after]

Changes == {ChangeOf(c) : c \in {d \in Calls : moved[d] # 0}}
Log == {[key |-> x.key, change |-> Told(x)] : x \in ledger}

Atomic == INSTANCE AtomicPoints WITH
    Corrections <- {"correct"},
    LedgerKeys  <- LedgerKey,
    opened      <- {u \in Users : wallets[u].present},
    balance     <- [u \in Users |-> wallets[u].available],
    changes     <- Changes,
    log         <- Log

\* Seen from outside every operation is one change of the current balance and
\* perhaps one entry that tells it, although each reads the wallet, compares and
\* sets it and records in awaits of their own, and retries on a conflict.
ImplementsAtomicPoints == Atomic!Spec

-----------------------------------------------------------------------------
(* Liveness, and what the documents say.                                    *)

\* Every call returns or throws: a retry reads again, so it fails only because
\* another call has got through.
EveryCallReturns ==
    \A c \in Calls : pc[c] # "idle" ~> pc[c] \in Finished \/ c \in crashed

\* "Duplicate keys return the prior result, never re-apply" (credit, deduct,
\* expiration): no two calls that record under one key both move points.
NeverReapplied ==
    \A c, d \in Calls :
        /\ {moved[c], moved[d]} \cap {0} = {}
        /\ req[c].kind # "none" /\ KeyOf(c) = KeyOf(d)
        => c = d
=============================================================================
