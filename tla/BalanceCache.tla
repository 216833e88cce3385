---------------------------- MODULE BalanceCache ----------------------------
(***************************************************************************)
(* BalanceSnapshotCache kept up to date by the events of the wallet        *)
(* service: WalletEventPublisher, EventBus and the cache, in one process   *)
(* (src/src/events), fed by the escrow operations of WalletService.        *)
(*                                                                         *)
(* A call writes the wallets of a user and a model, compare-and-set on     *)
(* their versions, and publishes one event several awaits later.  A        *)
(* version names one balance (WalletEscrow, WalletEscrowProofs), so a      *)
(* balance is represented by the version that had it.                      *)
(***************************************************************************)
EXTENDS EventBus

CONSTANTS
    Users, Models,      \* account ids
    Cache,              \* subscriberId "balance-snapshot-cache"
    MaxSize,            \* config.maxSize of the cache
    Ttl,                \* config.ttlMs of the cache, in ticks
    MaxUntold,          \* bound: writes by services that publish nothing
    MaxFailures,        \* bound: calls that throw after they began
    MaxRestarts,        \* bound: restarts of the process
    Null                \* no request, no time

ASSUME AccountsAssumption ==
    Users \cap Models = {} /\ IsFiniteSet(Users \cup Models)
ASSUME CacheAssumption ==
    /\ Cache \in Subscribers
    /\ EventTypes = {"held", "settled", "refunded", "partial"}
    /\ Interested[Cache] = EventTypes
    /\ MaxSize \in Nat
    /\ Ttl \in Nat
    /\ {MaxUntold, MaxFailures, MaxRestarts} \subseteq Nat

VARIABLES
    versions,           \* versions[a]: version of the wallet of account a
    cache,              \* the entries of the cache, by account
    pc,                 \* pc[c]: the await call c is about to perform
    req,                \* req[c]: its request
    told,               \* told[c]: the balances its event carries
    untold,             \* number of writes by others
    failures,           \* number of calls that threw
    restarts,           \* number of restarts
    published,          \* history: published[c] is when the bus took c's event
    overlapped,         \* history: accounts two calls wrote with both events due
    missed              \* history: accounts with a balance no event will tell

callVars == <<pc, req, told>>
bounds == <<untold, failures, restarts>>
history == <<published, overlapped, missed>>
vars == <<busVars, versions, cache, callVars, bounds, history>>

Accounts == Users \cup Models

-----------------------------------------------------------------------------
(* Requests and cache entries.                                              *)

Request == [type : EventTypes, user : Users, model : Models, key : Keys]

ASSUME NullAssumption == Null \notin Nat /\ Null \notin Request

\* version: the balance shown; lastUpdated: timestamp of the event.
Cached == [version : Nat, lastUpdated : Ticks]

\* The keys of one operation are claimed before it writes; two operations may
\* share one.
Unclaimed(r) == \A c \in Calls : req[c] # Null =>
                    req[c].type # r.type \/ req[c].key # r.key

Init ==
    /\ InitBus
    /\ versions = [a \in Accounts |-> 0]
    /\ cache = <<>>
    /\ pc = [c \in Calls |-> "idle"]
    /\ req = [c \in Calls |-> Null]
    /\ told = [c \in Calls |-> <<>>]
    /\ untold = 0 /\ failures = 0 /\ restarts = 0
    /\ published = [c \in Calls |-> Null]
    /\ overlapped = {} /\ missed = {}

-----------------------------------------------------------------------------
(* The wallet service up to the publication.                                *)

Writing == {"user", "model", "publish"}

\* Calls that wrote account a and have not published.
Due(a) == {c \in Calls : pc[c] \in Writing /\ a \in DOMAIN told[c]}

Call(c, r) ==
    /\ pc[c] = "idle"
    /\ Unclaimed(r)
    /\ req' = [req EXCEPT ![c] = r]
    /\ pc' = [pc EXCEPT ![c] = IF r.type = "settled" THEN "model" ELSE "user"]
    /\ UNCHANGED <<busVars, versions, cache, told, bounds, history>>

\* A successful compare-and-set whose balance the event of c will carry.
Write(c, a) ==
    /\ versions' = [versions EXCEPT ![a] = versions[a] + 1]
    /\ told' = [told EXCEPT ![c] =
            [b \in DOMAIN told[c] \cup {a} |->
                IF b = a THEN versions[a] + 1 ELSE told[c][b]]]
    /\ overlapped' = IF Due(a) = {} THEN overlapped ELSE overlapped \cup {a}
    /\ UNCHANGED missed

\* A write no event tells of.
WriteSilently(a) ==
    /\ versions' = [versions EXCEPT ![a] = versions[a] + 1]
    /\ missed' = missed \cup {a}
    /\ UNCHANGED <<told, overlapped>>

\* A settlement's event carries the model's balance only.
WriteUser(c) ==
    /\ pc[c] = "user"
    /\ IF req[c].type = "settled" THEN WriteSilently(req[c].user)
                                  ELSE Write(c, req[c].user)
    /\ pc' = [pc EXCEPT ![c] =
            IF req[c].type = "partial" THEN "model" ELSE "publish"]
    /\ UNCHANGED <<busVars, cache, req, bounds, published>>

WriteModel(c) ==
    /\ pc[c] = "model"
    /\ Write(c, req[c].model)
    /\ pc' = [pc EXCEPT ![c] =
            IF req[c].type = "partial" THEN "publish" ELSE "user"]
    /\ UNCHANGED <<busVars, cache, req, bounds, published>>

\* A lost compare-and-set, or a database error before the publication, the
\* ledger's included: what c wrote stays.
Fail(c) ==
    /\ pc[c] \in Writing
    /\ failures < MaxFailures
    /\ failures' = failures + 1
    /\ pc' = [pc EXCEPT ![c] = "done"]
    /\ missed' = missed \cup DOMAIN told[c]
    /\ UNCHANGED <<busVars, versions, cache, req, told, untold, restarts,
                   published, overlapped>>

\* Accruals, expirations and adjustments, and the calls of other processes.
WriteElsewhere(a) ==
    /\ untold < MaxUntold
    /\ untold' = untold + 1
    /\ WriteSilently(a)
    /\ UNCHANGED <<busVars, cache, pc, req, failures, restarts, published>>

-----------------------------------------------------------------------------
(* The publication, and the handler of the cache inside it.                 *)

\* (Bug: an entry that exists is not updated.)
UpdatedIfNew(entries, balances) ==
    [a \in DOMAIN entries \cup DOMAIN balances |->
        IF a \in DOMAIN entries THEN entries[a]
        ELSE [version |-> balances[a], lastUpdated |-> now]]

\* The balances an event shows, over those of earlier ones.
Updated(entries, balances) ==
    [a \in DOMAIN entries \cup DOMAIN balances |->
        IF a \in DOMAIN balances
        THEN [version |-> balances[a], lastUpdated |-> now] ELSE entries[a]]

\* (Bug: the limit may be exceeded by one entry.)
EvictedLate(entries, kept) ==
    /\ kept \subseteq DOMAIN entries
    /\ Cardinality(kept) =
            IF Cardinality(DOMAIN entries) <= MaxSize + 1
            THEN Cardinality(DOMAIN entries) ELSE MaxSize

\* evictIfNeeded: what is updated least recently goes.  Entries of one
\* millisecond go in the order of their insertion, here in any order.
Evicted(entries, kept) ==
    /\ kept \subseteq DOMAIN entries
    /\ Cardinality(kept) =
            IF Cardinality(DOMAIN entries) <= MaxSize
            THEN Cardinality(DOMAIN entries) ELSE MaxSize
    /\ \A a \in kept, b \in DOMAIN entries \ kept :
           entries[b].lastUpdated <= entries[a].lastUpdated

\* The handler has no await: it is over before publish goes on.
Handle(balances) ==
    LET entries == Updated(cache, balances) IN
    \E kept \in SUBSET DOMAIN entries :
        /\ Evicted(entries, kept)
        /\ cache' = [a \in kept |-> entries[a]]

AfterPublish == IF AsyncProcessing THEN "done" ELSE "waiting"

\* Accounts whose newest balance c's event tells, with no event still due.
Latest(c) == {a \in DOMAIN told[c] : told[c][a] = versions[a] /\ Due(a) = {c}}

Publish(c) ==
    /\ pc[c] = "publish"
    /\ Accept(c, req[c].type, req[c].key)
    /\ IF Subscribed(Cache) THEN Handle(told[c]) ELSE UNCHANGED cache
    /\ pc' = [pc EXCEPT ![c] = AfterPublish]
    /\ published' = [published EXCEPT ![c] = now]
    /\ overlapped' = overlapped \ Latest(c)
    /\ missed' = missed \ Latest(c)
    /\ UNCHANGED <<versions, req, told, bounds>>

PublishDuplicate(c) ==
    /\ pc[c] = "publish"
    /\ Drop(c, req[c].key)
    /\ pc' = [pc EXCEPT ![c] = "done"]
    /\ missed' = missed \cup DOMAIN told[c]
    /\ UNCHANGED <<versions, cache, req, told, bounds, published, overlapped>>

\* With asyncProcessing off, publish awaits Promise.allSettled.
PublishReturns(c) ==
    /\ pc[c] = "waiting"
    /\ AllSettled(c)
    /\ pc' = [pc EXCEPT ![c] = "done"]
    /\ UNCHANGED <<busVars, versions, cache, req, told, bounds, history>>

-----------------------------------------------------------------------------
(* The rest of the cache and of the bus.                                    *)

Remove(a) ==
    /\ a \in DOMAIN cache
    /\ cache' = [b \in DOMAIN cache \ {a} |-> cache[b]]
    /\ UNCHANGED <<busVars, versions, callVars, bounds, history>>

Expired(a) == now - cache[a].lastUpdated > Ttl

\* getBalance changes the cache only for an entry that is too old.
GetBalance(a) == a \in DOMAIN cache /\ Expired(a) /\ Remove(a)

Invalidate(a) == Remove(a)

Clear ==
    /\ cache # <<>>
    /\ cache' = <<>>
    /\ UNCHANGED <<busVars, versions, callVars, bounds, history>>

\* The cache subscribes once, when it is made, and nothing unsubscribes it.
SubscribeSome(s) ==
    /\ s = Cache => ~Subscribed(Cache)
    /\ Subscribe(s)
    /\ UNCHANGED <<versions, cache, callVars, bounds, history>>

UnsubscribeSome(s) ==
    /\ s # Cache
    /\ Unsubscribe(s)
    /\ UNCHANGED <<versions, cache, callVars, bounds, history>>

\* The handler of the cache does not throw.
HandlerStep(c, x) ==
    /\ \/ HandlerResolves(c, x)
       \/ x[1] # Cache /\ HandlerRejects(c, x)
       \/ Retry(c, x)
    /\ UNCHANGED <<versions, cache, callVars, bounds, history>>

TimeStep ==
    /\ Tick \/ Cleanup
    /\ UNCHANGED <<versions, cache, callVars, bounds, history>>

Restart ==
    /\ restarts < MaxRestarts
    /\ restarts' = restarts + 1
    /\ RestartBus
    /\ cache' = <<>>
    /\ pc' = [c \in Calls |-> IF pc[c] = "idle" THEN "idle" ELSE "done"]
    /\ published' = [c \in Calls |-> Null]
    /\ overlapped' = {} /\ missed' = {}
    /\ UNCHANGED <<versions, req, told, untold, failures>>

-----------------------------------------------------------------------------

CallStep(c) == \/ WriteUser(c) \/ WriteModel(c) \/ Publish(c)
               \/ PublishDuplicate(c) \/ PublishReturns(c)

Next ==
    \/ \E c \in Calls, r \in Request : Call(c, r)
    \/ \E c \in Calls : CallStep(c) \/ Fail(c)
    \/ \E c \in Calls, x \in Subscriptions :
           x \in DOMAIN deliveries[c] /\ HandlerStep(c, x)
    \/ \E a \in Accounts : WriteElsewhere(a) \/ GetBalance(a) \/ Invalidate(a)
    \/ \E s \in Subscribers : SubscribeSome(s) \/ UnsubscribeSome(s)
    \/ Clear \/ TimeStep \/ Restart

Spec == Init /\ [][Next]_vars

-----------------------------------------------------------------------------
(* Properties.                                                              *)

\* The variables keep their types; no handler is attempted more often than
\* maxRetryAttempts says.
TypeOK ==
    /\ BusTypeOK
    /\ versions \in [Accounts -> Nat]
    /\ DOMAIN cache \subseteq Accounts
    /\ \A a \in DOMAIN cache : cache[a] \in Cached
    /\ pc \in [Calls -> {"idle", "waiting", "done"} \cup Writing]
    /\ req \in [Calls -> Request \cup {Null}]
    /\ DOMAIN told = Calls
    /\ \A c \in Calls : /\ DOMAIN told[c] \subseteq Accounts
                        /\ \A a \in DOMAIN told[c] : told[c][a] \in Nat
    /\ untold \in 0 .. MaxUntold
    /\ failures \in 0 .. MaxFailures
    /\ restarts \in 0 .. MaxRestarts
    /\ published \in [Calls -> Ticks \cup {Null}]
    /\ overlapped \subseteq Accounts
    /\ missed \subseteq Accounts

\* Deduplication (isDuplicate, markProcessed, the cleanup): of two events with
\* one idempotency key the handlers see both only if the second comes more than
\* deduplicationTtlMs after the first, however the cleanup and other events
\* fall between; a restart forgets.
DeliveredOncePerKey ==
    \A c, d \in Calls :
        /\ c # d /\ published[c] # Null /\ published[d] # Null
        /\ req[c].key = req[d].key
        /\ published[c] <= published[d]
        => published[d] - published[c] > DeduplicationTtl

\* evictIfNeeded: the cache never outgrows maxSize, also after the event of a
\* partial settlement, which writes two entries and evicts once.
CacheBounded == Cardinality(DOMAIN cache) <= MaxSize

\* What the cache shows of an account is its newest balance once its events
\* are out: unless the events of two calls were due together, or a balance was
\* written that no event told of (a settlement's user, another service, a call
\* that failed, an event dropped as a duplicate), and no later event with the
\* newest balance has repaired it.
FreshUnlessDisturbed ==
    \A a \in DOMAIN cache :
        a \notin overlapped \cup missed /\ Due(a) = {}
            => cache[a].version = versions[a]

\* The inductive invariant.
CallsInv == \A c \in Calls :
    /\ pc[c] = "idle" => told[c] = <<>> /\ published[c] = Null
    /\ pc[c] \in Writing => req[c] # Null /\ published[c] = Null
    /\ published[c] # Null => req[c] # Null
MarkedInv == \A c \in Calls : published[c] # Null =>
    /\ published[c] <= now
    /\ ~TooOld(published[c]) =>
           /\ req[c].key \in DOMAIN processedEvents
           /\ processedEvents[req[c].key] >= published[c]
SubscribedInv == DOMAIN cache # {} => Subscribed(Cache)
ToldInv == \A a \in Accounts :
    /\ a \notin overlapped => \A c, d \in Due(a) : c = d
    /\ a \notin overlapped \cup missed =>
           \A c \in Due(a) : told[c][a] = versions[a]
IInv == TypeOK /\ CallsInv /\ MarkedInv /\ SubscribedInv /\ ToldInv
        /\ DeliveredOncePerKey /\ CacheBounded /\ FreshUnlessDisturbed

\* docs/EVENT_ARCHITECTURE.md:6 says that "all balance changes are immediately
\* propagated to interested subscribers": once no event is due, an account in
\* the cache shows its newest balance.
CacheIsCurrent ==
    \A a \in DOMAIN cache :
        (\A c \in Calls : pc[c] \notin Writing) => cache[a].version = versions[a]
=============================================================================
