-------------------------- MODULE BalanceCacheProofs --------------------------
(***************************************************************************)
(* Proofs about BalanceCache.  The event bus and the calls are taken as    *)
(* what they do to the variables the properties speak of: lemmas about     *)
(* groups of actions come first, the invariant's parts after them.         *)
(***************************************************************************)
EXTENDS BalanceCache, FiniteSetTheorems, TLAPS

-----------------------------------------------------------------------------
(* Lemmas.                                                                  *)

\* The initial state satisfies the invariant (the constructors of the bus, the
\* cache and the wallet service).
LEMMA InitIInv == Init => IInv
<1> SUFFICES ASSUME Init PROVE IInv
  OBVIOUS
<1> USE SubscribersAssumption, DedupeKeysAssumption, BusAssumption,
        AccountsAssumption, CacheAssumption, NullAssumption
<1>1. DOMAIN cache = {} /\ DOMAIN processedEvents = {}
  BY DEF Init, InitBus
<1>2. \A c \in Calls : DOMAIN deliveries[c] = {} /\ DOMAIN told[c] = {}
  BY DEF Init, InitBus
<1>3. TypeOK
  BY <1>1, <1>2, SMTT(30) DEF Init, InitBus, TypeOK, BusTypeOK, Ticks, Writing,
                              Accounts
<1>4. CallsInv /\ MarkedInv /\ DeliveredOncePerKey
  BY DEF Init, InitBus, CallsInv, MarkedInv, DeliveredOncePerKey, Writing
<1>5. SubscribedInv /\ FreshUnlessDisturbed
  BY <1>1 DEF SubscribedInv, FreshUnlessDisturbed
<1>6. ToldInv
  BY <1>2 DEF ToldInv, Due
<1>7. CacheBounded
  BY <1>1, FS_EmptySet DEF CacheBounded
<1> QED
  BY <1>3, <1>4, <1>5, <1>6, <1>7 DEF IInv

\* A step that touches neither requests, publications, marks nor the clock
\* leaves the deduplication as it is.
LEMMA DedupeFrame ==
    ASSUME IInv, UNCHANGED <<processedEvents, now, published, req>>
    PROVE  MarkedInv' /\ DeliveredOncePerKey'
<1>1. MarkedInv'
  BY DEF IInv, MarkedInv, TooOld
<1>2. DeliveredOncePerKey'
  BY DEF IInv, DeliveredOncePerKey
<1> QED
  BY <1>1, <1>2

\* Entries that leave the cache break nothing (evictIfNeeded, invalidate, clear,
\* the TTL of getBalance).
LEMMA CacheShrinks ==
    ASSUME IInv, DOMAIN cache' \subseteq DOMAIN cache, UNCHANGED subscriptions
    PROVE  SubscribedInv' /\ CacheBounded'
<1>1. SubscribedInv'
  BY DEF IInv, SubscribedInv, Subscribed
<1>2. IsFiniteSet(DOMAIN cache)
  BY AccountsAssumption, FS_Subset DEF IInv, TypeOK, Accounts
<1>3. Cardinality(DOMAIN cache') <= Cardinality(DOMAIN cache)
  BY <1>2, FS_Subset
<1>4. Cardinality(DOMAIN cache) \in Nat /\ Cardinality(DOMAIN cache') \in Nat
  BY <1>2, FS_Subset, FS_CardinalityType
<1>5. CacheBounded'
  BY <1>3, <1>4, CacheAssumption DEF IInv, CacheBounded
<1> QED
  BY <1>1, <1>5

\* A step in which no call writes or publishes leaves what events are due.
LEMMA CallFrame ==
    ASSUME IInv, UNCHANGED <<versions, callVars, overlapped, missed, published>>,
           DOMAIN cache' \subseteq DOMAIN cache,
           \A a \in DOMAIN cache' : cache'[a] = cache[a]
    PROVE  CallsInv' /\ ToldInv' /\ FreshUnlessDisturbed'
<1>1. CallsInv'
  BY DEF IInv, CallsInv, callVars, Writing
<1>2. \A a : Due(a)' = Due(a)
  BY DEF Due, callVars, Writing
<1>3. ToldInv'
  BY <1>2 DEF IInv, ToldInv, callVars
<1>4. FreshUnlessDisturbed'
  BY <1>2 DEF IInv, FreshUnlessDisturbed
<1> QED
  BY <1>1, <1>3, <1>4

\* A write whose event is now due: the first of its account is the newest
\* balance, a second one makes the account overlapped (WalletService).
LEMMA WriteTells ==
    ASSUME IInv, NEW c \in Calls, NEW a \in Accounts, pc[c] \in Writing,
           NEW x \in Writing, pc' = [pc EXCEPT ![c] = x], Write(c, a),
           UNCHANGED <<cache, published, req>>
    PROVE  CallsInv' /\ ToldInv' /\ FreshUnlessDisturbed'
<1> USE DEF IInv, TypeOK
<1>1. /\ DOMAIN told' = Calls
      /\ \A d \in Calls : d # c => told'[d] = told[d] /\ pc'[d] = pc[d]
      /\ DOMAIN told'[c] = DOMAIN told[c] \cup {a}
      /\ told'[c][a] = versions[a] + 1
      /\ \A b \in DOMAIN told[c] : b # a => told'[c][b] = told[c][b]
      /\ pc'[c] = x
  BY DEF Write
<1>2. /\ versions'[a] = versions[a] + 1
      /\ \A b \in Accounts : b # a => versions'[b] = versions[b]
      /\ missed' = missed
  BY DEF Write
<1>3. CallsInv'
  BY <1>1 DEF CallsInv, Writing
<1>4. \A b \in Accounts : b # a => Due(b)' = Due(b)
  BY <1>1 DEF Due
<1>5. Due(a)' = Due(a) \cup {c}
  BY <1>1 DEF Due
<1>6. a \notin overlapped' => Due(a) = {} /\ a \notin overlapped
  BY DEF Write
<1>7. \A b \in Accounts : b # a => (b \in overlapped' <=> b \in overlapped)
  BY DEF Write
<1>8. ToldInv'
  <2> SUFFICES ASSUME NEW b \in Accounts
               PROVE  /\ b \notin overlapped' => \A d, e \in Due(b)' : d = e
                      /\ b \notin overlapped' \cup missed' =>
                             \A d \in Due(b)' : told'[d][b] = versions'[b]
    BY DEF ToldInv
  <2>1. CASE b = a
    BY <2>1, <1>1, <1>2, <1>5, <1>6
  <2>2. CASE b # a
    <3>1. \A d \in Due(b) : told'[d][b] = told[d][b]
      BY <2>2, <1>1 DEF Due
    <3> QED
      BY <3>1, <2>2, <1>2, <1>4, <1>7 DEF ToldInv
  <2> QED
    BY <2>1, <2>2
<1>9. FreshUnlessDisturbed'
  <2> SUFFICES ASSUME NEW b \in DOMAIN cache, b \notin overlapped' \cup missed',
                      Due(b)' = {}
               PROVE  cache[b].version = versions'[b]
    BY DEF FreshUnlessDisturbed
  <2>1. b # a
    BY <1>5
  <2> QED
    BY <2>1, <1>2, <1>4, <1>7 DEF FreshUnlessDisturbed
<1> QED
  BY <1>3, <1>8, <1>9

\* A write no event will tell of marks its account (settleEscrow's user, other
\* services).
LEMMA WriteSilentlyMarks ==
    ASSUME IInv, NEW a \in Accounts, WriteSilently(a),
           pc' \in [Calls -> {"idle", "waiting", "done"} \cup Writing],
           \A c \in Calls : /\ pc'[c] \in Writing <=> pc[c] \in Writing
                            /\ pc'[c] = "idle" <=> pc[c] = "idle",
           UNCHANGED <<cache, published, req>>
    PROVE  CallsInv' /\ ToldInv' /\ FreshUnlessDisturbed'
<1> USE DEF IInv, TypeOK
<1>1. /\ missed' = missed \cup {a} /\ told' = told /\ overlapped' = overlapped
      /\ \A b \in Accounts : b # a => versions'[b] = versions[b]
  BY DEF WriteSilently
<1>2. CallsInv'
  BY <1>1 DEF CallsInv
<1>3. \A b : Due(b)' = Due(b)
  BY <1>1 DEF Due, Writing
<1>4. ToldInv'
  BY <1>1, <1>3 DEF ToldInv
<1>5. FreshUnlessDisturbed'
  BY <1>1, <1>3 DEF FreshUnlessDisturbed
<1> QED
  BY <1>2, <1>4, <1>5

\* A call that ends without its event marks the accounts it wrote (a failure, an
\* event dropped as a duplicate).
LEMMA EndMarks ==
    ASSUME IInv, NEW c \in Calls, pc[c] \in Writing,
           pc' = [pc EXCEPT ![c] = "done"], missed' = missed \cup DOMAIN told[c],
           UNCHANGED <<versions, cache, req, told, published, overlapped>>
    PROVE  CallsInv' /\ ToldInv' /\ FreshUnlessDisturbed'
<1> USE DEF IInv, TypeOK
<1>1. CallsInv'
  BY DEF CallsInv, Writing
<1>2. \A b : Due(b)' = Due(b) \ {c}
  BY DEF Due, Writing
<1>3. ToldInv'
  BY <1>2 DEF ToldInv
<1>4. \A b : c \in Due(b) <=> b \in DOMAIN told[c]
  BY DEF Due
<1>5. FreshUnlessDisturbed'
  BY <1>2, <1>4 DEF FreshUnlessDisturbed
<1> QED
  BY <1>1, <1>3, <1>5

\* What a publication leaves in the cache: entries its event has updated, and
\* others as they were, no more than maxSize (the cache's handler).
LEMMA HandledCache ==
    ASSUME IInv, NEW c \in Calls, Handle(told[c])
    PROVE  /\ DOMAIN cache' \subseteq DOMAIN cache \cup DOMAIN told[c]
           /\ \A a \in DOMAIN cache' :
                 cache'[a] = IF a \in DOMAIN told[c]
                             THEN [version |-> told[c][a], lastUpdated |-> now]
                             ELSE cache[a]
           /\ CacheBounded'
<1> DEFINE entries == Updated(cache, told[c])
<1>1. PICK kept \in SUBSET DOMAIN entries :
          Evicted(entries, kept) /\ cache' = [a \in kept |-> entries[a]]
  BY DEF Handle
<1>2. DOMAIN cache' = kept /\ \A a \in kept : cache'[a] = entries[a]
  BY <1>1
<1>3. /\ DOMAIN entries = DOMAIN cache \cup DOMAIN told[c]
      /\ \A a \in DOMAIN entries :
            entries[a] = IF a \in DOMAIN told[c]
                         THEN [version |-> told[c][a], lastUpdated |-> now]
                         ELSE cache[a]
  BY DEF Updated
<1>4. Cardinality(kept) <= MaxSize
  <2>1. IsFiniteSet(DOMAIN entries)
    BY <1>3, AccountsAssumption, FS_Subset DEF IInv, TypeOK, Accounts
  <2>2. Cardinality(DOMAIN entries) \in Nat
    BY <2>1, FS_CardinalityType
  <2> HIDE DEF entries
  <2> QED
    BY <1>1, <2>2, CacheAssumption DEF Evicted
<1> HIDE DEF entries
<1> QED
  BY <1>1, <1>2, <1>3, <1>4 DEF CacheBounded

\* A publication brings the newest balance unless the account was disturbed
\* (publish with the handler of the cache in it).
LEMMA PublishTells ==
    ASSUME IInv, NEW c \in Calls, Publish(c)
    PROVE  CallsInv' /\ ToldInv' /\ FreshUnlessDisturbed'
           /\ SubscribedInv' /\ CacheBounded'
<1> USE DEF IInv, TypeOK
<1>1. /\ pc[c] = "publish" /\ pc' = [pc EXCEPT ![c] = AfterPublish]
      /\ published' = [published EXCEPT ![c] = now]
      /\ overlapped' = overlapped \ Latest(c) /\ missed' = missed \ Latest(c)
      /\ UNCHANGED <<versions, req, told, subscriptions, now>>
      /\ IF Subscribed(Cache) THEN Handle(told[c]) ELSE UNCHANGED cache
  BY DEF Publish, Accept
<1>2. c \in DOMAIN pc /\ AfterPublish \in {"done", "waiting"}
  BY DEF AfterPublish
<1>3. CallsInv'
  BY <1>1, <1>2 DEF CallsInv, Writing
<1>4. \A b : Due(b)' = Due(b) \ {c}
  BY <1>1, <1>2 DEF Due, Writing
<1>5. \A b : c \in Due(b) <=> b \in DOMAIN told[c]
  BY <1>1 DEF Due, Writing
<1>6. \A b : b \in Latest(c) => Due(b) = {c} /\ told[c][b] = versions[b]
  BY DEF Latest
<1>7. ToldInv'
  <2> SUFFICES ASSUME NEW b \in Accounts
               PROVE  /\ b \notin overlapped' => \A d, e \in Due(b)' : d = e
                      /\ b \notin overlapped' \cup missed' =>
                             \A d \in Due(b)' : told[d][b] = versions[b]
    BY <1>1 DEF ToldInv
  <2>1. CASE b \in Latest(c)
    BY <2>1, <1>4, <1>6
  <2>2. CASE b \notin Latest(c)
    BY <2>2, <1>1, <1>4 DEF ToldInv
  <2> QED
    BY <2>1, <2>2
\* An account the event tells of, disturbed before or not, is now at its newest.
<1>8. ASSUME NEW b \in DOMAIN told[c], b \notin overlapped' \cup missed'
      PROVE  told[c][b] = versions[b]
  <2>1. CASE b \in Latest(c)
    BY <2>1, <1>6
  <2>2. CASE b \notin Latest(c)
    BY <2>2, <1>1, <1>5, <1>8 DEF ToldInv
  <2> QED
    BY <2>1, <2>2
<1>9. ASSUME NEW b \in DOMAIN cache, b \notin DOMAIN told[c],
             b \notin overlapped' \cup missed', Due(b)' = {}
      PROVE  cache[b].version = versions[b]
  <2>1. b \notin Latest(c)
    BY <1>9 DEF Latest
  <2> QED
    BY <2>1, <1>1, <1>4, <1>5, <1>9 DEF FreshUnlessDisturbed
<1>10. CASE Subscribed(Cache)
  <2>1. Handle(told[c])
    BY <1>1, <1>10
  <2>2. /\ DOMAIN cache' \subseteq DOMAIN cache \cup DOMAIN told[c]
        /\ \A a \in DOMAIN cache' :
              cache'[a] = IF a \in DOMAIN told[c]
                          THEN [version |-> told[c][a], lastUpdated |-> now]
                          ELSE cache[a]
        /\ CacheBounded'
    BY <2>1, HandledCache
  <2>3. SubscribedInv'
    BY <1>1, <1>10 DEF SubscribedInv, Subscribed
  <2>4. FreshUnlessDisturbed'
    <3> SUFFICES ASSUME NEW a \in DOMAIN cache',
                        a \notin overlapped' \cup missed', Due(a)' = {}
                 PROVE  cache'[a].version = versions[a]
      BY <1>1 DEF FreshUnlessDisturbed
    <3>1. CASE a \in DOMAIN told[c]
      BY <3>1, <2>2, <1>8
    <3>2. CASE a \notin DOMAIN told[c]
      BY <3>2, <2>2, <1>9
    <3> QED
      BY <3>1, <3>2
  <2> QED
    BY <1>3, <1>7, <2>2, <2>3, <2>4
<1>11. CASE ~Subscribed(Cache)
  <2>1. DOMAIN cache = {} /\ cache' = cache
    BY <1>1, <1>11 DEF SubscribedInv
  <2>2. FreshUnlessDisturbed' /\ SubscribedInv'
    BY <2>1 DEF FreshUnlessDisturbed, SubscribedInv
  <2>3. CacheBounded'
    BY <2>1 DEF CacheBounded
  <2> QED
    BY <1>3, <1>7, <2>2, <2>3
<1> QED
  BY <1>10, <1>11

\* An accepted event keeps the deduplication sound: an event with the same key
\* was marked longer ago than the window, or its key would still be there
\* (isDuplicate, markProcessed).
LEMMA PublishMarks ==
    ASSUME IInv, NEW c \in Calls, Publish(c)
    PROVE  MarkedInv' /\ DeliveredOncePerKey'
<1> USE DEF IInv, TypeOK, BusTypeOK
<1>1. /\ published' = [published EXCEPT ![c] = now]
      /\ UNCHANGED <<req, now>> /\ req[c] # Null
      /\ req[c].key \notin DOMAIN processedEvents
      /\ processedEvents' =
            [d \in DOMAIN processedEvents \cup {c, req[c].key} |->
                IF d \in {c, req[c].key} THEN now ELSE processedEvents[d]]
  BY DEF Publish, Accept, IsDuplicate, MarkProcessed, DedupeKeys, CallsInv, Writing
<1>2. now \in Nat /\ now # Null /\ DeduplicationTtl \in Nat
  BY NullAssumption, BusAssumption DEF Ticks
<1>3. /\ published'[c] = now
      /\ \A d \in Calls : d # c => published'[d] = published[d]
  BY <1>1
<1>4. \A d \in Calls : published[d] # Null => published[d] \in Nat
  BY DEF Ticks
<1>5. \A d \in Calls : published[d] # Null /\ req[d].key = req[c].key
                           => now - published[d] > DeduplicationTtl
  BY <1>1 DEF MarkedInv, TooOld
<1>6. \A d \in Calls : req[d] # Null => req[d].key \in Keys
  BY DEF Request
<1>7. MarkedInv'
  <2> SUFFICES ASSUME NEW d \in Calls, published'[d] # Null
               PROVE  /\ published'[d] <= now
                      /\ ~(now - published'[d] > DeduplicationTtl) =>
                            /\ req[d].key \in DOMAIN processedEvents'
                            /\ processedEvents'[req[d].key] >= published'[d]
    BY <1>1 DEF MarkedInv, TooOld
  <2>1. CASE d = c
    BY <2>1, <1>1, <1>2, <1>3
  <2>2. CASE d # c
    <3>1. /\ published'[d] = published[d] /\ published[d] <= now
          /\ ~(now - published[d] > DeduplicationTtl) =>
                /\ req[d].key \in DOMAIN processedEvents
                /\ processedEvents[req[d].key] >= published[d]
      BY <2>2, <1>3 DEF MarkedInv, TooOld
    <3>2. \A k \in DOMAIN processedEvents :
             /\ k \in DOMAIN processedEvents'
             /\ processedEvents'[k] = now \/ processedEvents'[k] = processedEvents[k]
      BY <1>1
    <3> QED
      BY <3>1, <3>2
  <2> QED
    BY <2>1, <2>2
<1>8. DeliveredOncePerKey'
  <2> SUFFICES ASSUME NEW d \in Calls, NEW e \in Calls, d # e,
                      published'[d] # Null, published'[e] # Null,
                      req[d].key = req[e].key, published'[d] <= published'[e]
               PROVE  published'[e] - published'[d] > DeduplicationTtl
    BY <1>1 DEF DeliveredOncePerKey
  <2>1. CASE e = c
    BY <2>1, <1>3, <1>5
  <2>2. CASE d = c
    <3>1. published'[e] = published[e] /\ published[e] <= now
      BY <2>2, <1>3 DEF MarkedInv
    <3>2. now - published[e] > DeduplicationTtl
      BY <3>1, <2>2, <1>5
    <3> QED
      BY <3>1, <3>2, <2>2, <1>2, <1>3, <1>4
  <2>3. CASE d # c /\ e # c
    BY <2>3, <1>3 DEF DeliveredOncePerKey
  <2> QED
    BY <2>1, <2>2, <2>3
<1> QED
  BY <1>7, <1>8

-----------------------------------------------------------------------------
(* Steps.                                                                   *)

\* Every step keeps the variables' types (all of event-bus.ts and
\* balance-snapshot-cache.ts).
LEMMA TypeStep == IInv /\ [Next]_vars => TypeOK'
<1> SUFFICES ASSUME IInv, [Next]_vars PROVE TypeOK'
  OBVIOUS
<1> USE SubscribersAssumption, DedupeKeysAssumption, BusAssumption,
        AccountsAssumption, CacheAssumption, NullAssumption
<1> USE DEF IInv, TypeOK, BusTypeOK
<1>1. ASSUME NEW c \in Calls, NEW r \in Request, Call(c, r) PROVE TypeOK'
  BY <1>1, SMTT(30) DEF Call, Writing, busVars, bounds, history
<1>2. ASSUME NEW c \in Calls, WriteUser(c) PROVE TypeOK'
  <2>1. req[c] \in Request
    BY <1>2 DEF WriteUser, CallsInv, Writing
  <2>2. req[c].user \in Accounts
    BY <2>1 DEF Request, Accounts
  <2>3. /\ versions' \in [Accounts -> Nat] /\ overlapped' \subseteq Accounts
        /\ missed' \subseteq Accounts /\ DOMAIN told' = Calls
        /\ \A d \in Calls : /\ DOMAIN told'[d] \subseteq Accounts
                            /\ \A a \in DOMAIN told'[d] : told'[d][a] \in Nat
    BY <1>2, <2>2, SMTT(30) DEF WriteUser, Write, WriteSilently
  <2> QED
    BY <1>2, <2>3, SMTT(30) DEF WriteUser, Writing, busVars, bounds
<1>3. ASSUME NEW c \in Calls, WriteModel(c) PROVE TypeOK'
  <2>1. req[c] \in Request
    BY <1>3 DEF WriteModel, CallsInv, Writing
  <2>2. req[c].model \in Accounts
    BY <2>1 DEF Request, Accounts
  <2>3. /\ versions' \in [Accounts -> Nat] /\ overlapped' \subseteq Accounts
        /\ missed' \subseteq Accounts /\ DOMAIN told' = Calls
        /\ \A d \in Calls : /\ DOMAIN told'[d] \subseteq Accounts
                            /\ \A a \in DOMAIN told'[d] : told'[d][a] \in Nat
    BY <1>3, <2>2, SMTT(30) DEF WriteModel, Write
  <2> QED
    BY <1>3, <2>3, SMTT(30) DEF WriteModel, Writing, busVars, bounds
<1>4. ASSUME NEW c \in Calls, Publish(c) PROVE TypeOK'
  <2>1. req[c] \in Request
    BY <1>4 DEF Publish, CallsInv, Writing
  <2>2. now \in 0 .. LastTick /\ now \in Nat
    BY DEF Ticks
  <2>3. /\ DOMAIN processedEvents' \subseteq Calls \cup Keys
        /\ \A d \in DOMAIN processedEvents' : processedEvents'[d] \in 0 .. now
    BY <1>4, <2>1, <2>2 DEF Publish, Accept, MarkProcessed, DedupeKeys, Request
  <2>4. /\ DOMAIN deliveries' = Calls
        /\ \A d \in Calls :
              /\ DOMAIN deliveries'[d] \subseteq Subscriptions
              /\ \A x \in DOMAIN deliveries'[d] : deliveries'[d][x] \in Delivery
    BY <1>4 DEF Publish, Accept, Delivery, Over
  <2>5. DOMAIN cache' \subseteq Accounts /\ \A a \in DOMAIN cache' : cache'[a] \in Cached
    <3>1. CASE UNCHANGED cache
      BY <3>1
    <3>2. CASE Handle(told[c])
      BY <3>2, HandledCache DEF Cached
    <3> QED
      BY <3>1, <3>2, <1>4 DEF Publish
  <2>6. pc' \in [Calls -> {"idle", "waiting", "done"} \cup Writing]
    BY <1>4 DEF Publish, AfterPublish
  <2>7. published' \in [Calls -> Ticks \cup {Null}]
    BY <1>4 DEF Publish
  <2> QED
    BY <1>4, <2>3, <2>4, <2>5, <2>6, <2>7 DEF Publish, Accept, bounds
<1>5. ASSUME NEW c \in Calls, PublishDuplicate(c) PROVE TypeOK'
  BY <1>5, SMTT(30) DEF PublishDuplicate, Drop, busVars, bounds
<1>6. ASSUME NEW c \in Calls, PublishReturns(c) PROVE TypeOK'
  BY <1>6, SMTT(30) DEF PublishReturns, busVars, bounds, history
<1>7. ASSUME NEW c \in Calls, Fail(c) PROVE TypeOK'
  BY <1>7, SMTT(30) DEF Fail, busVars
<1>8. ASSUME NEW c \in Calls, NEW x \in DOMAIN deliveries[c], HandlerStep(c, x)
      PROVE  TypeOK'
  <2>1. deliveries[c][x] \in Delivery
    OBVIOUS
  <2>2. \A d \in Delivery : deliveries' = [deliveries EXCEPT ![c][x] = d]
            => /\ DOMAIN deliveries' = Calls
               /\ \A e \in Calls :
                     /\ DOMAIN deliveries'[e] \subseteq Subscriptions
                     /\ \A y \in DOMAIN deliveries'[e] : deliveries'[e][y] \in Delivery
    OBVIOUS
  <2>3. \E d \in Delivery : deliveries' = [deliveries EXCEPT ![c][x] = d]
    BY <1>8, <2>1 DEF HandlerStep, HandlerResolves, HandlerRejects, Retry, Becomes,
                      Delivery, AttemptsLeft, Over
  <2>4. UNCHANGED <<subscriptions, processedEvents, now>>
    BY <1>8 DEF HandlerStep, HandlerResolves, HandlerRejects, Retry, Becomes
  <2> QED
    BY <1>8, <2>2, <2>3, <2>4 DEF HandlerStep, callVars, bounds, history
<1>9. ASSUME NEW a \in Accounts, WriteElsewhere(a) PROVE TypeOK'
  BY <1>9, SMTT(30) DEF WriteElsewhere, WriteSilently, busVars
<1>10. ASSUME NEW a \in Accounts, Remove(a) PROVE TypeOK'
  BY <1>10, SMTT(30) DEF Remove, busVars, callVars, bounds, history
<1>11. ASSUME NEW s \in Subscribers, SubscribeSome(s) \/ UnsubscribeSome(s)
       PROVE  TypeOK'
  <2>1. subscriptions' \subseteq Subscriptions
    BY <1>11 DEF SubscribeSome, UnsubscribeSome, Subscribe, Unsubscribe, Subscriptions
  <2> QED
    BY <1>11, <2>1 DEF SubscribeSome, UnsubscribeSome, Subscribe, Unsubscribe,
                       callVars, bounds, history
<1>12. CASE Clear
  BY <1>12, SMTT(30) DEF Clear, busVars, callVars, bounds, history
<1>13. CASE TimeStep
  <2>1. now \in Nat /\ now' \in Ticks /\ now <= now'
    BY <1>13 DEF TimeStep, Tick, Cleanup, Ticks
  <2>2. /\ DOMAIN processedEvents' \subseteq Calls \cup Keys
        /\ \A d \in DOMAIN processedEvents' : processedEvents'[d] \in 0 .. now'
    BY <1>13, <2>1 DEF TimeStep, Tick, Cleanup, Ticks
  <2> QED
    BY <1>13, <2>1, <2>2 DEF TimeStep, Tick, Cleanup, callVars, bounds, history
<1>14. CASE Restart
  <2>1. DOMAIN processedEvents' = {} /\ DOMAIN cache' = {}
    BY <1>14 DEF Restart, RestartBus
  <2>2. \A c \in Calls : DOMAIN deliveries'[c] = {}
    BY <1>14 DEF Restart, RestartBus
  <2> QED
    BY <1>14, <2>1, <2>2, SMTT(30) DEF Restart, RestartBus
<1>15. CASE UNCHANGED vars
  BY <1>15 DEF vars, busVars, callVars, bounds, history
<1> QED
  BY <1>1, <1>2, <1>3, <1>4, <1>5, <1>6, <1>7, <1>8, <1>9, <1>10, <1>11, <1>12,
     <1>13, <1>14, <1>15 DEF Next, CallStep, GetBalance, Invalidate

\* The deduplication stays sound in every step: time and the cleanup only let
\* marks go that are out of the window.
LEMMA DedupeStep == IInv /\ [Next]_vars => MarkedInv' /\ DeliveredOncePerKey'
<1> SUFFICES ASSUME IInv, [Next]_vars PROVE MarkedInv' /\ DeliveredOncePerKey'
  OBVIOUS
<1> USE DEF IInv, TypeOK, BusTypeOK
<1>1. ASSUME NEW c \in Calls, NEW r \in Request, Call(c, r)
      PROVE  MarkedInv' /\ DeliveredOncePerKey'
  <2>1. /\ published' = published /\ published[c] = Null
        /\ \A d \in Calls : d # c => req'[d] = req[d]
        /\ UNCHANGED <<processedEvents, now>>
    BY <1>1 DEF Call, CallsInv, busVars, history
  <2>2. MarkedInv'
    BY <2>1 DEF MarkedInv, TooOld
  <2>3. DeliveredOncePerKey'
    BY <2>1 DEF DeliveredOncePerKey
  <2> QED
    BY <2>2, <2>3
<1>2. ASSUME NEW c \in Calls, Publish(c) PROVE MarkedInv' /\ DeliveredOncePerKey'
  BY <1>2, PublishMarks
<1>3. CASE Restart
  BY <1>3 DEF Restart, MarkedInv, DeliveredOncePerKey
<1>4. CASE TimeStep
  <2>1. UNCHANGED <<published, req>>
    BY <1>4 DEF TimeStep, callVars, history
  <2>2. DeliveredOncePerKey'
    BY <2>1 DEF DeliveredOncePerKey
  <2>3. \A c \in Calls : published[c] # Null => published[c] \in Nat
    BY DEF Ticks
  <2>4. now \in Nat /\ DeduplicationTtl \in Nat
    BY BusAssumption DEF Ticks
  <2>5. CASE Tick
    <3>1. now' = now + 1 /\ processedEvents' = processedEvents
      BY <2>5 DEF Tick
    <3>2. ASSUME NEW c \in Calls, published[c] # Null
          PROVE  /\ published[c] <= now'
                 /\ ~(now' - published[c] > DeduplicationTtl) =>
                        /\ req[c].key \in DOMAIN processedEvents
                        /\ processedEvents[req[c].key] >= published[c]
      <4>1. published[c] <= now /\ published[c] \in Nat
        BY <3>2, <2>3 DEF MarkedInv
      <4>2. ~(now' - published[c] > DeduplicationTtl) => ~TooOld(published[c])
        BY <4>1, <3>1, <2>4 DEF TooOld
      <4> QED
        BY <3>2, <4>1, <4>2, <3>1, <2>4 DEF MarkedInv
    <3>3. MarkedInv'
      BY <3>1, <3>2, <2>1 DEF MarkedInv, TooOld
    <3> QED
      BY <2>2, <3>3
  <2>6. CASE Cleanup
    <3>1. /\ now' = now
          /\ \A d \in DOMAIN processedEvents : ~TooOld(processedEvents[d])
                => d \in DOMAIN processedEvents' /\ processedEvents'[d] = processedEvents[d]
      BY <2>6 DEF Cleanup
    <3>2. ASSUME NEW c \in Calls, published[c] # Null, ~TooOld(published[c])
          PROVE  /\ req[c].key \in DOMAIN processedEvents'
                 /\ processedEvents'[req[c].key] >= published[c]
      <4>1. /\ req[c].key \in DOMAIN processedEvents
            /\ processedEvents[req[c].key] >= published[c]
            /\ processedEvents[req[c].key] \in Nat /\ published[c] \in Nat
        BY <3>2, <2>3, <2>4 DEF MarkedInv
      <4>2. ~TooOld(processedEvents[req[c].key])
        BY <4>1, <3>2, <2>4 DEF TooOld
      <4> QED
        BY <4>1, <4>2, <3>1
    <3>3. MarkedInv'
      BY <3>1, <3>2, <2>1 DEF MarkedInv, TooOld
    <3> QED
      BY <2>2, <3>3
  <2> QED
    BY <1>4, <2>5, <2>6 DEF TimeStep
<1>5. CASE UNCHANGED <<processedEvents, now, published, req>>
  BY <1>5, DedupeFrame
<1>6. ASSUME NEW c \in Calls,
             WriteUser(c) \/ WriteModel(c) \/ PublishDuplicate(c)
             \/ PublishReturns(c) \/ Fail(c)
      PROVE  UNCHANGED <<processedEvents, now, published, req>>
  BY <1>6 DEF WriteUser, WriteModel, PublishDuplicate, PublishReturns, Fail, Drop,
              busVars, history
<1>7. ASSUME NEW c \in Calls, NEW x \in DOMAIN deliveries[c], HandlerStep(c, x)
      PROVE  UNCHANGED <<processedEvents, now, published, req>>
  BY <1>7 DEF HandlerStep, HandlerResolves, HandlerRejects, Retry, Becomes,
              callVars, history
<1>8. ASSUME NEW a \in Accounts, WriteElsewhere(a) \/ Remove(a)
      PROVE  UNCHANGED <<processedEvents, now, published, req>>
  BY <1>8 DEF WriteElsewhere, Remove, busVars, callVars, history
<1>9. ASSUME NEW s \in Subscribers, SubscribeSome(s) \/ UnsubscribeSome(s)
      PROVE  UNCHANGED <<processedEvents, now, published, req>>
  BY <1>9 DEF SubscribeSome, UnsubscribeSome, Subscribe, Unsubscribe, callVars, history
<1>10. CASE Clear
  BY <1>10, <1>5 DEF Clear, busVars, callVars, history
<1>11. CASE UNCHANGED vars
  BY <1>11, <1>5 DEF vars, busVars, callVars, history
<1> QED
  BY <1>1, <1>2, <1>3, <1>4, <1>5, <1>6, <1>7, <1>8, <1>9, <1>10, <1>11
     DEF Next, CallStep, GetBalance, Invalidate

\* What the cache shows stays explained in every step.
LEMMA CacheStep ==
    IInv /\ [Next]_vars
        => CallsInv' /\ ToldInv' /\ FreshUnlessDisturbed' /\ SubscribedInv' /\ CacheBounded'
<1> DEFINE Goal == CallsInv' /\ ToldInv' /\ FreshUnlessDisturbed'
                   /\ SubscribedInv' /\ CacheBounded'
<1> SUFFICES ASSUME IInv, [Next]_vars PROVE Goal
  OBVIOUS
<1> USE DEF IInv, TypeOK
<1>1. ASSUME UNCHANGED <<cache, subscriptions>>
      PROVE  SubscribedInv' /\ CacheBounded'
  BY <1>1, CacheShrinks
<1>2. ASSUME UNCHANGED <<versions, callVars, overlapped, missed, published, cache,
                         subscriptions>>
      PROVE  Goal
  BY <1>1, <1>2, CallFrame
<1>3. ASSUME NEW c \in Calls, NEW r \in Request, Call(c, r) PROVE Goal
  <2>1. /\ DOMAIN told[c] = {} /\ UNCHANGED <<versions, told, cache, history>>
        /\ UNCHANGED <<subscriptions>> /\ published[c] = Null /\ pc[c] = "idle"
        /\ \A d \in Calls : d # c => pc'[d] = pc[d] /\ req'[d] = req[d]
        /\ pc'[c] \in Writing /\ req'[c] = r
    BY <1>3 DEF Call, CallsInv, busVars, Writing
  <2>2. r # Null
    BY NullAssumption
  <2>3. CallsInv'
    BY <2>1, <2>2 DEF CallsInv, history, Writing
  <2>4. \A a : Due(a)' = Due(a)
    BY <2>1 DEF Due, Writing
  <2>5. ToldInv' /\ FreshUnlessDisturbed'
    BY <2>1, <2>4 DEF ToldInv, FreshUnlessDisturbed, history
  <2> QED
    BY <2>1, <2>3, <2>5, <1>1
<1>4. ASSUME NEW c \in Calls, WriteUser(c) PROVE Goal
  <2>1. /\ req[c] \in Request /\ pc[c] \in Writing
        /\ UNCHANGED <<cache, req, published, subscriptions>>
    BY <1>4 DEF WriteUser, CallsInv, Writing, busVars
  <2>2. req[c].user \in Accounts
    BY <2>1 DEF Request, Accounts
  <2>3. PICK x \in Writing : pc' = [pc EXCEPT ![c] = x]
    BY <1>4 DEF WriteUser, Writing
  <2>4. CASE req[c].type = "settled"
    <3>1. WriteSilently(req[c].user)
      BY <1>4, <2>4 DEF WriteUser
    <3>2. /\ pc' \in [Calls -> {"idle", "waiting", "done"} \cup Writing]
          /\ \A d \in Calls : /\ pc'[d] \in Writing <=> pc[d] \in Writing
                              /\ pc'[d] = "idle" <=> pc[d] = "idle"
      BY <2>1, <2>3 DEF Writing
    <3> QED
      BY <3>1, <3>2, <2>1, <2>2, <1>1, WriteSilentlyMarks
  <2>5. CASE req[c].type # "settled"
    <3>1. Write(c, req[c].user)
      BY <1>4, <2>5 DEF WriteUser
    <3> QED
      BY <3>1, <2>1, <2>2, <2>3, <1>1, WriteTells
  <2> QED
    BY <2>4, <2>5
<1>5. ASSUME NEW c \in Calls, WriteModel(c) PROVE Goal
  <2>1. /\ req[c] \in Request /\ pc[c] \in Writing
        /\ UNCHANGED <<cache, req, published, subscriptions>>
    BY <1>5 DEF WriteModel, CallsInv, Writing, busVars
  <2>2. req[c].model \in Accounts
    BY <2>1 DEF Request, Accounts
  <2>3. PICK x \in Writing : pc' = [pc EXCEPT ![c] = x]
    BY <1>5 DEF WriteModel, Writing
  <2>4. Write(c, req[c].model)
    BY <1>5 DEF WriteModel
  <2> QED
    BY <2>1, <2>2, <2>3, <2>4, <1>1, WriteTells
<1>6. ASSUME NEW c \in Calls, Fail(c) \/ PublishDuplicate(c) PROVE Goal
  <2>1. /\ pc[c] \in Writing /\ pc' = [pc EXCEPT ![c] = "done"]
        /\ missed' = missed \cup DOMAIN told[c]
        /\ UNCHANGED <<versions, cache, req, told, published, overlapped,
                       subscriptions>>
    BY <1>6 DEF Fail, PublishDuplicate, Drop, Writing, busVars
  <2> QED
    BY <2>1, <1>1, EndMarks
<1>7. ASSUME NEW c \in Calls, Publish(c) PROVE Goal
  BY <1>7, PublishTells
<1>8. ASSUME NEW c \in Calls, PublishReturns(c) PROVE Goal
  <2>1. /\ pc[c] = "waiting" /\ pc' = [pc EXCEPT ![c] = "done"]
        /\ UNCHANGED <<versions, cache, req, told, history, subscriptions>>
    BY <1>8 DEF PublishReturns, busVars
  <2>2. CallsInv'
    BY <2>1 DEF CallsInv, history, Writing
  <2>3. \A a : Due(a)' = Due(a)
    BY <2>1 DEF Due, Writing
  <2>4. ToldInv' /\ FreshUnlessDisturbed'
    BY <2>1, <2>3 DEF ToldInv, FreshUnlessDisturbed, history
  <2> QED
    BY <2>1, <2>2, <2>4, <1>1
<1>9. ASSUME NEW c \in Calls, NEW x \in DOMAIN deliveries[c], HandlerStep(c, x)
      PROVE  Goal
  BY <1>9, <1>2 DEF HandlerStep, HandlerResolves, HandlerRejects, Retry, Becomes,
                    history
<1>10. ASSUME NEW a \in Accounts, WriteElsewhere(a) PROVE Goal
  <2>1. /\ WriteSilently(a) /\ pc' = pc
        /\ UNCHANGED <<cache, published, req, subscriptions>>
    BY <1>10 DEF WriteElsewhere, busVars
  <2> QED
    BY <2>1, <1>1, WriteSilentlyMarks
<1>11. ASSUME NEW a \in Accounts, Remove(a) PROVE Goal
  <2>1. /\ DOMAIN cache' \subseteq DOMAIN cache
        /\ \A b \in DOMAIN cache' : cache'[b] = cache[b]
        /\ UNCHANGED <<versions, callVars, overlapped, missed, published,
                       subscriptions>>
    BY <1>11 DEF Remove, busVars, history
  <2> QED
    BY <2>1, CacheShrinks, CallFrame
<1>12. ASSUME NEW s \in Subscribers, SubscribeSome(s) \/ UnsubscribeSome(s)
       PROVE  Goal
  <2>1. /\ UNCHANGED <<versions, cache, callVars, history>>
        /\ \A n : <<Cache, n>> \in subscriptions => <<Cache, n>> \in subscriptions'
    BY <1>12 DEF SubscribeSome, UnsubscribeSome, Subscribe, Unsubscribe
  <2>2. SubscribedInv'
    BY <2>1 DEF SubscribedInv, Subscribed
  <2>3. CacheBounded'
    BY <2>1 DEF CacheBounded
  <2>4. CallsInv' /\ ToldInv' /\ FreshUnlessDisturbed'
    BY <2>1, CallFrame DEF history
  <2> QED
    BY <2>2, <2>3, <2>4
<1>13. CASE Clear
  <2>1. /\ DOMAIN cache' = {}
        /\ UNCHANGED <<versions, callVars, overlapped, missed, published,
                       subscriptions>>
    BY <1>13 DEF Clear, busVars, history
  <2> QED
    BY <2>1, CacheShrinks, CallFrame
<1>14. CASE TimeStep
  BY <1>14, <1>2 DEF TimeStep, Tick, Cleanup, history
<1>15. CASE Restart
  <2>1. /\ DOMAIN cache' = {} /\ told' = told /\ req' = req
        /\ \A c \in Calls : /\ published'[c] = Null
                            /\ pc'[c] = IF pc[c] = "idle" THEN "idle" ELSE "done"
    BY <1>15 DEF Restart
  <2>2. CallsInv'
    BY <2>1 DEF CallsInv, Writing
  <2>3. \A a : Due(a)' = {}
    BY <2>1 DEF Due, Writing
  <2>4. ToldInv'
    BY <2>3 DEF ToldInv
  <2>5. SubscribedInv' /\ FreshUnlessDisturbed'
    BY <2>1 DEF SubscribedInv, FreshUnlessDisturbed
  <2>6. CacheBounded'
    BY <2>1, FS_EmptySet, CacheAssumption DEF CacheBounded
  <2> QED
    BY <2>2, <2>4, <2>5, <2>6
<1>16. CASE UNCHANGED vars
  BY <1>16, <1>2 DEF vars, busVars, history
<1> HIDE DEF Goal
<1> QED
  BY <1>3, <1>4, <1>5, <1>6, <1>7, <1>8, <1>9, <1>10, <1>11, <1>12, <1>13, <1>14,
     <1>15, <1>16 DEF Next, CallStep, GetBalance, Invalidate

-----------------------------------------------------------------------------
(* Theorems.                                                                *)

\* The invariant holds in every state.
THEOREM Invariant == Spec => []IInv
<1>1. IInv /\ [Next]_vars => IInv'
  BY TypeStep, DedupeStep, CacheStep DEF IInv
<1> QED
  BY InitIInv, <1>1, PTL DEF Spec

\* The maps of the bus and the cache keep their types; no handler is attempted more
\* often than maxRetryAttempts says.
THEOREM TypeCorrect == Spec => []TypeOK
<1>1. IInv => TypeOK
  BY DEF IInv
<1> QED
  BY Invariant, <1>1, PTL

\* Two events with one idempotency key reach the handlers only if the second is
\* published more than deduplicationTtlMs after the first (isDuplicate,
\* markProcessed, the cleanup interval).
THEOREM HandlersSeeAKeyOnce == Spec => []DeliveredOncePerKey
<1>1. IInv => DeliveredOncePerKey
  BY DEF IInv
<1> QED
  BY Invariant, <1>1, PTL

\* The cache never has more than maxSize entries (evictIfNeeded).
THEOREM NeverOutgrown == Spec => []CacheBounded
<1>1. IInv => CacheBounded
  BY DEF IInv
<1> QED
  BY Invariant, <1>1, PTL

\* What the cache shows of an account nothing disturbed is its newest balance
\* (the handlers of the cache, the order in which the wallet service publishes).
THEOREM UndisturbedIsFresh == Spec => []FreshUnlessDisturbed
<1>1. IInv => FreshUnlessDisturbed
  BY DEF IInv
<1> QED
  BY Invariant, <1>1, PTL
=============================================================================
