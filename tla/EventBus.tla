------------------------------ MODULE EventBus ------------------------------
(***************************************************************************)
(* EventBus (src/src/events/event-bus.ts): the in-memory bus of one        *)
(* process.  Publishing compares the event's dedupe keys with those marked *)
(* earlier, marks them, and starts the handler of every subscriber without *)
(* waiting; a handler that rejects is started again after a delay.         *)
(*                                                                         *)
(* The module has the bus's state and operations; BalanceCache composes    *)
(* them with those who publish and with the cache that listens.            *)
(***************************************************************************)
EXTENDS Integers, FiniteSets

CONSTANTS
    Calls,              \* the operations that publish, each one event
    EventTypes,         \* WalletEventType
    Keys,               \* idempotency keys
    Subscribers,        \* subscriber ids
    Interested,         \* eventTypes of each subscriber
    MaxRetryAttempts,   \* config.maxRetryAttempts
    DeduplicationTtl,   \* config.deduplicationTtlMs, in ticks
    AsyncProcessing,    \* config.asyncProcessing
    MaxSubscriptions,   \* bound: subscriptions of one subscriber
    LastTick            \* bound: the clock is 0 .. LastTick

ASSUME SubscribersAssumption == Interested \in [Subscribers -> SUBSET EventTypes]
ASSUME DedupeKeysAssumption == Calls \cap Keys = {}
ASSUME BusAssumption ==
    /\ MaxRetryAttempts \in Nat \ {0}
    /\ DeduplicationTtl \in Nat
    /\ AsyncProcessing \in BOOLEAN
    /\ MaxSubscriptions \in Nat
    /\ LastTick \in Nat

VARIABLES
    subscriptions,      \* <<s, n>>: the n-th subscription of subscriber s
    processedEvents,    \* when each dedupe key was marked
    deliveries,         \* deliveries[c]: the handlers that c's event started
    now                 \* Date.now()

busVars == <<subscriptions, processedEvents, deliveries, now>>

Ticks == 0 .. LastTick

Subscriptions == Subscribers \X (1 .. MaxSubscriptions)

\* notifySubscriber for one subscription: the handler runs, or sleeps before
\* its next attempt, or is over; only then the attempts may be used up.
Over(d) == d.state \in {"succeeded", "failed"}

Delivery ==
    {d \in [attempts : 0 .. MaxRetryAttempts,
            state : {"running", "sleeping", "succeeded", "failed"}] :
        Over(d) \/ d.attempts < MaxRetryAttempts}

InitBus ==
    /\ subscriptions = {}
    /\ processedEvents = <<>>
    /\ deliveries = [c \in Calls |-> <<>>]
    /\ now = 0

-----------------------------------------------------------------------------
(* Subscribing.  The lists are sorted by priority; a publication calls all  *)
(* handlers in one step, whatever their order.                              *)

Subscribed(s) == \E n \in 1 .. MaxSubscriptions : <<s, n>> \in subscriptions

\* Nothing keeps a subscriber from subscribing twice.
Subscribe(s) ==
    \E n \in 1 .. MaxSubscriptions :
        /\ \A i \in 1 .. MaxSubscriptions : <<s, i>> \in subscriptions <=> i < n
        /\ subscriptions' = subscriptions \cup {<<s, n>>}
        /\ UNCHANGED <<processedEvents, deliveries, now>>

\* Deliveries under way go on, their retries included.
Unsubscribe(s) ==
    /\ Subscribed(s)
    /\ subscriptions' = {x \in subscriptions : x[1] # s}
    /\ UNCHANGED <<processedEvents, deliveries, now>>

-----------------------------------------------------------------------------
(* Publishing.  The event of call c has c for its eventId, a fresh uuid.    *)

\* (Bug: the idempotency key is forgotten.)
EventIdOnly(c, k) == {c}

DedupeKeys(c, k) == {c, k}

IsDuplicate(c, k) == \E d \in DedupeKeys(c, k) : d \in DOMAIN processedEvents

MarkProcessed(c, k) ==
    processedEvents' = [d \in DOMAIN processedEvents \cup DedupeKeys(c, k) |->
        IF d \in DedupeKeys(c, k) THEN now ELSE processedEvents[d]]

\* publish up to its first await: all handlers have been called.
Accept(c, t, k) ==
    /\ ~IsDuplicate(c, k)
    /\ MarkProcessed(c, k)
    /\ deliveries' = [deliveries EXCEPT ![c] =
            [x \in {y \in subscriptions : t \in Interested[y[1]]} |->
                [attempts |-> 0, state |-> "running"]]]
    /\ UNCHANGED <<subscriptions, now>>

Drop(c, k) ==
    /\ IsDuplicate(c, k)
    /\ UNCHANGED busVars

-----------------------------------------------------------------------------
(* Handlers.                                                                *)

AllSettled(c) == \A x \in DOMAIN deliveries[c] : Over(deliveries[c][x])

Becomes(c, x, d) ==
    /\ deliveries' = [deliveries EXCEPT ![c][x] = d]
    /\ UNCHANGED <<subscriptions, processedEvents, now>>

HandlerResolves(c, x) ==
    LET d == deliveries[c][x] IN
    /\ d.state = "running"
    /\ Becomes(c, x, [attempts |-> d.attempts, state |-> "succeeded"])

\* (Bug: one attempt too many.)
AttemptsLeftInclusive(attempts) == attempts <= MaxRetryAttempts

AttemptsLeft(attempts) == attempts < MaxRetryAttempts

HandlerRejects(c, x) ==
    LET d == deliveries[c][x] IN
    /\ d.state = "running"
    /\ Becomes(c, x, [attempts |-> d.attempts + 1,
                      state |-> IF AttemptsLeft(d.attempts + 1)
                                THEN "sleeping" ELSE "failed"])

Retry(c, x) ==
    LET d == deliveries[c][x] IN
    /\ d.state = "sleeping"
    /\ Becomes(c, x, [attempts |-> d.attempts, state |-> "running"])

-----------------------------------------------------------------------------
(* The clock, the cleanup every minute, and the end of the process.         *)

Tick ==
    /\ now < LastTick
    /\ now' = now + 1
    /\ UNCHANGED <<subscriptions, processedEvents, deliveries>>

\* (Bug: a mark goes one moment too early.)
TooOldInclusive(timestamp) == now - timestamp >= DeduplicationTtl

TooOld(timestamp) == now - timestamp > DeduplicationTtl

Cleanup ==
    /\ \E d \in DOMAIN processedEvents : TooOld(processedEvents[d])
    /\ processedEvents' =
            [d \in {x \in DOMAIN processedEvents : ~TooOld(processedEvents[x])}
                |-> processedEvents[d]]
    /\ UNCHANGED <<subscriptions, deliveries, now>>

\* Everything here is memory.
RestartBus ==
    /\ subscriptions' = {}
    /\ processedEvents' = <<>>
    /\ deliveries' = [c \in Calls |-> <<>>]
    /\ UNCHANGED now

-----------------------------------------------------------------------------

BusTypeOK ==
    /\ subscriptions \subseteq Subscriptions
    /\ DOMAIN processedEvents \subseteq Calls \cup Keys
    /\ \A d \in DOMAIN processedEvents : processedEvents[d] \in 0 .. now
    /\ DOMAIN deliveries = Calls
    /\ \A c \in Calls :
           /\ DOMAIN deliveries[c] \subseteq Subscriptions
           /\ \A x \in DOMAIN deliveries[c] : deliveries[c][x] \in Delivery
    /\ now \in Ticks
=============================================================================
