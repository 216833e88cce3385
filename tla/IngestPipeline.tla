--------------------------- MODULE IngestPipeline ---------------------------
(***************************************************************************)
(* Event ingestion: EventsController.postEvent queues an event,            *)
(* IngestWorker polls the queue and runs the event's handler, retrying it  *)
(* or parking it in the dead letter queue (DLQ), and ReplayController puts *)
(* parked events back (src/src/api/events.controller.ts,                   *)
(* src/src/ingest-worker/{worker,replay}.ts).                              *)
(*                                                                         *)
(* All three share four MongoDB collections.  Every awaited call is one    *)
(* action; a poll loop awaits its whole batch before it polls again, and   *)
(* the events of a batch are processed concurrently.                       *)
(***************************************************************************)
EXTENDS Integers, Sequences, FiniteSets

CONSTANTS
    Events,             \* event ids
    Keys,               \* idempotency keys chosen by the posting clients
    Workers,            \* IngestWorker instances, each in a process of its own
    Loops,              \* poll loops: a worker stopped and started again while
                        \* its loop sleeps runs a second one
    Owner,              \* Owner[l]: the worker poll loop l belongs to
    Posters,            \* concurrent POST /events requests
    Replayers,          \* concurrent ReplayController.replay calls
    MaxRetryAttempts,   \* config.maxRetryAttempts, 5 by default
    MaxConcurrentJobs,  \* config.maxConcurrentJobs, 10 by default
    NamedEvents,        \* TRUE: requests may bring their own event id
    MaxRequests, MaxReplays,                        \* bounds on the calls
    MaxStops, MaxCrashes, MaxFaults, MaxExpiries,   \* bounds on the mishaps
    Null                \* an absent id

ASSUME OwnerAssumption == Owner \in [Loops -> Workers]
ASSUME ConfigAssumption ==
    /\ MaxRetryAttempts \in Nat \ {0}
    /\ MaxConcurrentJobs \in Nat \ {0}
    /\ NamedEvents \in BOOLEAN
    /\ Null \notin Events \cup Keys
ASSUME FiniteAssumption == IsFiniteSet(Events) /\ IsFiniteSet(Posters)
ASSUME BoundsAssumption ==
    /\ MaxRequests \in Nat
    /\ MaxReplays \in Nat
    /\ MaxStops \in Nat
    /\ MaxCrashes \in Nat
    /\ MaxFaults \in Nat
    /\ MaxExpiries \in Nat

VARIABLES
    events,     \* events[e]: the IngestEventModel document with that eventId
    dlq,        \* DLQEventModel: the parked event ids by movedToDLQAt
    done,       \* IdempotencyRecordModel, scope ingest_event: event ids
    keys,       \* IdempotencyRecordModel, scope event_ingestion: client keys
    running,    \* running[w]: isRunning of worker w
    loop,       \* loop[l]: where pollLoop l is
    job,        \* job[l][e]: the processEvent call of loop l for event e
    post,       \* post[p]: a postEvent call and the await it is about to make
    replay,     \* replay[r]: the places of dlq a replay call has yet to go through
    duplicates, \* history: keys a client was told are already queued
    peak,       \* history: peak[k], most requests with key k in flight at a time
    successes,  \* history: successes[l][e], handler successes seen by loop l
    used        \* history: how often each bounded thing has happened

store == <<events, dlq, done, keys>>
worker == <<running, loop, job>>
vars == <<store, worker, post, replay, duplicates, peak, successes, used>>

-----------------------------------------------------------------------------
(* Documents, jobs and calls.                                               *)

\* attempts is only ever compared with MaxRetryAttempts, so it may saturate.
AttemptsCap == MaxRetryAttempts + 1
Incremented(n) == IF n < AttemptsCap THEN n + 1 ELSE n

EventStatus == {"none", "QUEUED", "PROCESSING", "PROCESSED", "DLQ"}
\* nextAttemptAt: never set, still to come, or not later than now.
Due == {"unset", "future", "past"}
Event == [status: EventStatus, attempts: 0..AttemptsCap, due: Due,
          key: Keys \cup {Null}]
NoEvent == [status |-> "none", attempts |-> 0, due |-> "unset", key |-> Null]
Queued(k) == [status |-> "QUEUED", attempts |-> 0, due |-> "unset", key |-> k]

\* rescue: the job is in the catch block of processEvent, where a second
\* exception rejects the promise that Promise.allSettled swallows.
JobSteps == {"claim", "check", "skip", "handle", "finish", "store", "requeue",
             "park", "mark", "reload"}
Job == [pc: JobSteps \cup {"idle"}, tries: 0..AttemptsCap, rescue: BOOLEAN]
NewJob(step) == [pc |-> step, tries |-> 0, rescue |-> FALSE]
IdleJob == NewJob("idle")

IdlePost == [pc |-> "idle", key |-> Null, event |-> Null]
PostCall == {IdlePost} \cup
            [pc: {"check", "store", "create"}, key: Keys, event: Events]

\* checked: the oldest event of todo has passed the idempotency check.
ReplayCall == [todo: SUBSET (Nat \ {0}), checked: BOOLEAN]
IdleReplay == [todo |-> {}, checked |-> FALSE]

Things == {"request", "replay", "stop", "crash", "fault", "expiry"}
Limit == [request |-> MaxRequests, replay |-> MaxReplays, stop |-> MaxStops,
          crash |-> MaxCrashes, fault |-> MaxFaults, expiry |-> MaxExpiries]
Use(thing) ==
    /\ used[thing] < Limit[thing]
    /\ used' = [used EXCEPT ![thing] = @ + 1]

InDLQ(e) == \E i \in 1..Len(dlq) : dlq[i] = e

Init ==
    /\ events = [e \in Events |-> NoEvent]
    /\ dlq = <<>>
    /\ done = {}
    /\ keys = {}
    /\ running = [w \in Workers |-> FALSE]
    /\ loop = [l \in Loops |-> "off"]
    /\ job = [l \in Loops |-> [e \in Events |-> IdleJob]]
    /\ post = [p \in Posters |-> IdlePost]
    /\ replay = [r \in Replayers |-> IdleReplay]
    /\ duplicates = {}
    /\ peak = [k \in Keys |-> 0]
    /\ successes = [l \in Loops |-> [e \in Events |-> 0]]
    /\ used = [t \in Things |-> 0]

-----------------------------------------------------------------------------
(* postEvent.                                                               *)

SetPost(p, call) == post' = [post EXCEPT ![p] = call]

Fresh(e) ==
    /\ events[e].status = "none"
    /\ \A p \in Posters : post[p].event # e

InFlight(k) == {p \in Posters : post[p].key = k}

\* A validated request; the event id is generated unless the client named one.
Post(p) ==
    /\ post[p].pc = "idle"
    /\ Use("request")
    /\ \E k \in Keys, e \in Events :
        /\ NamedEvents \/ Fresh(e)
        /\ SetPost(p, [pc |-> "check", key |-> k, event |-> e])
        /\ peak' = [peak EXCEPT ![k] =
                       IF @ > Cardinality(InFlight(k)) THEN @ ELSE Cardinality(InFlight(k)) + 1]
    /\ UNCHANGED <<store, worker, replay, duplicates, successes>>

KnownOnceProcessed(k) ==
    \E e \in Events : events[e].key = k /\ events[e].status = "PROCESSED"
Known(k) == k \in keys

PostCheck(p) ==
    /\ post[p].pc = "check"
    /\ IF Known(post[p].key)
          THEN /\ duplicates' = duplicates \cup {post[p].key}
               /\ SetPost(p, IdlePost)
          ELSE /\ SetPost(p, [post[p] EXCEPT !.pc = "store"])
               /\ UNCHANGED duplicates
    /\ UNCHANGED <<store, worker, replay, peak, successes, used>>

\* The unique index refuses a key stored meanwhile; storeIdempotency swallows it.
PostStore(p) ==
    /\ post[p].pc = "store"
    /\ keys' = keys \cup {post[p].key}
    /\ SetPost(p, [post[p] EXCEPT !.pc = "create"])
    /\ UNCHANGED <<events, dlq, done, worker, replay, duplicates, peak, successes, used>>

\* An event id that exists already is refused and the error rethrown.
PostCreate(p) ==
    /\ post[p].pc = "create"
    /\ LET e == post[p].event IN
        events' = IF events[e].status = "none"
                     THEN [events EXCEPT ![e] = Queued(post[p].key)]
                     ELSE events
    /\ SetPost(p, IdlePost)
    /\ UNCHANGED <<dlq, done, keys, worker, replay, duplicates, peak, successes, used>>

\* A database call throws, or the process serving the request dies.
PostFails(p) ==
    /\ post[p].pc # "idle"
    /\ Use("fault")
    /\ SetPost(p, IdlePost)
    /\ UNCHANGED <<store, worker, replay, duplicates, peak, successes>>

-----------------------------------------------------------------------------
(* start, stop and the poll loop.                                           *)

SetLoop(l, where) == loop' = [loop EXCEPT ![l] = where]

Start(w) ==
    /\ ~running[w]
    /\ \E l \in Loops : Owner[l] = w /\ loop[l] = "off" /\ SetLoop(l, "poll")
    /\ running' = [running EXCEPT ![w] = TRUE]
    /\ UNCHANGED <<store, job, post, replay, duplicates, peak, successes, used>>

Stop(w) ==
    /\ running[w]
    /\ Use("stop")
    /\ running' = [running EXCEPT ![w] = FALSE]
    /\ UNCHANGED <<store, loop, job, post, replay, duplicates, peak, successes>>

ReadyOnce == {e \in Events : events[e].status = "QUEUED" /\ events[e].due = "unset"}
\* QUEUED events whatever their nextAttemptAt, PROCESSING ones that are due.
Ready == {e \in Events : \/ events[e].status = "QUEUED"
                         \/ events[e].status = "PROCESSING" /\ events[e].due = "past"}

Batches == {B \in SUBSET Ready :
                /\ Cardinality(B) <= MaxConcurrentJobs
                /\ B = Ready \/ Cardinality(B) = MaxConcurrentJobs}

Poll(l) ==
    /\ loop[l] = "poll"
    /\ \E B \in Batches :
        /\ job' = [job EXCEPT ![l] = [e \in Events |->
                        IF e \in B THEN NewJob("claim") ELSE IdleJob]]
        /\ SetLoop(l, IF B = {} THEN "sleep" ELSE "batch")
    /\ UNCHANGED <<store, running, post, replay, duplicates, peak, successes, used>>

\* find throws: pollLoop logs the error and sleeps.
PollFails(l) ==
    /\ loop[l] = "poll"
    /\ Use("fault")
    /\ SetLoop(l, "sleep")
    /\ UNCHANGED <<store, running, job, post, replay, duplicates, peak, successes>>

\* Promise.allSettled: every job of the batch has ended, however it ended.
AwaitBatch(l) ==
    /\ loop[l] = "batch"
    /\ \A e \in Events : job[l][e].pc = "idle"
    /\ SetLoop(l, "sleep")
    /\ UNCHANGED <<store, running, job, post, replay, duplicates, peak, successes, used>>

\* The poll interval is over; isRunning is read again.
Wake(l) ==
    /\ loop[l] = "sleep"
    /\ SetLoop(l, IF running[Owner[l]] THEN "poll" ELSE "off")
    /\ UNCHANGED <<store, running, job, post, replay, duplicates, peak, successes, used>>

-----------------------------------------------------------------------------
(* processEvent of loop l for event e, one action per await.                *)

SetJob(l, e, j) == job' = [job EXCEPT ![l][e] = j]
Goto(l, e, step) == SetJob(l, e, [job[l][e] EXCEPT !.pc = step])
EndJob(l, e) == SetJob(l, e, IdleJob)
SetStatus(e, status) == events' = [events EXCEPT ![e].status = status]

JobFrame == UNCHANGED <<keys, running, loop, post, replay, duplicates, peak>>

\* The update does not refuse an event another loop is PROCESSING.
Claim(l, e) ==
    /\ job[l][e].pc = "claim"
    /\ events[e].status \in {"QUEUED", "PROCESSING"}
    /\ LET tries == Incremented(events[e].attempts) IN
        /\ events' = [events EXCEPT ![e].status = "PROCESSING", ![e].attempts = tries]
        /\ SetJob(l, e, [pc |-> "check", tries |-> tries, rescue |-> FALSE])
    /\ JobFrame /\ UNCHANGED <<dlq, done, successes, used>>

ClaimNothing(l, e) ==
    /\ job[l][e].pc = "claim"
    /\ events[e].status \notin {"QUEUED", "PROCESSING"}
    /\ EndJob(l, e)
    /\ JobFrame /\ UNCHANGED <<events, dlq, done, successes, used>>

AfterCheckOfRetries(l, e) ==
    IF e \in done /\ job[l][e].tries > 1 THEN "skip" ELSE "handle"
AfterCheckOfParked(l, e) == IF e \in done \/ InDLQ(e) THEN "skip" ELSE "handle"
AfterCheck(l, e) == IF e \in done THEN "skip" ELSE "handle"

CheckDone(l, e) ==
    /\ job[l][e].pc = "check"
    /\ Goto(l, e, AfterCheck(l, e))
    /\ JobFrame /\ UNCHANGED <<events, dlq, done, successes, used>>

SkipSilently(l, e) ==
    /\ job[l][e].pc = "skip"
    /\ EndJob(l, e)
    /\ JobFrame /\ UNCHANGED <<events, dlq, done, successes, used>>

Skip(l, e) ==
    /\ job[l][e].pc = "skip"
    /\ SetStatus(e, "PROCESSED")
    /\ EndJob(l, e)
    /\ JobFrame /\ UNCHANGED <<dlq, done, successes, used>>

AfterRetryableExclusive(tries) ==
    IF tries > MaxRetryAttempts THEN "park" ELSE "requeue"
AfterRetryable(tries) == IF tries >= MaxRetryAttempts THEN "park" ELSE "requeue"

HandleSuccess(l, e) ==
    /\ job[l][e].pc = "handle"
    /\ Goto(l, e, "finish")
    /\ successes' = [successes EXCEPT ![l][e] = @ + 1]
    /\ JobFrame /\ UNCHANGED <<events, dlq, done, used>>

\* RETRYABLE_FAILURE, NON_RETRYABLE_FAILURE, or an exception of the handler.
HandleFailure(l, e) ==
    /\ job[l][e].pc = "handle"
    /\ \/ Goto(l, e, AfterRetryable(job[l][e].tries))
       \/ Goto(l, e, "park")
       \/ SetJob(l, e, [job[l][e] EXCEPT !.pc = "reload", !.rescue = TRUE])
    /\ JobFrame /\ UNCHANGED <<events, dlq, done, successes, used>>

Finish(l, e) ==
    /\ job[l][e].pc = "finish"
    /\ SetStatus(e, "PROCESSED")
    /\ Goto(l, e, "store")
    /\ JobFrame /\ UNCHANGED <<dlq, done, successes, used>>

\* A record stored meanwhile makes the insertion fail; the error is swallowed.
Store(l, e) ==
    /\ job[l][e].pc = "store"
    /\ done' = done \cup {e}
    /\ EndJob(l, e)
    /\ JobFrame /\ UNCHANGED <<events, dlq, successes, used>>

Requeue(l, e) ==
    /\ job[l][e].pc = "requeue"
    /\ events' = [events EXCEPT ![e].status = "QUEUED", ![e].due = "future"]
    /\ EndJob(l, e)
    /\ JobFrame /\ UNCHANGED <<dlq, done, successes, used>>

\* An exception outside the catch block enters it; inside, the job is over.
Throw(l, e) ==
    IF job[l][e].rescue
       THEN EndJob(l, e)
       ELSE SetJob(l, e, [job[l][e] EXCEPT !.pc = "reload", !.rescue = TRUE])

ParkAgain(l, e) ==
    /\ job[l][e].pc = "park"
    /\ dlq' = Append(dlq, e)
    /\ Goto(l, e, "mark")
    /\ JobFrame /\ UNCHANGED <<events, done, successes, used>>

Park(l, e) ==
    /\ job[l][e].pc = "park"
    /\ ~InDLQ(e)
    /\ dlq' = Append(dlq, e)
    /\ Goto(l, e, "mark")
    /\ JobFrame /\ UNCHANGED <<events, done, successes, used>>

\* DLQ records are never removed: the unique index refuses a second one.
ParkRefused(l, e) ==
    /\ job[l][e].pc = "park"
    /\ InDLQ(e)
    /\ Throw(l, e)
    /\ JobFrame /\ UNCHANGED <<events, dlq, done, successes, used>>

MarkRejected(l, e) ==
    /\ job[l][e].pc = "mark"
    /\ SetStatus(e, "REJECTED")
    /\ EndJob(l, e)
    /\ JobFrame /\ UNCHANGED <<dlq, done, successes, used>>

Mark(l, e) ==
    /\ job[l][e].pc = "mark"
    /\ SetStatus(e, "DLQ")
    /\ EndJob(l, e)
    /\ JobFrame /\ UNCHANGED <<dlq, done, successes, used>>

\* The catch block reads the event as it is now, whoever changed it.
Reload(l, e) ==
    /\ job[l][e].pc = "reload"
    /\ LET tries == events[e].attempts IN
        SetJob(l, e, [pc |-> AfterRetryable(tries), tries |-> tries, rescue |-> TRUE])
    /\ JobFrame /\ UNCHANGED <<events, dlq, done, successes, used>>

\* A database call of the job throws and changes nothing.
JobFails(l, e) ==
    /\ job[l][e].pc \in JobSteps \ {"handle"}
    /\ Use("fault")
    /\ Throw(l, e)
    /\ JobFrame /\ UNCHANGED <<events, dlq, done, successes>>

JobStep(l, e) ==
    \/ Claim(l, e) \/ ClaimNothing(l, e) \/ CheckDone(l, e) \/ Skip(l, e)
    \/ HandleSuccess(l, e) \/ HandleFailure(l, e) \/ Finish(l, e) \/ Store(l, e)
    \/ Requeue(l, e) \/ Park(l, e) \/ ParkRefused(l, e) \/ Mark(l, e)
    \/ Reload(l, e)

-----------------------------------------------------------------------------
(* replay: the ingest event of a parked one always exists, for nothing      *)
(* deletes it, so the branch that creates one is not modelled.              *)

\* The filters and maxEvents select some records; the call goes through them
\* by movedToDLQAt, which is the order of dlq.
Replay(r) ==
    /\ replay[r] = IdleReplay
    /\ Use("replay")
    /\ \E T \in SUBSET (1..Len(dlq)) \ {{}} :
        replay' = [replay EXCEPT ![r] = [todo |-> T, checked |-> FALSE]]
    /\ UNCHANGED <<store, worker, post, duplicates, peak, successes>>

Oldest(r) == {i \in replay[r].todo : \A j \in replay[r].todo : i <= j}

NextOne(r) ==
    replay' = [replay EXCEPT ![r] =
                  [todo |-> replay[r].todo \ Oldest(r), checked |-> FALSE]]

ReplayCheck(r) ==
    /\ ~replay[r].checked
    /\ \E i \in Oldest(r) :
        IF dlq[i] \in done
           THEN NextOne(r)
           ELSE replay' = [replay EXCEPT ![r] = [todo |-> replay[r].todo, checked |-> TRUE]]
    /\ UNCHANGED <<store, worker, post, duplicates, peak, successes, used>>

\* Whatever the status has become, and whoever is processing the event.
ReplayReset(r) ==
    /\ replay[r].checked
    /\ \E i \in Oldest(r) :
        events' = [events EXCEPT ![dlq[i]].status = "QUEUED",
                                 ![dlq[i]].attempts = 0, ![dlq[i]].due = "past"]
    /\ NextOne(r)
    /\ UNCHANGED <<dlq, done, keys, worker, post, duplicates, peak, successes, used>>

\* A database call throws: the event counts as failed and the next one follows.
ReplayFails(r) ==
    /\ Oldest(r) # {}
    /\ Use("fault")
    /\ NextOne(r)
    /\ UNCHANGED <<store, worker, post, duplicates, peak, successes>>

-----------------------------------------------------------------------------
(* Time and crashes.                                                        *)

\* The nextAttemptAt of a retry is reached.
Tick(e) ==
    /\ events[e].due = "future"
    /\ events' = [events EXCEPT ![e].due = "past"]
    /\ UNCHANGED <<dlq, done, keys, worker, post, replay, duplicates, peak, successes, used>>

\* The TTL index drops the record after 90 days, longer than any job lasts.
Expire(e) ==
    /\ e \in done
    /\ \A l \in Loops : job[l][e] = IdleJob
    /\ Use("expiry")
    /\ done' = done \ {e}
    /\ UNCHANGED <<events, dlq, keys, worker, post, replay, duplicates, peak, successes>>

Crash(w) ==
    /\ \E l \in Loops : Owner[l] = w /\ loop[l] # "off"
    /\ Use("crash")
    /\ running' = [running EXCEPT ![w] = FALSE]
    /\ loop' = [l \in Loops |-> IF Owner[l] = w THEN "off" ELSE loop[l]]
    /\ job' = [l \in Loops |-> IF Owner[l] = w THEN [e \in Events |-> IdleJob]
                                               ELSE job[l]]
    /\ UNCHANGED <<store, post, replay, duplicates, peak, successes>>

-----------------------------------------------------------------------------

PostNext(p) ==
    Post(p) \/ PostCheck(p) \/ PostStore(p) \/ PostCreate(p) \/ PostFails(p)
LoopNext(l) == Poll(l) \/ PollFails(l) \/ AwaitBatch(l) \/ Wake(l)
ReplayNext(r) == Replay(r) \/ ReplayCheck(r) \/ ReplayReset(r) \/ ReplayFails(r)

Next ==
    \/ \E p \in Posters : PostNext(p)
    \/ \E w \in Workers : Start(w) \/ Stop(w) \/ Crash(w)
    \/ \E l \in Loops : LoopNext(l)
    \/ \E l \in Loops, e \in Events : JobStep(l, e) \/ JobFails(l, e)
    \/ \E r \in Replayers : ReplayNext(r)
    \/ \E e \in Events : Tick(e) \/ Expire(e)

Spec == Init /\ [][Next]_vars

\* Time passes, the deployment keeps its workers started, and Node's event loop
\* gives every pending callback its turn.
Fairness ==
    /\ \A w \in Workers : WF_vars(Start(w))
    /\ \A l \in Loops : WF_vars(Poll(l)) /\ WF_vars(AwaitBatch(l)) /\ WF_vars(Wake(l))
    /\ \A l \in Loops, e \in Events : WF_vars(JobStep(l, e))
    /\ \A p \in Posters : WF_vars(PostCheck(p) \/ PostStore(p) \/ PostCreate(p))
    /\ \A r \in Replayers : WF_vars(ReplayCheck(r) \/ ReplayReset(r))
    /\ \A e \in Events : WF_vars(Tick(e))

FairSpec == Spec /\ Fairness

-----------------------------------------------------------------------------
(* Properties.                                                              *)

\* Every variable has its type.
TypeOK ==
    /\ events \in [Events -> Event]
    /\ dlq \in Seq(Events)
    /\ done \subseteq Events
    /\ keys \subseteq Keys
    /\ running \in [Workers -> BOOLEAN]
    /\ loop \in [Loops -> {"off", "poll", "batch", "sleep"}]
    /\ job \in [Loops -> [Events -> Job]]
    /\ post \in [Posters -> PostCall]
    /\ replay \in [Replayers -> ReplayCall]
    /\ duplicates \subseteq Keys
    /\ peak \in [Keys -> Nat]
    /\ successes \in [Loops -> [Events -> Nat]]
    /\ used \in [Things -> Nat]

\* Mishaps that lose a success, before or after its record is stored.
Losses == used["crash"] + used["fault"] + used["expiry"]

\* Delivery is at least once, but not at will: however many loops and replays
\* compete, one poll loop brings the handler of an event to success at most once
\* more than there were crashes, failing calls and expired records (the check of
\* processEvent against the record stored after a success).
HandlingBound ==
    \A l \in Loops, e \in Events : successes[l][e] <= 1 + Losses

\* An event is reported PROCESSED, or recorded as done, only if its handler has
\* succeeded at some time (processEvent, handleProcessingResult).
Handled(e) == \E l \in Loops : successes[l][e] > 0
ProcessedWasHandled ==
    \A e \in Events :
        events[e].status = "PROCESSED" \/ e \in done
            => Handled(e)

\* moveToDLQ creates the record before it marks the event, and nothing removes a
\* record: an event in status DLQ can be found and replayed, once per event.
ParkedIsReplayable ==
    /\ \A e \in Events : events[e].status = "DLQ" => InDLQ(e)
    /\ \A i, j \in 1..Len(dlq) : dlq[i] = dlq[j] => i = j

\* Why the three above hold.  Only a batch has jobs; a success that is not on
\* record is one a job is about to record, or one that was lost; and a job that
\* runs the handler found no record, so all the loop's earlier successes are lost.
LoopInv ==
    \A l \in Loops, e \in Events : loop[l] # "batch" => job[l][e].pc = "idle"
HandlingInv ==
    \A l \in Loops, e \in Events :
        /\ successes[l][e] <= 1 + Losses
        /\ e \notin done /\ job[l][e].pc \notin {"finish", "store"}
               => successes[l][e] <= Losses
        /\ job[l][e].pc = "handle" => successes[l][e] <= Losses
ProcessedInv ==
    \A e \in Events :
        /\ events[e].status = "PROCESSED" \/ e \in done => Handled(e)
        /\ \A l \in Loops : job[l][e].pc \in {"finish", "store", "skip"} => Handled(e)
ParkedInv ==
    /\ \A e \in Events :
        events[e].status = "DLQ" \/ (\E l \in Loops : job[l][e].pc = "mark") => InDLQ(e)
    /\ \A i, j \in 1..Len(dlq) : dlq[i] = dlq[j] => i = j
IInv == LoopInv /\ HandlingInv /\ ProcessedInv /\ ParkedInv

\* Until somebody replays an event, and with a single loop and no losses, none is
\* tried more often than config.maxRetryAttempts says (handleProcessingResult).
Replayed == used["replay"] > 0
RetryBudget ==
    \A e \in Events : events[e].attempts <= MaxRetryAttempts \/ Replayed

\* Why it holds, then: the loop has the only job of an event that is PROCESSING,
\* knows how often it was tried, and gives it back only while tries are left.
LoneLoop == (\A l, m \in Loops : l = m) /\ MaxCrashes = 0 /\ MaxFaults = 0
JobBudget(l, e) ==
    /\ job[l][e].pc \in {"idle", "claim"} => events[e].status # "PROCESSING"
    /\ job[l][e].pc = "claim" => events[e].status = "QUEUED"
    /\ job[l][e].pc = "store" => events[e].status = "PROCESSED"
    /\ job[l][e].pc \notin {"idle", "claim", "store"} => events[e].status = "PROCESSING"
    /\ job[l][e].pc \in {"check", "handle"} => job[l][e].tries = events[e].attempts
    /\ job[l][e].pc = "requeue" => events[e].attempts < MaxRetryAttempts
    /\ InDLQ(e) => job[l][e].pc = "mark" \/ events[e].status = "DLQ"
BudgetInv ==
    Replayed \/ /\ \A r \in Replayers : replay[r] = IdleReplay
                /\ \A e \in Events :
                       /\ events[e].attempts <= MaxRetryAttempts
                       /\ events[e].status = "QUEUED" =>
                              events[e].attempts < MaxRetryAttempts
                       /\ \A l \in Loops : JobBudget(l, e)

\* Unless somebody replays an event, a queued one is in the end processed or
\* parked (the poll loop, the retry budget and moveToDLQ together).
Settled(e) == events[e].status \in {"PROCESSED", "DLQ"} \/ Replayed
Settles == \A e \in Events : events[e].status = "QUEUED" ~> Settled(e)

\* A queued event is in the end polled and claimed, whatever the others need
\* (processNextBatch takes maxConcurrentJobs events in no particular order).
Claimed == \A e \in Events : events[e].status = "QUEUED" ~> events[e].status # "QUEUED"

\* With a single loop, however often it is replayed, an event whose
\* success is on record ends PROCESSED for good: no late replay leaves it QUEUED,
\* being worked on or reported dead (replay, processEvent).
DoneSettles == \A e \in Events : e \in done ~> [](events[e].status = "PROCESSED")

\* Within the 90 days its record lives, a key queues no more events than requests
\* with it were ever in flight at one time: n concurrent requests may queue n events
\* (check, store and create of postEvent are separate awaits), but whoever awaits an
\* answer before repeating a request queues one, whatever the others do.
Named(k) == {e \in Events : events[e].key = k}
EventsPerKeyBounded == \A k \in Keys : Cardinality(Named(k)) <= peak[k]

\* Why it holds: an event has a stored key, and who finds a key unused is in flight
\* with all those who will create an event with it.
Creating(k) == {p \in InFlight(k) : post[p].pc \in {"store", "create"}}
KeyInv ==
    /\ \A e \in Events : events[e].key \in keys \cup {Null}
    /\ \A p \in Posters : post[p].pc = "create" => post[p].key \in keys
    /\ \A k \in Keys :
        /\ Cardinality(InFlight(k)) <= peak[k]
        /\ Cardinality(Named(k)) + Cardinality(Creating(k)) <= peak[k]

\* One idempotency key queues one event, whatever requests are in flight.
OneEventPerKey ==
    \A e, f \in Events : events[e].key = events[f].key /\ events[e].key # Null => e = f

\* A client that is told its event is "already processed or queued" can rely on
\* it: an event with that key is or will be there (postEvent).
DuplicateIsQueued ==
    \A k \in Keys : k \in duplicates ~> \E e \in Events : events[e].key = k

\* processEvent "atomically claims" the event: no two loops work on the same one.
ExclusiveClaim ==
    \A e \in Events, l, m \in Loops :
        {job[l][e].pc, job[m][e].pc} \cap {"idle", "claim"} = {} => l = m

\* A retry is not attempted before the nextAttemptAt that was scheduled for it.
BackoffRespected ==
    [][\A e \in Events : events'[e].attempts > events[e].attempts
                            => events[e].due # "future"]_vars

=============================================================================
