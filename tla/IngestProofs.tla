---------------------------- MODULE IngestProofs ----------------------------
(***************************************************************************)
(* Proofs about IngestPipeline, for every set of events, keys, workers,    *)
(* poll loops, requests and replays, and every bound.                      *)
(***************************************************************************)
EXTENDS IngestPipeline, SequenceTheorems, FiniteSetTheorems, TLAPS

USE DEF store, worker

-----------------------------------------------------------------------------
(* Types.                                                                   *)

LEMMA TypeInit == Init => TypeOK
BY BoundsAssumption, ConfigAssumption, EmptySeq
   DEF Init, TypeOK, Event, NoEvent, EventStatus, Due, Job, IdleJob, NewJob, PostCall,
       IdlePost, ReplayCall, IdleReplay, AttemptsCap

\* What the types of the variables say of one document, call or counter.
LEMMA Fields ==
    ASSUME TypeOK
    PROVE  /\ \A e \in Events : events[e] \in Event
           /\ \A l \in Loops, e \in Events : job[l][e] \in Job
           /\ \A l \in Loops, e \in Events : successes[l][e] \in Nat
           /\ \A t \in Things : used[t] \in Nat
           /\ Len(dlq) \in Nat
           /\ \A i \in 1..Len(dlq) : dlq[i] \in Events
<1>1. dlq \in Seq(Events)
  BY DEF TypeOK
<1>2. Len(dlq) \in Nat /\ \A i \in 1..Len(dlq) : dlq[i] \in Events
  BY <1>1, ElementOfSeq, LenProperties
<1> QED
  BY <1>2 DEF TypeOK

\* Only one counter moves, and it goes up by one.
LEMMA UseType ==
    ASSUME TypeOK, NEW t \in Things, Use(t)
    PROVE  /\ used' \in [Things -> Nat]
           /\ used'[t] = used[t] + 1
           /\ \A s \in Things \ {t} : used'[s] = used[s]
BY DEF TypeOK, Use

\* Each step of a job leaves a job behind.
LEMMA JobType ==
    ASSUME TypeOK, NEW l \in Loops, NEW e \in Events, NEW j \in Job, SetJob(l, e, j)
    PROVE  /\ job' \in [Loops -> [Events -> Job]]
           /\ job'[l][e] = j
           /\ \A m \in Loops, f \in Events :
                m # l \/ f # e => job'[m][f] = job[m][f]
BY DEF TypeOK, SetJob

\* A job that only moves to another step is still a job.
LEMMA JobMoves ==
    ASSUME TypeOK, NEW l \in Loops, NEW e \in Events
    PROVE  /\ IdleJob \in Job
           /\ \A s \in JobSteps : [job[l][e] EXCEPT !.pc = s] \in Job
           /\ [job[l][e] EXCEPT !.pc = "reload", !.rescue = TRUE] \in Job
           /\ \A n \in 0..AttemptsCap : AfterRetryable(n) \in JobSteps
           /\ \A s \in JobSteps : [job[l][e] EXCEPT !.pc = s].pc = s
<1>1. job[l][e] \in Job
  BY Fields
<1>2. IdleJob \in Job
  BY ConfigAssumption DEF IdleJob, NewJob, Job, AttemptsCap
<1>3. \A s \in JobSteps : [job[l][e] EXCEPT !.pc = s] \in Job
  BY <1>1 DEF Job
<1>4. [job[l][e] EXCEPT !.pc = "reload", !.rescue = TRUE] \in Job
  BY <1>1 DEF Job, JobSteps
<1>5. \A n \in 0..AttemptsCap : AfterRetryable(n) \in JobSteps
  BY DEF AfterRetryable, JobSteps
<1>6. \A s \in JobSteps : [job[l][e] EXCEPT !.pc = s].pc = s
  BY <1>1 DEF Job
<1> QED
  BY <1>2, <1>3, <1>4, <1>5, <1>6

\* Writing some fields of one document leaves documents behind.
LEMMA EventType ==
    ASSUME TypeOK, NEW e \in Events, NEW d \in Event, events' = [events EXCEPT ![e] = d]
    PROVE  events' \in [Events -> Event]
BY DEF TypeOK

LEMMA PostNextType ==
    ASSUME TypeOK, NEW p \in Posters, PostNext(p)
    PROVE  TypeOK'
<1>0. /\ post[p] \in PostCall /\ IdlePost \in PostCall
      /\ post[p].pc # "idle" =>
            /\ post[p].key \in Keys
            /\ \A s \in {"store", "create"} : [post[p] EXCEPT !.pc = s] \in PostCall
  <2>1. post[p] \in PostCall /\ IdlePost \in PostCall
    BY DEF TypeOK, PostCall
  <2>2. ASSUME post[p].pc # "idle"
        PROVE  post[p] \in [pc: {"check", "store", "create"}, key: Keys, event: Events]
    BY <2>1, <2>2 DEF PostCall, IdlePost
  <2> QED
    BY <2>1, <2>2 DEF PostCall
<1>1. CASE Post(p)
  <2>1. post' \in [Posters -> PostCall]
    BY <1>1 DEF Post, SetPost, PostCall, TypeOK
  <2>2. used' \in [Things -> Nat]
    BY <1>1, UseType DEF Post, Things
  <2>3. peak' \in [Keys -> Nat]
    <3>1. \A k \in Keys : Cardinality(InFlight(k)) \in Nat
      BY FiniteAssumption, FS_Subset, FS_CardinalityType DEF InFlight
    <3> QED
      BY <1>1, <3>1 DEF Post, TypeOK
  <2> QED
    BY <1>1, <2>1, <2>2, <2>3 DEF Post, TypeOK
<1>2. CASE PostCheck(p)
  <2>1. post' \in [Posters -> PostCall] /\ duplicates' \subseteq Keys
    <3>2. CASE post[p].key \in keys
      BY <1>0, <1>2, <3>2 DEF PostCheck, SetPost, TypeOK
    <3>3. CASE post[p].key \notin keys
      BY <1>0, <1>2, <3>3 DEF PostCheck, SetPost, TypeOK
    <3> QED
      BY <3>2, <3>3
  <2> QED
    BY <1>2, <2>1 DEF PostCheck, TypeOK
<1>3. CASE PostStore(p)
  <2>1. post' \in [Posters -> PostCall]
    BY <1>0, <1>3 DEF PostStore, SetPost, TypeOK
  <2>2. keys' \subseteq Keys
    BY <1>0, <1>3 DEF PostStore, TypeOK
  <2> QED
    BY <1>3, <2>1, <2>2 DEF PostStore, TypeOK
<1>4. CASE PostCreate(p)
  <2>1. Queued(post[p].key) \in Event
    BY <1>0, <1>4, ConfigAssumption
       DEF PostCreate, Queued, Event, EventStatus, Due, AttemptsCap
  <2>3. events' \in [Events -> Event]
    BY <1>4, <2>1 DEF PostCreate, TypeOK
  <2>4. post' \in [Posters -> PostCall]
    BY <1>0, <1>4 DEF PostCreate, SetPost, TypeOK
  <2> QED
    BY <1>4, <2>3, <2>4 DEF PostCreate, TypeOK
<1>5. CASE PostFails(p)
  <2>1. post' \in [Posters -> PostCall]
    BY <1>0, <1>5 DEF PostFails, SetPost, TypeOK
  <2>2. used' \in [Things -> Nat]
    BY <1>5, UseType DEF PostFails, Things
  <2> QED
    BY <1>5, <2>1, <2>2 DEF PostFails, TypeOK
<1> QED
  BY <1>1, <1>2, <1>3, <1>4, <1>5 DEF PostNext

LEMMA WorkerNextType ==
    ASSUME TypeOK, NEW w \in Workers, Start(w) \/ Stop(w) \/ Crash(w)
    PROVE  TypeOK'
<1>1. CASE Start(w)
  BY <1>1 DEF Start, SetLoop, TypeOK
<1>2. CASE Stop(w)
  <2>1. used' \in [Things -> Nat]
    BY <1>2, UseType DEF Stop, Things
  <2> QED
    BY <1>2, <2>1 DEF Stop, TypeOK
<1>3. CASE Crash(w)
  <2>1. used' \in [Things -> Nat]
    BY <1>3, UseType DEF Crash, Things
  <2>2. IdleJob \in Job
    BY ConfigAssumption DEF IdleJob, NewJob, Job, AttemptsCap
  <2>3. job' \in [Loops -> [Events -> Job]]
    BY <1>3, <2>2 DEF Crash, TypeOK
  <2> QED
    BY <1>3, <2>1, <2>3 DEF Crash, TypeOK
<1> QED
  BY <1>1, <1>2, <1>3

LEMMA LoopNextType ==
    ASSUME TypeOK, NEW l \in Loops, LoopNext(l)
    PROVE  TypeOK'
<1>1. CASE Poll(l)
  <2>1. PICK B : /\ job' = [job EXCEPT ![l] = [e \in Events |->
                        IF e \in B THEN NewJob("claim") ELSE IdleJob]]
                 /\ SetLoop(l, IF B = {} THEN "sleep" ELSE "batch")
    BY <1>1 DEF Poll
  <2>2. IdleJob \in Job /\ NewJob("claim") \in Job
    BY ConfigAssumption DEF IdleJob, NewJob, Job, JobSteps, AttemptsCap
  <2>3. job' \in [Loops -> [Events -> Job]]
    BY <2>1, <2>2 DEF TypeOK
  <2> QED
    BY <1>1, <2>1, <2>3 DEF Poll, SetLoop, TypeOK
<1>2. CASE PollFails(l)
  <2>1. used' \in [Things -> Nat]
    BY <1>2, UseType DEF PollFails, Things
  <2> QED
    BY <1>2, <2>1 DEF PollFails, SetLoop, TypeOK
<1>3. CASE AwaitBatch(l)
  BY <1>3 DEF AwaitBatch, SetLoop, TypeOK
<1>4. CASE Wake(l)
  BY <1>4 DEF Wake, SetLoop, TypeOK
<1> QED
  BY <1>1, <1>2, <1>3, <1>4 DEF LoopNext

LEMMA ReplayNextType ==
    ASSUME TypeOK, NEW r \in Replayers, ReplayNext(r)
    PROVE  TypeOK'
<1>1. CASE Replay(r)
  <2>1. used' \in [Things -> Nat]
    BY <1>1, UseType DEF Replay, Things
  <2>2. PICK T \in SUBSET (1..Len(dlq)) :
            replay' = [replay EXCEPT ![r] = [todo |-> T, checked |-> FALSE]]
    BY <1>1 DEF Replay
  <2>3. T \in SUBSET (Nat \ {0})
    BY Fields
  <2>4. replay' \in [Replayers -> ReplayCall]
    BY <2>2, <2>3 DEF ReplayCall, TypeOK
  <2> QED
    BY <1>1, <2>1, <2>4 DEF Replay, TypeOK
<1>2. ASSUME NextOne(r) PROVE replay' \in [Replayers -> ReplayCall]
  BY <1>2 DEF NextOne, ReplayCall, TypeOK
<1>3. CASE ReplayCheck(r)
  <2>1. replay' \in [Replayers -> ReplayCall]
    <3>1. replay[r] \in ReplayCall
      BY DEF TypeOK
    <3>2. [todo |-> replay[r].todo, checked |-> TRUE] \in ReplayCall
      BY <3>1 DEF ReplayCall
    <3>3. NextOne(r)
            \/ replay' = [replay EXCEPT ![r] = [todo |-> replay[r].todo, checked |-> TRUE]]
      BY <1>3 DEF ReplayCheck
    <3> QED
      BY <1>2, <3>2, <3>3 DEF TypeOK
  <2> QED
    BY <1>3, <2>1 DEF ReplayCheck, TypeOK
<1>4. CASE ReplayReset(r)
  <2>1. PICK i : events' = [events EXCEPT ![dlq[i]].status = "QUEUED",
                                 ![dlq[i]].attempts = 0, ![dlq[i]].due = "past"]
    BY <1>4 DEF ReplayReset
  <2>2. events' \in [Events -> Event]
    <3> DEFINE f == dlq[i]
    <3>1. CASE f \in Events
      <4>1. events[f] \in Event /\ 0 \in 0..AttemptsCap
        BY <3>1, ConfigAssumption DEF AttemptsCap, TypeOK
      <4>2. [events[f] EXCEPT !.status = "QUEUED", !.attempts = 0, !.due = "past"]
                \in Event
        BY <4>1 DEF Event, EventStatus, Due
      <4>3. events' = [events EXCEPT ![f] =
                [events[f] EXCEPT !.status = "QUEUED", !.attempts = 0, !.due = "past"]]
        BY <2>1, <3>1 DEF TypeOK
      <4> HIDE DEF f
      <4> QED
        BY <3>1, <4>2, <4>3, EventType
    <3>2. CASE f \notin Events
      <4>1. events' = events
        BY <2>1, <3>2 DEF TypeOK
      <4> QED
        BY <4>1 DEF TypeOK
    <3> QED
      BY <3>1, <3>2
  <2> QED
    BY <1>2, <1>4, <2>2 DEF ReplayReset, TypeOK
<1>5. CASE ReplayFails(r)
  <2>1. used' \in [Things -> Nat]
    BY <1>5, UseType DEF ReplayFails, Things
  <2> QED
    BY <1>2, <1>5, <2>1 DEF ReplayFails, TypeOK
<1> QED
  BY <1>1, <1>3, <1>4, <1>5 DEF ReplayNext

LEMMA TimeType ==
    ASSUME TypeOK, NEW e \in Events, Tick(e) \/ Expire(e)
    PROVE  TypeOK'
<1>1. CASE Tick(e)
  BY <1>1 DEF Tick, Event, Due, TypeOK
<1>2. CASE Expire(e)
  <2>1. used' \in [Things -> Nat]
    BY <1>2, UseType DEF Expire, Things
  <2> QED
    BY <1>2, <2>1 DEF Expire, TypeOK
<1> QED
  BY <1>1, <1>2

LEMMA JobStepType ==
    ASSUME TypeOK, NEW l \in Loops, NEW e \in Events, JobStep(l, e) \/ JobFails(l, e)
    PROVE  TypeOK'
<1>0. /\ job[l][e] \in Job /\ events[e] \in Event
      /\ \A n \in 0..AttemptsCap : Incremented(n) \in 0..AttemptsCap
  BY Fields, ConfigAssumption DEF Incremented, AttemptsCap
<1>1. job' \in [Loops -> [Events -> Job]]
  <2>1. CASE Claim(l, e)
    <3>1. [pc |-> "check", tries |-> Incremented(events[e].attempts),
           rescue |-> FALSE] \in Job
      BY <1>0 DEF Event, Job, JobSteps
    <3> QED
      BY <2>1, <3>1, JobType DEF Claim
  <2>2. ASSUME EndJob(l, e) PROVE job' \in [Loops -> [Events -> Job]]
    BY <2>2, JobType, JobMoves DEF EndJob
  <2>3. ASSUME NEW s \in JobSteps, Goto(l, e, s) PROVE job' \in [Loops -> [Events -> Job]]
    BY <2>3, JobType, JobMoves DEF Goto
  <2>4. ASSUME Throw(l, e) PROVE job' \in [Loops -> [Events -> Job]]
    BY <2>2, <2>4, JobType, JobMoves DEF Throw
  <2>5. CASE Reload(l, e)
    <3>1. [pc |-> AfterRetryable(events[e].attempts), tries |-> events[e].attempts,
           rescue |-> TRUE] \in Job
      BY <1>0, JobMoves DEF Event, Job
    <3> QED
      BY <2>5, <3>1, JobType DEF Reload
  <2>6. CASE HandleFailure(l, e)
    <3>1. AfterRetryable(job[l][e].tries) \in JobSteps
      BY <1>0, JobMoves DEF Job
    <3> QED
      BY <2>6, <2>3, <3>1, JobType, JobMoves DEF HandleFailure, JobSteps
  <2>7. CASE CheckDone(l, e)
    BY <2>3, <2>7 DEF CheckDone, AfterCheck, JobSteps
  <2>8. CASE HandleSuccess(l, e) \/ Finish(l, e) \/ Park(l, e)
    BY <2>3, <2>8 DEF HandleSuccess, Finish, Park, JobSteps
  <2>9. CASE \/ ClaimNothing(l, e) \/ Skip(l, e) \/ Store(l, e) \/ Requeue(l, e)
             \/ Mark(l, e)
    BY <2>2, <2>9 DEF ClaimNothing, Skip, Store, Requeue, Mark
  <2>10. CASE ParkRefused(l, e) \/ JobFails(l, e)
    BY <2>4, <2>10 DEF ParkRefused, JobFails
  <2> QED
    BY <2>1, <2>5, <2>6, <2>7, <2>8, <2>9, <2>10 DEF JobStep
<1>2. events' \in [Events -> Event]
  <2>1. CASE Claim(l, e)
    BY <1>0, <2>1 DEF Claim, Event, EventStatus, TypeOK
  <2>2. ASSUME NEW s \in EventStatus, SetStatus(e, s) PROVE events' \in [Events -> Event]
    BY <2>2 DEF SetStatus, Event, TypeOK
  <2>3. CASE Skip(l, e) \/ Finish(l, e) \/ Mark(l, e)
    BY <2>2, <2>3 DEF Skip, Finish, Mark, EventStatus
  <2>4. CASE Requeue(l, e)
    <3>1. [events[e] EXCEPT !.status = "QUEUED", !.due = "future"] \in Event
      BY <1>0 DEF Event, EventStatus, Due
    <3>2. events' = [events EXCEPT ![e] =
              [events[e] EXCEPT !.status = "QUEUED", !.due = "future"]]
      BY <2>4 DEF Requeue, TypeOK
    <3> QED
      BY <3>1, <3>2, EventType
  <2> QED
    BY <2>1, <2>3, <2>4 DEF JobStep, TypeOK, ClaimNothing, CheckDone, HandleSuccess,
       HandleFailure, Store, Park, ParkRefused, Reload, JobFails
<1>3. successes' \in [Loops -> [Events -> Nat]]
  <2>1. CASE HandleSuccess(l, e)
    BY <2>1 DEF HandleSuccess, TypeOK
  <2> QED
    BY <2>1 DEF JobStep, TypeOK, Claim, ClaimNothing, CheckDone, Skip, HandleFailure,
       Finish, Store, Requeue, Park, ParkRefused, Mark, Reload, JobFails
<1>4. dlq' \in Seq(Events)
  <2>1. CASE Park(l, e)
    BY <2>1, AppendProperties DEF Park, TypeOK
  <2> QED
    BY <2>1 DEF JobStep, TypeOK, Claim, ClaimNothing, CheckDone, Skip, HandleSuccess,
       HandleFailure, Finish, Store, Requeue, ParkRefused, Mark, Reload, JobFails
<1>5. done' \subseteq Events
  BY DEF JobStep, TypeOK, Claim, ClaimNothing, CheckDone, Skip, HandleSuccess,
     HandleFailure, Finish, Store, Requeue, Park, ParkRefused, Mark, Reload, JobFails
<1>6. used' \in [Things -> Nat]
  <2>1. CASE JobFails(l, e)
    BY <2>1, UseType DEF JobFails, Things
  <2> QED
    BY <2>1 DEF JobStep, TypeOK, Claim, ClaimNothing, CheckDone, Skip, HandleSuccess,
       HandleFailure, Finish, Store, Requeue, Park, ParkRefused, Mark, Reload
<1>7. JobFrame
  BY DEF JobStep, Claim, ClaimNothing, CheckDone, Skip, HandleSuccess,
     HandleFailure, Finish, Store, Requeue, Park, ParkRefused, Mark, Reload, JobFails
<1> QED
  BY <1>1, <1>2, <1>3, <1>4, <1>5, <1>6, <1>7 DEF JobFrame, TypeOK

LEMMA TypeNext == TypeOK /\ [Next]_vars => TypeOK'
<1> SUFFICES ASSUME TypeOK, [Next]_vars PROVE TypeOK'
  OBVIOUS
<1>1. CASE UNCHANGED vars
  BY <1>1 DEF vars, TypeOK
<1>2. CASE Next
  BY <1>2, PostNextType, WorkerNextType, LoopNextType, JobStepType, ReplayNextType,
     TimeType DEF Next
<1> QED
  BY <1>1, <1>2

\* Every variable of the pipeline keeps its type, whatever fails.
THEOREM TypeCorrect == Spec => []TypeOK
BY TypeInit, TypeNext, PTL DEF Spec

-----------------------------------------------------------------------------
(* What any step does to one job, to the records and to the losses.         *)

LEMMA LossesNat == ASSUME TypeOK PROVE Losses \in Nat
BY Fields DEF Losses, Things

LEMMA UseLosses ==
    ASSUME TypeOK, NEW t \in Things, Use(t)
    PROVE  Losses' = IF t \in {"crash", "fault", "expiry"} THEN Losses + 1 ELSE Losses
<1>1. /\ used[t] \in Nat /\ used["crash"] \in Nat /\ used["fault"] \in Nat
      /\ used["expiry"] \in Nat
  BY Fields DEF Things
<1>2. used'[t] = used[t] + 1 /\ \A s \in Things \ {t} : used'[s] = used[s]
  BY UseType
<1>3. CASE t = "crash"
  BY <1>1, <1>2, <1>3 DEF Losses, Things
<1>4. CASE t = "fault"
  BY <1>1, <1>2, <1>4 DEF Losses, Things
<1>5. CASE t = "expiry"
  BY <1>1, <1>2, <1>5 DEF Losses, Things
<1>6. CASE t \notin {"crash", "fault", "expiry"}
  BY <1>1, <1>2, <1>6 DEF Losses, Things
<1> QED
  BY <1>3, <1>4, <1>5, <1>6

\* The program points a job may move between without a loss; m and f are the job's.
Moves(m, f) ==
    \/ job'[m][f].pc = job[m][f].pc
    \/ job[m][f].pc = "check" /\ job'[m][f].pc = "handle" /\ f \notin done
    \/ job[m][f].pc = "check" /\ job'[m][f].pc = "skip" /\ f \in done
    \/ job[m][f].pc = "finish" /\ job'[m][f].pc = "store"
    \/ job[m][f].pc = "store" /\ job'[m][f].pc = "idle" /\ f \in done'
    \/ job[m][f].pc = "park" /\ job'[m][f].pc = "mark" /\ InDLQ(f)'
    \/ /\ job[m][f].pc \notin {"finish", "store"}
       /\ job'[m][f].pc \notin {"handle", "finish", "store", "skip", "mark"}

Calm(m, f) ==
    /\ Losses' = Losses /\ done \subseteq done'
    /\ successes'[m][f] = successes[m][f]
    /\ Moves(m, f)

Success(m, f) ==
    /\ Losses' = Losses /\ done' = done
    /\ job[m][f].pc = "handle" /\ job'[m][f].pc = "finish"
    /\ successes'[m][f] = successes[m][f] + 1

Loss(m, f) ==
    /\ Losses' = Losses + 1
    /\ successes'[m][f] = successes[m][f]
    /\ \/ job'[m][f].pc = job[m][f].pc
       \/ job'[m][f].pc \in {"idle", "reload"}

\* What a step of job <<l, e>> does to itself and, hence, to every other job.
LEMMA JobEffect ==
    ASSUME TypeOK, NEW l \in Loops, NEW e \in Events, JobStep(l, e),
           NEW m \in Loops, NEW f \in Events
    PROVE  Calm(m, f) \/ Success(m, f)
<1> USE DEF JobFrame
<1>0. /\ job[l][e] \in Job /\ events[e] \in Event
      /\ Losses' = Losses /\ done \subseteq done'
  <2>1. used' = used
    BY DEF JobStep, Claim, ClaimNothing, CheckDone, Skip, HandleSuccess, HandleFailure,
       Finish, Store, Requeue, Park, ParkRefused, Mark, Reload
  <2>2. done \subseteq done'
    BY DEF JobStep, Claim, ClaimNothing, CheckDone, Skip, HandleSuccess, HandleFailure,
       Finish, Store, Requeue, Park, ParkRefused, Mark, Reload
  <2> QED
    BY <2>1, <2>2, Fields DEF Losses
<1>1. CASE m # l \/ f # e
  <2>1. job'[m][f] = job[m][f]
    BY <1>1 DEF JobStep, Claim, ClaimNothing, CheckDone, Skip, HandleSuccess,
       HandleFailure, Finish, Store, Requeue, Park, ParkRefused, Mark, Reload, SetJob,
       Goto, EndJob, Throw, TypeOK
  <2>2. successes'[m][f] = successes[m][f]
    BY <1>1 DEF JobStep, Claim, ClaimNothing, CheckDone, Skip, HandleSuccess,
       HandleFailure, Finish, Store, Requeue, Park, ParkRefused, Mark, Reload, TypeOK
  <2> QED
    BY <1>0, <2>1, <2>2 DEF Calm, Moves
<1>2. CASE m = l /\ f = e
  <2>1. ASSUME NEW s \in JobSteps, Goto(l, e, s) PROVE job'[l][e].pc = s
    <3>1. /\ [job[l][e] EXCEPT !.pc = s] \in Job
          /\ [job[l][e] EXCEPT !.pc = s].pc = s
      BY JobMoves
    <3>2. job'[l][e] = [job[l][e] EXCEPT !.pc = s]
      BY <2>1, <3>1, JobType DEF Goto
    <3> QED
      BY <3>1, <3>2
  <2>2. ASSUME EndJob(l, e) PROVE job'[l][e].pc = "idle"
    <3>1. IdleJob \in Job /\ IdleJob.pc = "idle"
      BY JobMoves DEF IdleJob, NewJob
    <3>2. job'[l][e] = IdleJob
      BY <2>2, <3>1, JobType DEF EndJob
    <3> QED
      BY <3>1, <3>2
  <2>3. ASSUME SetJob(l, e, [job[l][e] EXCEPT !.pc = "reload", !.rescue = TRUE])
        PROVE  job'[l][e].pc = "reload"
    <3>1. /\ [job[l][e] EXCEPT !.pc = "reload", !.rescue = TRUE] \in Job
          /\ [job[l][e] EXCEPT !.pc = "reload", !.rescue = TRUE].pc = "reload"
      BY <1>0, JobMoves DEF Job
    <3>2. job'[l][e] = [job[l][e] EXCEPT !.pc = "reload", !.rescue = TRUE]
      BY <2>3, <3>1, JobType
    <3> QED
      BY <3>1, <3>2
  <2>4. CASE HandleSuccess(l, e)
    <3>1. job'[l][e].pc = "finish"
      BY <2>1, <2>4 DEF HandleSuccess, JobSteps
    <3>2. successes'[l][e] = successes[l][e] + 1
      BY <2>4 DEF HandleSuccess, TypeOK
    <3> QED
      BY <1>0, <1>2, <2>4, <3>1, <3>2 DEF Success, HandleSuccess
  <2>5. CASE ~HandleSuccess(l, e)
    <3>1. successes' = successes
      BY <2>5 DEF JobStep, Claim, ClaimNothing, CheckDone, Skip, HandleFailure, Finish,
         Store, Requeue, Park, ParkRefused, Mark, Reload
    <3>2. Moves(l, e)
      <4>1. CASE Claim(l, e)
        <5>1. [pc |-> "check", tries |-> Incremented(events[e].attempts),
               rescue |-> FALSE] \in Job
          BY <1>0, ConfigAssumption DEF Incremented, Event, Job, JobSteps, AttemptsCap
        <5>2. job'[l][e].pc = "check"
          BY <4>1, <5>1, JobType DEF Claim
        <5> QED
          BY <4>1, <5>2 DEF Claim, Moves
      <4>2. CASE ClaimNothing(l, e) \/ Skip(l, e) \/ Requeue(l, e) \/ Mark(l, e)
        BY <2>2, <4>2 DEF ClaimNothing, Skip, Requeue, Mark, Moves
      <4>3. CASE CheckDone(l, e)
        BY <2>1, <4>3 DEF CheckDone, AfterCheck, JobSteps, Moves
      <4>4. CASE HandleFailure(l, e)
        <5>1. AfterRetryable(job[l][e].tries) \in {"park", "requeue"}
          BY DEF AfterRetryable
        <5>2. job'[l][e].pc \in {"park", "requeue", "reload"}
          BY <2>1, <2>3, <4>4, <5>1 DEF HandleFailure, JobSteps
        <5> QED
          BY <4>4, <5>2 DEF HandleFailure, Moves
      <4>5. CASE Finish(l, e)
        BY <2>1, <4>5 DEF Finish, JobSteps, Moves
      <4>6. CASE Store(l, e)
        BY <2>2, <4>6 DEF Store, Moves
      <4>7. CASE Park(l, e)
        <5>1. InDLQ(e)'
          <6>1. /\ Len(dlq') = Len(dlq) + 1 /\ Len(dlq) \in Nat
                /\ dlq'[Len(dlq) + 1] = e
            BY <4>7, Fields, AppendProperties DEF Park, TypeOK
          <6> QED
            BY <6>1 DEF InDLQ
        <5> QED
          BY <2>1, <4>7, <5>1 DEF Park, JobSteps, Moves
      <4>8. CASE ParkRefused(l, e)
        BY <2>2, <2>3, <4>8 DEF ParkRefused, Throw, Moves
      <4>9. CASE Reload(l, e)
        <5>1. AfterRetryable(events[e].attempts) \in {"park", "requeue"}
          BY DEF AfterRetryable
        <5>2. [pc |-> AfterRetryable(events[e].attempts), tries |-> events[e].attempts,
               rescue |-> TRUE] \in Job
          BY <1>0, JobMoves DEF Event, Job
        <5>3. job'[l][e].pc = AfterRetryable(events[e].attempts)
          BY <4>9, <5>2, JobType DEF Reload
        <5> QED
          BY <4>9, <5>1, <5>3 DEF Reload, Moves
      <4> QED
        BY <2>5, <4>1, <4>2, <4>3, <4>4, <4>5, <4>6, <4>7, <4>8, <4>9 DEF JobStep
    <3> QED
      BY <1>0, <1>2, <3>1, <3>2 DEF Calm
  <2> QED
    BY <2>4, <2>5
<1> QED
  BY <1>1, <1>2

\* What any step does to any job.
LEMMA StepEffect ==
    ASSUME TypeOK, LoopInv, [Next]_vars, NEW m \in Loops, NEW f \in Events
    PROVE  Calm(m, f) \/ Success(m, f) \/ Loss(m, f)
<1>0. Losses \in Nat
  BY LossesNat
<1>1. ASSUME NEW t \in {"crash", "fault", "expiry"}, Use(t)
      PROVE  Losses' = Losses + 1
  BY <1>1, UseLosses DEF Things
<1>2. ASSUME UNCHANGED <<done, job, successes>>, Losses' = Losses PROVE Calm(m, f)
  BY <1>2 DEF Calm, Moves
<1>3. ASSUME UNCHANGED <<job, successes>>, Losses' = Losses + 1 PROVE Loss(m, f)
  BY <1>3 DEF Loss
<1>4. ASSUME used' = used PROVE Losses' = Losses
  BY <1>4 DEF Losses
<1>5. ASSUME NEW t \in {"request", "replay", "stop"}, Use(t) PROVE Losses' = Losses
  BY <1>5, UseLosses DEF Things
<1>6. CASE UNCHANGED vars
  BY <1>2, <1>4, <1>6 DEF vars
<1>7. ASSUME NEW p \in Posters, PostNext(p) PROVE Calm(m, f) \/ Loss(m, f)
  <2>1. CASE Post(p)
    BY <1>2, <1>5, <2>1 DEF Post
  <2>2. CASE PostCheck(p) \/ PostStore(p) \/ PostCreate(p)
    BY <1>2, <1>4, <2>2 DEF PostCheck, PostStore, PostCreate
  <2>3. CASE PostFails(p)
    BY <1>1, <1>3, <2>3 DEF PostFails
  <2> QED
    BY <1>7, <2>1, <2>2, <2>3 DEF PostNext
<1>8. ASSUME NEW w \in Workers, Start(w) \/ Stop(w) \/ Crash(w)
      PROVE  Calm(m, f) \/ Loss(m, f)
  <2>1. CASE Start(w)
    BY <1>2, <1>4, <2>1 DEF Start
  <2>2. CASE Stop(w)
    BY <1>2, <1>5, <2>2 DEF Stop
  <2>3. CASE Crash(w)
    <3>1. Losses' = Losses + 1 /\ successes' = successes
      BY <1>1, <2>3 DEF Crash
    <3>2. job'[m][f] = IF Owner[m] = w THEN IdleJob ELSE job[m][f]
      BY <2>3 DEF Crash
    <3> QED
      BY <3>1, <3>2 DEF Loss, IdleJob, NewJob
  <2> QED
    BY <1>8, <2>1, <2>2, <2>3
<1>9. ASSUME NEW l \in Loops, LoopNext(l) PROVE Calm(m, f) \/ Loss(m, f)
  <2>1. CASE Poll(l)
    <3>1. /\ job[l][f].pc = "idle" /\ Losses' = Losses
          /\ done' = done /\ successes' = successes
      BY <1>4, <2>1 DEF Poll, LoopInv
    <3>2. PICK B : job' = [job EXCEPT ![l] = [e \in Events |->
                              IF e \in B THEN NewJob("claim") ELSE IdleJob]]
      BY <2>1 DEF Poll
    <3>3. IF m = l THEN job'[m][f] \in {NewJob("claim"), IdleJob}
                   ELSE job'[m][f] = job[m][f]
      BY <3>2 DEF TypeOK
    <3> QED
      BY <3>1, <3>3 DEF Calm, Moves, NewJob, IdleJob
  <2>2. CASE PollFails(l)
    BY <1>1, <1>3, <2>2 DEF PollFails
  <2>3. CASE AwaitBatch(l) \/ Wake(l)
    BY <1>2, <1>4, <2>3 DEF AwaitBatch, Wake
  <2> QED
    BY <1>9, <2>1, <2>2, <2>3 DEF LoopNext
<1>10. ASSUME NEW l \in Loops, NEW e \in Events, JobFails(l, e) PROVE Loss(m, f)
  <2>1. Losses' = Losses + 1 /\ successes' = successes
    BY <1>1, <1>10 DEF JobFails
  <2>2. CASE m = l /\ f = e
    <3>1. job'[l][e].pc \in {"idle", "reload"}
      <4>1. CASE EndJob(l, e)
        <5>1. IdleJob \in Job /\ IdleJob.pc = "idle"
          BY JobMoves DEF IdleJob, NewJob
        <5>2. job'[l][e] = IdleJob
          BY <4>1, <5>1, JobType DEF EndJob
        <5> QED
          BY <5>1, <5>2
      <4>2. CASE SetJob(l, e, [job[l][e] EXCEPT !.pc = "reload", !.rescue = TRUE])
        <5>1. /\ [job[l][e] EXCEPT !.pc = "reload", !.rescue = TRUE] \in Job
              /\ [job[l][e] EXCEPT !.pc = "reload", !.rescue = TRUE].pc = "reload"
          BY Fields, JobMoves DEF Job
        <5>2. job'[l][e] = [job[l][e] EXCEPT !.pc = "reload", !.rescue = TRUE]
          BY <4>2, <5>1, JobType
        <5> QED
          BY <5>1, <5>2
      <4> QED
        BY <1>10, <4>1, <4>2 DEF JobFails, Throw
    <3> QED
      BY <2>1, <2>2, <3>1 DEF Loss
  <2>3. CASE m # l \/ f # e
    <3>1. job'[m][f] = job[m][f]
      BY <1>10, <2>3 DEF JobFails, Throw, EndJob, SetJob, TypeOK
    <3> QED
      BY <2>1, <3>1 DEF Loss
  <2> QED
    BY <2>2, <2>3
<1>11. ASSUME NEW r \in Replayers, ReplayNext(r) PROVE Calm(m, f) \/ Loss(m, f)
  <2>1. CASE Replay(r)
    BY <1>2, <1>5, <2>1 DEF Replay
  <2>2. CASE ReplayCheck(r) \/ ReplayReset(r)
    BY <1>2, <1>4, <2>2 DEF ReplayCheck, ReplayReset
  <2>3. CASE ReplayFails(r)
    BY <1>1, <1>3, <2>3 DEF ReplayFails
  <2> QED
    BY <1>11, <2>1, <2>2, <2>3 DEF ReplayNext
<1>12. ASSUME NEW e \in Events, Tick(e) \/ Expire(e) PROVE Calm(m, f) \/ Loss(m, f)
  <2>1. CASE Tick(e)
    BY <1>2, <1>4, <2>1 DEF Tick
  <2>2. CASE Expire(e)
    BY <1>1, <1>3, <2>2 DEF Expire
  <2> QED
    BY <1>12, <2>1, <2>2
<1> QED
  BY <1>6, <1>7, <1>8, <1>9, <1>10, <1>11, <1>12, JobEffect DEF Next

-----------------------------------------------------------------------------
(* The inductive invariant.                                                 *)

LEMMA IInit == Init => IInv
<1> SUFFICES ASSUME Init PROVE IInv
  OBVIOUS
<1>1. Losses = 0
  BY DEF Init, Losses, Things
<1>2. LoopInv
  BY DEF Init, LoopInv, IdleJob, NewJob
<1>3. HandlingInv
  BY <1>1 DEF Init, HandlingInv, IdleJob, NewJob
<1>4. ProcessedInv
  BY DEF Init, ProcessedInv, IdleJob, NewJob, NoEvent
<1>5. ParkedInv
  BY EmptySeq DEF Init, ParkedInv, IdleJob, NewJob, NoEvent
<1> QED
  BY <1>2, <1>3, <1>4, <1>5 DEF IInv

LEMMA LoopNextInv ==
    ASSUME TypeOK, LoopInv, [Next]_vars
    PROVE  LoopInv'
<1> SUFFICES ASSUME NEW m \in Loops, NEW f \in Events, loop'[m] # "batch"
             PROVE  job'[m][f].pc = "idle"
  BY DEF LoopInv
<1>1. ASSUME loop' = loop, job' = job PROVE job'[m][f].pc = "idle"
  BY <1>1 DEF LoopInv
<1>2. CASE UNCHANGED vars
  BY <1>1, <1>2 DEF vars
<1>3. ASSUME NEW p \in Posters, PostNext(p) PROVE job'[m][f].pc = "idle"
  BY <1>1, <1>3 DEF PostNext, Post, PostCheck, PostStore, PostCreate, PostFails
<1>4. ASSUME NEW w \in Workers, Start(w) \/ Stop(w) \/ Crash(w)
      PROVE  job'[m][f].pc = "idle"
  <2>1. CASE Start(w)
    BY <2>1 DEF Start, SetLoop, LoopInv, TypeOK
  <2>2. CASE Stop(w)
    BY <1>1, <2>2 DEF Stop
  <2>3. CASE Crash(w)
    BY <2>3 DEF Crash, LoopInv, IdleJob, NewJob
  <2> QED
    BY <1>4, <2>1, <2>2, <2>3
<1>5. ASSUME NEW l \in Loops, LoopNext(l) PROVE job'[m][f].pc = "idle"
  <2>1. CASE Poll(l)
    <3>1. PICK B :
            /\ job' = [job EXCEPT ![l] = [e \in Events |->
                              IF e \in B THEN NewJob("claim") ELSE IdleJob]]
            /\ SetLoop(l, IF B = {} THEN "sleep" ELSE "batch")
      BY <2>1 DEF Poll
    <3>2. CASE m = l
      <4>1. B = {}
        BY <3>1, <3>2 DEF SetLoop, TypeOK
      <4>2. job'[m][f] = IdleJob
        BY <3>1, <3>2, <4>1 DEF TypeOK
      <4> QED
        BY <4>2 DEF IdleJob, NewJob
    <3>3. CASE m # l
      BY <3>1, <3>3 DEF SetLoop, LoopInv, TypeOK
    <3> QED
      BY <3>2, <3>3
  <2>2. CASE PollFails(l)
    BY <2>2 DEF PollFails, SetLoop, LoopInv, TypeOK
  <2>3. CASE AwaitBatch(l)
    BY <2>3 DEF AwaitBatch, SetLoop, LoopInv, TypeOK
  <2>4. CASE Wake(l)
    BY <2>4 DEF Wake, SetLoop, LoopInv, TypeOK
  <2> QED
    BY <1>5, <2>1, <2>2, <2>3, <2>4 DEF LoopNext
<1>6. ASSUME NEW l \in Loops, NEW e \in Events, JobStep(l, e) \/ JobFails(l, e)
      PROVE  job'[m][f].pc = "idle"
  <2>1. loop' = loop
    BY <1>6 DEF JobStep, Claim, ClaimNothing, CheckDone, Skip, HandleSuccess,
       HandleFailure, Finish, Store, Requeue, Park, ParkRefused, Mark, Reload, JobFails,
       JobFrame
  <2>2. job[l][e].pc # "idle"
    BY <1>6 DEF JobStep, Claim, ClaimNothing, CheckDone, Skip, HandleSuccess,
       HandleFailure, Finish, Store, Requeue, Park, ParkRefused, Mark, Reload, JobFails,
       JobSteps
  <2>3. m # l
    BY <2>1, <2>2 DEF LoopInv
  <2>4. job'[m][f] = job[m][f]
    BY <1>6, <2>3 DEF JobStep, Claim, ClaimNothing, CheckDone, Skip, HandleSuccess,
       HandleFailure, Finish, Store, Requeue, Park, ParkRefused, Mark, Reload, JobFails,
       Throw, Goto, EndJob, SetJob, TypeOK
  <2> QED
    BY <2>1, <2>4 DEF LoopInv
<1>7. ASSUME NEW r \in Replayers, ReplayNext(r) PROVE job'[m][f].pc = "idle"
  BY <1>1, <1>7 DEF ReplayNext, Replay, ReplayCheck, ReplayReset, ReplayFails
<1>8. ASSUME NEW e \in Events, Tick(e) \/ Expire(e) PROVE job'[m][f].pc = "idle"
  BY <1>1, <1>8 DEF Tick, Expire
<1> QED
  BY <1>2, <1>3, <1>4, <1>5, <1>6, <1>7, <1>8 DEF Next

LEMMA HandlingNextInv ==
    ASSUME TypeOK, LoopInv, HandlingInv, [Next]_vars
    PROVE  HandlingInv'
<1> SUFFICES ASSUME NEW m \in Loops, NEW f \in Events
             PROVE  /\ successes'[m][f] <= 1 + Losses'
                    /\ f \notin done' /\ job'[m][f].pc \notin {"finish", "store"}
                           => successes'[m][f] <= Losses'
                    /\ job'[m][f].pc = "handle" => successes'[m][f] <= Losses'
  BY DEF HandlingInv
<1>1. Losses \in Nat /\ successes[m][f] \in Nat
  BY LossesNat, Fields
<1>2. /\ successes[m][f] <= 1 + Losses
      /\ f \notin done /\ job[m][f].pc \notin {"finish", "store"}
             => successes[m][f] <= Losses
      /\ job[m][f].pc = "handle" => successes[m][f] <= Losses
  BY DEF HandlingInv
<1>3. CASE Calm(m, f)
  BY <1>1, <1>2, <1>3 DEF Calm, Moves
<1>4. CASE Success(m, f)
  BY <1>1, <1>2, <1>4 DEF Success
<1>5. CASE Loss(m, f)
  BY <1>1, <1>2, <1>5 DEF Loss
<1> QED
  BY <1>3, <1>4, <1>5, StepEffect

\* Who may write a status, and who may add to the records and the DLQ.
LEMMA DocumentEffect ==
    ASSUME TypeOK, [Next]_vars, NEW f \in Events
    PROVE  /\ events'[f].status = "PROCESSED" =>
                \/ events[f].status = "PROCESSED"
                \/ \E l \in Loops : job[l][f].pc \in {"finish", "skip"}
           /\ events'[f].status = "DLQ" =>
                \/ events[f].status = "DLQ"
                \/ \E l \in Loops : job[l][f].pc = "mark"
           /\ f \in done' => f \in done \/ \E l \in Loops : job[l][f].pc = "store"
           /\ dlq' = dlq \/ \E e \in Events : ~InDLQ(e) /\ dlq' = Append(dlq, e)
<1> DEFINE Goal ==
        /\ events'[f].status = "PROCESSED" =>
                \/ events[f].status = "PROCESSED"
                \/ \E l \in Loops : job[l][f].pc \in {"finish", "skip"}
        /\ events'[f].status = "DLQ" =>
                \/ events[f].status = "DLQ"
                \/ \E l \in Loops : job[l][f].pc = "mark"
        /\ f \in done' => f \in done \/ \E l \in Loops : job[l][f].pc = "store"
        /\ dlq' = dlq \/ \E e \in Events : ~InDLQ(e) /\ dlq' = Append(dlq, e)
<1>1. ASSUME events' = events, done' = done, dlq' = dlq PROVE Goal
  BY <1>1
<1>2. ASSUME NEW s \in {"QUEUED", "PROCESSING"}, done' = done, dlq' = dlq,
             events'[f].status = events[f].status \/ events'[f].status = s
      PROVE  Goal
  BY <1>2
<1>3. events[f] \in Event
  BY Fields
<1>4. CASE UNCHANGED vars
  BY <1>1, <1>4 DEF vars
<1>5. ASSUME NEW p \in Posters, PostNext(p) PROVE Goal
  <2>1. CASE PostCreate(p)
    <3>1. events'[f].status = events[f].status \/ events'[f].status = "QUEUED"
      BY <2>1 DEF PostCreate, Queued, TypeOK
    <3> QED
      BY <1>2, <2>1, <3>1 DEF PostCreate
  <2> QED
    BY <1>1, <1>5, <2>1 DEF PostNext, Post, PostCheck, PostStore, PostFails
<1>6. ASSUME NEW w \in Workers, Start(w) \/ Stop(w) \/ Crash(w) PROVE Goal
  BY <1>1, <1>6 DEF Start, Stop, Crash
<1>7. ASSUME NEW l \in Loops, LoopNext(l) PROVE Goal
  BY <1>1, <1>7 DEF LoopNext, Poll, PollFails, AwaitBatch, Wake
<1>8. ASSUME NEW r \in Replayers, ReplayNext(r) PROVE Goal
  <2>1. CASE ReplayReset(r)
    <3>1. PICK i : events' = [events EXCEPT ![dlq[i]].status = "QUEUED",
                                 ![dlq[i]].attempts = 0, ![dlq[i]].due = "past"]
      BY <2>1 DEF ReplayReset
    <3>2. events'[f].status = events[f].status \/ events'[f].status = "QUEUED"
      BY <1>3, <3>1 DEF Event, TypeOK
    <3> QED
      BY <1>2, <2>1, <3>2 DEF ReplayReset
  <2> QED
    BY <1>1, <1>8, <2>1 DEF ReplayNext, Replay, ReplayCheck, ReplayFails
<1>9. ASSUME NEW e \in Events, Tick(e) \/ Expire(e) PROVE Goal
  <2>1. CASE Tick(e)
    <3>1. events'[f].status = events[f].status
      BY <1>3, <2>1 DEF Tick, Event, TypeOK
    <3> QED
      BY <2>1, <3>1 DEF Tick
  <2>2. CASE Expire(e)
    BY <2>2 DEF Expire
  <2> QED
    BY <1>9, <2>1, <2>2
<1>10. ASSUME NEW l \in Loops, NEW e \in Events, JobStep(l, e) \/ JobFails(l, e)
       PROVE  Goal
  <2>1. CASE Claim(l, e)
    <3>1. events'[f].status = events[f].status \/ events'[f].status = "PROCESSING"
      BY <1>3, <2>1 DEF Claim, Event, TypeOK
    <3> QED
      BY <1>2, <2>1, <3>1 DEF Claim
  <2>2. CASE Requeue(l, e)
    <3>1. events'[f].status = events[f].status \/ events'[f].status = "QUEUED"
      BY <1>3, <2>2 DEF Requeue, Event, TypeOK
    <3> QED
      BY <1>2, <2>2, <3>1 DEF Requeue
  <2>3. CASE Skip(l, e)
    <3>1. events'[f].status = events[f].status
          \/ (events'[f].status = "PROCESSED" /\ f = e)
      BY <1>3, <2>3 DEF Skip, SetStatus, Event, TypeOK
    <3> QED
      BY <2>3, <3>1 DEF Skip
  <2>4. CASE Finish(l, e)
    <3>1. events'[f].status = events[f].status
          \/ (events'[f].status = "PROCESSED" /\ f = e)
      BY <1>3, <2>4 DEF Finish, SetStatus, Event, TypeOK
    <3> QED
      BY <2>4, <3>1 DEF Finish
  <2>5. CASE Mark(l, e)
    <3>1. events'[f].status = events[f].status
          \/ (events'[f].status = "DLQ" /\ f = e)
      BY <1>3, <2>5 DEF Mark, SetStatus, Event, TypeOK
    <3> QED
      BY <2>5, <3>1 DEF Mark
  <2>6. CASE Store(l, e)
    BY <2>6 DEF Store
  <2>7. CASE Park(l, e)
    BY <2>7 DEF Park
  <2> QED
    BY <1>1, <1>10, <2>1, <2>2, <2>3, <2>4, <2>5, <2>6, <2>7 DEF JobStep, ClaimNothing,
       CheckDone, HandleSuccess, HandleFailure, ParkRefused, Reload, JobFails
<1> QED
  BY <1>4, <1>5, <1>6, <1>7, <1>8, <1>9, <1>10 DEF Next

LEMMA ProcessedNextInv ==
    ASSUME TypeOK, LoopInv, ProcessedInv, [Next]_vars
    PROVE  ProcessedInv'
<1> SUFFICES ASSUME NEW f \in Events
             PROVE  /\ events'[f].status = "PROCESSED" \/ f \in done' => Handled(f)'
                    /\ \A m \in Loops : job'[m][f].pc \in {"finish", "store", "skip"}
                                            => Handled(f)'
  BY DEF ProcessedInv
<1>1. ASSUME Handled(f) PROVE Handled(f)'
  <2>1. PICK m \in Loops : successes[m][f] > 0
    BY <1>1 DEF Handled
  <2>2. successes[m][f] \in Nat
    BY Fields
  <2>3. successes'[m][f] > 0
    BY <2>1, <2>2, StepEffect DEF Calm, Success, Loss
  <2> QED
    BY <2>3 DEF Handled
<1>2. events'[f].status = "PROCESSED" \/ f \in done' => Handled(f)
  BY DocumentEffect DEF ProcessedInv
<1>3. ASSUME NEW m \in Loops, job'[m][f].pc \in {"finish", "store", "skip"}
      PROVE  Handled(f)'
  <2>1. CASE Success(m, f)
    <3>1. successes[m][f] \in Nat
      BY Fields
    <3>2. successes'[m][f] > 0
      BY <2>1, <3>1 DEF Success
    <3> QED
      BY <3>2 DEF Handled
  <2>2. CASE Calm(m, f)
    <3>1. job[m][f].pc \in {"finish", "store", "skip"} \/ f \in done
      BY <1>3, <2>2 DEF Calm, Moves
    <3> QED
      BY <1>1, <3>1 DEF ProcessedInv
  <2>3. CASE Loss(m, f)
    <3>1. job[m][f].pc \in {"finish", "store", "skip"}
      BY <1>3, <2>3 DEF Loss
    <3> QED
      BY <1>1, <3>1 DEF ProcessedInv
  <2> QED
    BY <2>1, <2>2, <2>3, StepEffect
<1> QED
  BY <1>1, <1>2, <1>3

LEMMA ParkedNextInv ==
    ASSUME TypeOK, LoopInv, ParkedInv, [Next]_vars
    PROVE  ParkedInv'
<1>1. \A f \in Events : InDLQ(f) => InDLQ(f)'
  <2> SUFFICES ASSUME NEW f \in Events, InDLQ(f) PROVE InDLQ(f)'
    OBVIOUS
  <2>1. CASE dlq' = dlq
    BY <2>1 DEF InDLQ
  <2>2. ASSUME NEW e \in Events, dlq' = Append(dlq, e) PROVE InDLQ(f)'
    <3>1. PICK i \in 1..Len(dlq) : dlq[i] = f
      BY DEF InDLQ
    <3>2. /\ Len(dlq) \in Nat /\ Len(dlq') = Len(dlq) + 1 /\ dlq'[i] = dlq[i]
      BY <2>2, Fields, AppendProperties DEF TypeOK
    <3>3. i \in 1..Len(dlq')
      BY <3>2
    <3> QED
      BY <3>1, <3>2, <3>3 DEF InDLQ
  <2> QED
    BY <2>1, <2>2, DocumentEffect
<1>2. ASSUME NEW f \in Events,
             events'[f].status = "DLQ" \/ (\E l \in Loops : job'[l][f].pc = "mark")
      PROVE  InDLQ(f)'
  <2>1. CASE events'[f].status = "DLQ"
    BY <1>1, <2>1, DocumentEffect DEF ParkedInv
  <2>2. ASSUME NEW l \in Loops, job'[l][f].pc = "mark" PROVE InDLQ(f)'
    <3>1. job[l][f].pc = "mark" \/ InDLQ(f)'
      BY <2>2, StepEffect DEF Calm, Moves, Success, Loss
    <3> QED
      BY <1>1, <3>1 DEF ParkedInv
  <2> QED
    BY <1>2, <2>1, <2>2
<1>3. ASSUME NEW i \in 1..Len(dlq'), NEW j \in 1..Len(dlq'), dlq'[i] = dlq'[j]
      PROVE  i = j
  <2>0. dlq'[i] \in Events
    <3>1. dlq' \in Seq(Events)
      BY TypeNext DEF TypeOK
    <3> QED
      BY <3>1, ElementOfSeq
  <2>1. CASE dlq' = dlq
    BY <1>3, <2>1 DEF ParkedInv
  <2>2. ASSUME NEW e \in Events, ~InDLQ(e), dlq' = Append(dlq, e) PROVE i = j
    <3>1. /\ Len(dlq) \in Nat /\ Len(dlq') = Len(dlq) + 1
          /\ dlq'[Len(dlq) + 1] = e
          /\ \A k \in 1..Len(dlq) : dlq'[k] = dlq[k]
      BY <2>2, Fields, AppendProperties DEF TypeOK
    <3>2. \A k \in 1..Len(dlq) : dlq[k] # e
      BY <2>2 DEF InDLQ
    <3>3. /\ i \in 1..Len(dlq) \/ i = Len(dlq) + 1
          /\ j \in 1..Len(dlq) \/ j = Len(dlq) + 1
      BY <3>1
    <3> QED
      BY <1>3, <3>1, <3>2, <3>3 DEF ParkedInv
  <2> QED
    BY <2>0, <2>1, <2>2, DocumentEffect
<1> QED
  BY <1>2, <1>3 DEF ParkedInv

LEMMA INext == TypeOK /\ IInv /\ [Next]_vars => IInv'
BY LoopNextInv, HandlingNextInv, ProcessedNextInv, ParkedNextInv DEF IInv

\* The inductive invariant holds in every reachable state.
THEOREM Invariant == Spec => []IInv
BY IInit, INext, TypeInit, TypeNext, PTL DEF Spec

\* One poll loop brings the handler of an event to success at most once more than
\* there were crashes, failing database calls and expired records, however many
\* workers, restarts and replays compete for the event.
THEOREM HandledAtMostOncePerLoop == Spec => []HandlingBound
<1>1. IInv => HandlingBound
  BY DEF IInv, HandlingInv, HandlingBound
<1> QED
  BY <1>1, Invariant, PTL

\* No event is reported PROCESSED, or recorded as done, unless its handler did
\* succeed.
THEOREM NothingProcessedUnhandled == Spec => []ProcessedWasHandled
<1>1. IInv => ProcessedWasHandled
  BY DEF IInv, ProcessedInv, ProcessedWasHandled
<1> QED
  BY <1>1, Invariant, PTL

\* An event in status DLQ has one, and only one, record a replay can find.
THEOREM ParkedStaysReplayable == Spec => []ParkedIsReplayable
<1>1. IInv => ParkedIsReplayable
  BY DEF IInv, ParkedInv, ParkedIsReplayable
<1> QED
  BY <1>1, Invariant, PTL

-----------------------------------------------------------------------------
(* How many events a key queues.                                            *)

\* Only postEvent gives a document its key.
LEMMA KeyEffect ==
    ASSUME TypeOK, [Next]_vars, NEW f \in Events
    PROVE  \/ /\ events'[f].key = events[f].key
              /\ events'[f].status = "none" => events[f].status = "none"
           \/ \E p \in Posters : PostCreate(p)
<1>1. events[f] \in Event
  BY Fields
<1>2. CASE events' = events
  BY <1>2
<1>3. ASSUME NEW l \in Loops, NEW e \in Events,
             Claim(l, e) \/ Skip(l, e) \/ Finish(l, e) \/ Requeue(l, e) \/ Mark(l, e)
      PROVE  /\ events'[f].key = events[f].key
             /\ events'[f].status = "none" => events[f].status = "none"
  <2>1. CASE Claim(l, e)
    BY <1>1, <2>1 DEF Claim, Event, TypeOK
  <2>2. CASE Skip(l, e) \/ Finish(l, e) \/ Mark(l, e)
    <3>1. PICK x \in {"PROCESSED", "DLQ"} : events' = [events EXCEPT ![e].status = x]
      BY <2>2 DEF Skip, Finish, Mark, SetStatus
    <3> QED
      BY <1>1, <3>1 DEF Event, TypeOK
  <2>3. CASE Requeue(l, e)
    BY <1>1, <2>3 DEF Requeue, Event, TypeOK
  <2> QED
    BY <1>3, <2>1, <2>2, <2>3
<1>4. ASSUME NEW e \in Events, Tick(e)
      PROVE  /\ events'[f].key = events[f].key
             /\ events'[f].status = "none" => events[f].status = "none"
  BY <1>1, <1>4 DEF Tick, Event, TypeOK
<1>5. ASSUME NEW r \in Replayers, ReplayReset(r)
      PROVE  /\ events'[f].key = events[f].key
             /\ events'[f].status = "none" => events[f].status = "none"
  <2>1. PICK i : events' = [events EXCEPT ![dlq[i]].status = "QUEUED",
                               ![dlq[i]].attempts = 0, ![dlq[i]].due = "past"]
    BY <1>5 DEF ReplayReset
  <2> QED
    BY <1>1, <2>1 DEF Event, TypeOK
<1>6. CASE UNCHANGED vars
  BY <1>2, <1>6 DEF vars
<1>7. ASSUME NEW p \in Posters, PostNext(p)
      PROVE  events' = events \/ PostCreate(p)
  BY <1>7 DEF PostNext, Post, PostCheck, PostStore, PostFails
<1>8. ASSUME NEW w \in Workers, Start(w) \/ Stop(w) \/ Crash(w) PROVE events' = events
  BY <1>8 DEF Start, Stop, Crash
<1>9. ASSUME NEW l \in Loops, LoopNext(l) PROVE events' = events
  BY <1>9 DEF LoopNext, Poll, PollFails, AwaitBatch, Wake
<1>10. ASSUME NEW r \in Replayers, ReplayNext(r) PROVE events' = events \/ ReplayReset(r)
  BY <1>10 DEF ReplayNext, Replay, ReplayCheck, ReplayFails
<1>11. ASSUME NEW e \in Events, Expire(e) PROVE events' = events
  BY <1>11 DEF Expire
<1>12. ASSUME NEW l \in Loops, NEW e \in Events, JobStep(l, e) \/ JobFails(l, e)
       PROVE  \/ events' = events
              \/ Claim(l, e) \/ Skip(l, e) \/ Finish(l, e) \/ Requeue(l, e) \/ Mark(l, e)
  BY <1>12 DEF JobStep, ClaimNothing, CheckDone, HandleSuccess, HandleFailure, Store,
     Park, ParkRefused, Reload, JobFails
<1> QED
  BY <1>2, <1>3, <1>4, <1>5, <1>6, <1>7, <1>8, <1>9, <1>10, <1>11, <1>12 DEF Next

\* Requests, their keys and their counts move in postEvent alone.
LEMMA PostEffect ==
    ASSUME [Next]_vars
    PROVE  \/ post' = post /\ keys' = keys /\ peak' = peak
           \/ \E p \in Posters : PostNext(p)
<1>1. ASSUME NEW l \in Loops, NEW e \in Events, JobStep(l, e) \/ JobFails(l, e)
      PROVE  post' = post /\ keys' = keys /\ peak' = peak
  BY <1>1 DEF JobStep, Claim, ClaimNothing, CheckDone, Skip, HandleSuccess,
     HandleFailure, Finish, Store, Requeue, Park, ParkRefused, Mark, Reload, JobFails,
     JobFrame
<1> QED
  BY <1>1 DEF Next, vars, Start, Stop, Crash, LoopNext, Poll, PollFails, AwaitBatch, Wake,
     ReplayNext, Replay, ReplayCheck, ReplayReset, ReplayFails, Tick, Expire

\* One more element makes a set larger by at most one.
LEMMA AddedCount ==
    ASSUME NEW S, NEW x, IsFiniteSet(S)
    PROVE  IsFiniteSet(S \cup {x}) /\ Cardinality(S \cup {x}) <= Cardinality(S) + 1
<1>1. /\ IsFiniteSet(S \cup {x})
      /\ Cardinality(S \cup {x}) = IF x \in S THEN Cardinality(S) ELSE Cardinality(S) + 1
  BY FS_AddElement
<1>2. Cardinality(S) \in Nat
  BY FS_CardinalityType
<1> QED
  BY <1>1, <1>2

\* The sets that are counted are finite.
LEMMA KeyCounts ==
    ASSUME NEW k
    PROVE  /\ IsFiniteSet(InFlight(k)) /\ Cardinality(InFlight(k)) \in Nat
           /\ IsFiniteSet(Creating(k)) /\ Cardinality(Creating(k)) \in Nat
           /\ IsFiniteSet(Named(k)) /\ Cardinality(Named(k)) \in Nat
           /\ Cardinality(Creating(k)) <= Cardinality(InFlight(k))
           /\ IsFiniteSet(InFlight(k)') /\ Cardinality(InFlight(k)') \in Nat
           /\ IsFiniteSet(Creating(k)') /\ Cardinality(Creating(k)') \in Nat
           /\ IsFiniteSet(Named(k)') /\ Cardinality(Named(k)') \in Nat
           /\ Cardinality(Creating(k)') <= Cardinality(InFlight(k)')
<1>1. /\ InFlight(k) \subseteq Posters /\ Creating(k) \subseteq InFlight(k)
      /\ Named(k) \subseteq Events
      /\ InFlight(k)' \subseteq Posters /\ Creating(k)' \subseteq InFlight(k)'
      /\ Named(k)' \subseteq Events
  BY DEF InFlight, Creating, Named
<1>2. /\ IsFiniteSet(InFlight(k)) /\ IsFiniteSet(Named(k))
      /\ IsFiniteSet(InFlight(k)') /\ IsFiniteSet(Named(k)')
  BY <1>1, FiniteAssumption, FS_Subset
<1>3. /\ IsFiniteSet(Creating(k)) /\ Cardinality(Creating(k)) <= Cardinality(InFlight(k))
      /\ IsFiniteSet(Creating(k)') /\ Cardinality(Creating(k)') <= Cardinality(InFlight(k)')
  BY <1>1, <1>2, FS_Subset
<1> QED
  BY <1>2, <1>3, FS_CardinalityType

\* The two conditions on the counts of a key.
KeyOK(k) ==
    /\ Cardinality(InFlight(k)) <= peak[k]
    /\ Cardinality(Named(k)) + Cardinality(Creating(k)) <= peak[k]

\* Sets that do not grow keep the counts below the peak.
LEMMA CountsKept ==
    ASSUME NEW k \in Keys, KeyOK(k), peak \in [Keys -> Nat], peak'[k] = peak[k],
           InFlight(k)' \subseteq InFlight(k), Creating(k)' \subseteq Creating(k),
           Named(k)' \subseteq Named(k)
    PROVE  KeyOK(k)'
<1>1. /\ Cardinality(InFlight(k)') <= Cardinality(InFlight(k))
      /\ Cardinality(Creating(k)') <= Cardinality(Creating(k))
      /\ Cardinality(Named(k)') <= Cardinality(Named(k))
  BY KeyCounts, FS_Subset
<1> QED
  BY <1>1, KeyCounts DEF KeyOK

\* What one call of postEvent does to the counts of a key.
LEMMA PostCounts ==
    ASSUME TypeOK, KeyInv, NEW p \in Posters, PostNext(p), NEW k \in Keys
    PROVE  KeyOK(k)'
<1>0. /\ KeyOK(k) /\ peak \in [Keys -> Nat] /\ IdlePost.pc = "idle" /\ IdlePost.key = Null
      /\ k # Null /\ post \in [Posters -> PostCall]
      /\ post[p].pc # "idle" => \A s \in {"store", "create"} :
              /\ [post[p] EXCEPT !.pc = s].pc = s
              /\ [post[p] EXCEPT !.pc = s].key = post[p].key
  BY ConfigAssumption DEF KeyInv, KeyOK, TypeOK, IdlePost, PostCall
<1>1. CASE Post(p)
  <2>1. PICK j \in Keys, e \in Events :
           /\ post' = [post EXCEPT ![p] = [pc |-> "check", key |-> j, event |-> e]]
           /\ peak' = [peak EXCEPT ![j] =
                  IF @ > Cardinality(InFlight(j)) THEN @ ELSE Cardinality(InFlight(j)) + 1]
    BY <1>1 DEF Post, SetPost
  <2>2. post[p].pc = "idle" /\ events' = events
    BY <1>1 DEF Post
  <2>3. Creating(k)' \subseteq Creating(k) /\ Named(k)' = Named(k)
    BY <1>0, <2>1, <2>2 DEF Creating, InFlight, Named
  <2>4. CASE j # k
    <3>1. InFlight(k)' \subseteq InFlight(k) /\ peak'[k] = peak[k]
      BY <1>0, <2>1, <2>4 DEF InFlight
    <3> QED
      BY <1>0, <2>3, <3>1, CountsKept
  <2>5. CASE j = k
    <3>1. InFlight(k)' \subseteq InFlight(k) \cup {p}
      BY <1>0, <2>1 DEF InFlight
    <3>2. Cardinality(InFlight(k)') <= Cardinality(InFlight(k)) + 1
      <4>1. IsFiniteSet(InFlight(k) \cup {p})
            /\ Cardinality(InFlight(k) \cup {p}) <= Cardinality(InFlight(k)) + 1
        BY KeyCounts, AddedCount
      <4>2. Cardinality(InFlight(k)') <= Cardinality(InFlight(k) \cup {p})
        BY <3>1, <4>1, FS_Subset
      <4>3. Cardinality(InFlight(k) \cup {p}) \in Nat
        BY <4>1, FS_CardinalityType
      <4> QED
        BY <4>1, <4>2, <4>3, KeyCounts
    <3>3. peak'[k] = IF peak[k] > Cardinality(InFlight(k)) THEN peak[k]
                     ELSE Cardinality(InFlight(k)) + 1
      BY <1>0, <2>1, <2>5
    <3>4. Cardinality(InFlight(k)') <= peak'[k] /\ peak[k] <= peak'[k] /\ peak'[k] \in Nat
      BY <1>0, <3>2, <3>3, KeyCounts DEF KeyOK
    <3>5. Cardinality(Creating(k)') <= Cardinality(Creating(k))
      BY <2>3, KeyCounts, FS_Subset
    <3> QED
      BY <1>0, <2>3, <3>4, <3>5, KeyCounts DEF KeyOK
  <2> QED
    BY <2>4, <2>5
<1>2. CASE PostCheck(p)
  <2>1. post[p].pc = "check" /\ peak' = peak /\ events' = events
    BY <1>2 DEF PostCheck
  <2>2. CASE post[p].key \in keys
    <3>1. post' = [post EXCEPT ![p] = IdlePost]
      BY <1>2, <2>2 DEF PostCheck, Known, SetPost
    <3>2. /\ InFlight(k)' \subseteq InFlight(k) /\ Creating(k)' \subseteq Creating(k)
          /\ Named(k)' = Named(k)
      BY <1>0, <2>1, <3>1 DEF InFlight, Creating, Named
    <3> QED
      BY <1>0, <2>1, <3>2, CountsKept
  <2>3. CASE post[p].key \notin keys
    <3>1. post' = [post EXCEPT ![p] = [post[p] EXCEPT !.pc = "store"]]
      BY <1>2, <2>3 DEF PostCheck, Known, SetPost
    <3>2. InFlight(k)' = InFlight(k) /\ Named(k)' = Named(k)
      BY <1>0, <2>1, <3>1 DEF InFlight, Named
    <3>3. CASE post[p].key # k
      <4>1. Creating(k)' \subseteq Creating(k)
        BY <1>0, <2>1, <3>1, <3>3 DEF InFlight, Creating
      <4> QED
        BY <1>0, <2>1, <3>2, <4>1, CountsKept
    <3>4. CASE post[p].key = k
      <4>1. Named(k) = {}
        BY <1>0, <2>3, <3>4 DEF KeyInv, Named
      <4>2. Cardinality(Named(k)') = 0
        BY <3>2, <4>1, FS_EmptySet
      <4> QED
        BY <1>0, <2>1, <3>2, <4>2, KeyCounts DEF KeyOK
    <3> QED
      BY <3>3, <3>4
  <2> QED
    BY <2>2, <2>3
<1>3. CASE PostStore(p)
  <2>1. /\ post[p].pc = "store" /\ peak' = peak /\ events' = events
        /\ post' = [post EXCEPT ![p] = [post[p] EXCEPT !.pc = "create"]]
    BY <1>3 DEF PostStore, SetPost
  <2>2. /\ InFlight(k)' = InFlight(k) /\ Creating(k)' = Creating(k)
        /\ Named(k)' = Named(k)
    BY <1>0, <2>1 DEF InFlight, Creating, Named
  <2> QED
    BY <1>0, <2>1, <2>2, CountsKept
<1>4. CASE PostCreate(p)
  <2>1. /\ post[p].pc = "create" /\ peak' = peak
        /\ post' = [post EXCEPT ![p] = IdlePost]
    BY <1>4 DEF PostCreate, SetPost
  <2>2. InFlight(k)' \subseteq InFlight(k) /\ Creating(k)' \subseteq Creating(k) \ {p}
    BY <1>0, <2>1 DEF InFlight, Creating
  <2>3. CASE Named(k)' \subseteq Named(k)
    BY <1>0, <2>1, <2>2, <2>3, CountsKept
  <2>4. CASE ~(Named(k)' \subseteq Named(k))
    <3>0. post[p].event \in Events
      <4>1. post[p] \in PostCall /\ post[p] # IdlePost
        BY <1>0, <2>1
      <4> QED
        BY <4>1 DEF PostCall
    <3>1. PICK e \in Events : e = post[p].event
      BY <3>0
    <3>2. post[p].key = k /\ Named(k)' \subseteq Named(k) \cup {e}
      BY <1>4, <2>4, <3>1 DEF PostCreate, Queued, Named, TypeOK
    <3>3. p \in Creating(k)
      BY <2>1, <3>2 DEF Creating, InFlight
    <3>4. Cardinality(Named(k)') <= Cardinality(Named(k)) + 1
      <4>1. IsFiniteSet(Named(k) \cup {e})
            /\ Cardinality(Named(k) \cup {e}) <= Cardinality(Named(k)) + 1
        BY KeyCounts, AddedCount
      <4>2. Cardinality(Named(k)') <= Cardinality(Named(k) \cup {e})
        BY <3>2, <4>1, FS_Subset
      <4>3. Cardinality(Named(k) \cup {e}) \in Nat
        BY <4>1, FS_CardinalityType
      <4> QED
        BY <4>1, <4>2, <4>3, KeyCounts
    <3>5. Cardinality(Creating(k)') <= Cardinality(Creating(k)) - 1
      <4>1. IsFiniteSet(Creating(k) \ {p})
            /\ Cardinality(Creating(k) \ {p}) = Cardinality(Creating(k)) - 1
        BY <3>3, KeyCounts, FS_RemoveElement
      <4> QED
        BY <2>2, <4>1, FS_Subset
    <3>6. Cardinality(InFlight(k)') <= Cardinality(InFlight(k))
      BY <2>2, KeyCounts, FS_Subset
    <3> QED
      BY <1>0, <2>1, <3>4, <3>5, <3>6, KeyCounts DEF KeyOK
  <2> QED
    BY <2>3, <2>4
<1>5. CASE PostFails(p)
  <2>1. peak' = peak /\ events' = events /\ post' = [post EXCEPT ![p] = IdlePost]
    BY <1>5 DEF PostFails, SetPost
  <2>2. /\ InFlight(k)' \subseteq InFlight(k) /\ Creating(k)' \subseteq Creating(k)
        /\ Named(k)' = Named(k)
    BY <1>0, <2>1 DEF InFlight, Creating, Named
  <2> QED
    BY <1>0, <2>1, <2>2, CountsKept
<1> QED
  BY <1>1, <1>2, <1>3, <1>4, <1>5 DEF PostNext

\* What one call of postEvent does to the stored keys.
LEMMA PostKeys ==
    ASSUME TypeOK, KeyInv, NEW p \in Posters, PostNext(p)
    PROVE  /\ \A e \in Events : events'[e].key \in keys' \cup {Null}
           /\ \A q \in Posters : post'[q].pc = "create" => post'[q].key \in keys'
<1>0. /\ IdlePost.pc = "idle" /\ post \in [Posters -> PostCall]
      /\ post[p].pc # "idle" => \A s \in {"store", "create"} :
              /\ [post[p] EXCEPT !.pc = s].pc = s
              /\ [post[p] EXCEPT !.pc = s].key = post[p].key
      /\ \A e \in Events : events[e].key \in keys \cup {Null}
      /\ \A q \in Posters : post[q].pc = "create" => post[q].key \in keys
  BY DEF KeyInv, TypeOK, IdlePost, PostCall
<1>1. keys \subseteq keys' /\ \A q \in Posters : q # p => post'[q] = post[q]
  BY <1>0 DEF PostNext, Post, PostCheck, PostStore, PostCreate, PostFails, SetPost
<1>2. post'[p].pc = "create" => post'[p].key \in keys'
  <2>1. CASE Post(p)
    BY <1>0, <2>1 DEF Post, SetPost
  <2>2. CASE PostCheck(p)
    <3>1. post'[p] = IdlePost \/ (post'[p] = [post[p] EXCEPT !.pc = "store"] /\ post[p].pc # "idle")
      BY <1>0, <2>2 DEF PostCheck, SetPost
    <3> QED
      BY <1>0, <3>1
  <2>3. CASE PostStore(p)
    BY <1>0, <2>3 DEF PostStore, SetPost
  <2>4. CASE PostCreate(p) \/ PostFails(p)
    BY <1>0, <2>4 DEF PostCreate, PostFails, SetPost
  <2> QED
    BY <2>1, <2>2, <2>3, <2>4 DEF PostNext
<1>3. \A e \in Events : events'[e].key \in keys' \cup {Null}
  <2>1. CASE PostCreate(p)
    <3>1. post[p].key \in keys /\ keys' = keys
      BY <1>0, <2>1 DEF PostCreate
    <3>2. \A e \in Events : events'[e].key \in {events[e].key, post[p].key}
      BY <2>1 DEF PostCreate, Queued, TypeOK
    <3> QED
      BY <1>0, <3>1, <3>2
  <2>2. CASE ~PostCreate(p)
    <3>1. events' = events
      BY <2>2 DEF PostNext, Post, PostCheck, PostStore, PostFails
    <3> QED
      BY <1>0, <1>1, <3>1
  <2> QED
    BY <2>1, <2>2
<1> QED
  BY <1>0, <1>1, <1>2, <1>3

LEMMA KeyStep ==
    ASSUME TypeOK, KeyInv, [Next]_vars
    PROVE  KeyInv'
<1>1. CASE \E p \in Posters : PostNext(p)
  BY <1>1, PostKeys, PostCounts DEF KeyInv, KeyOK
<1>2. CASE ~\E p \in Posters : PostNext(p)
  <2>1. post' = post /\ keys' = keys /\ peak' = peak
    BY <1>2, PostEffect
  <2>2. \A e \in Events : events'[e].key = events[e].key
    BY <1>2, KeyEffect DEF PostNext
  <2>3. \A k \in Keys : /\ InFlight(k)' = InFlight(k) /\ Creating(k)' = Creating(k)
                        /\ Named(k)' = Named(k)
    BY <2>1, <2>2 DEF InFlight, Creating, Named
  <2> QED
    BY <2>1, <2>2, <2>3 DEF KeyInv
<1> QED
  BY <1>1, <1>2

\* However many requests are served at once, and whatever fails in between, a key
\* queues no more events than requests with it were ever in flight at one time
\* (postEvent).
THEOREM EventsPerKey == Spec => []EventsPerKeyBounded
<1>1. Init => KeyInv
  <2> SUFFICES ASSUME Init PROVE KeyInv
    OBVIOUS
  <2>1. /\ \A e \in Events : events[e].key = Null
        /\ \A p \in Posters : post[p].pc = "idle" /\ post[p].key = Null
        /\ \A k \in Keys : peak[k] = 0
    BY DEF Init, NoEvent, IdlePost
  <2>2. \A k \in Keys : InFlight(k) = {} /\ Creating(k) = {} /\ Named(k) = {}
    BY <2>1, ConfigAssumption DEF InFlight, Creating, Named
  <2>3. \A k \in Keys : /\ Cardinality(InFlight(k)) = 0 /\ Cardinality(Creating(k)) = 0
                        /\ Cardinality(Named(k)) = 0
    BY <2>2, FS_EmptySet
  <2> QED
    BY <2>1, <2>3 DEF KeyInv
<1>2. TypeOK /\ KeyInv /\ [Next]_vars => KeyInv'
  BY KeyStep
<1>3. TypeOK /\ KeyInv => EventsPerKeyBounded
  <2>1. ASSUME TypeOK, KeyInv, NEW k \in Keys PROVE Cardinality(Named(k)) <= peak[k]
    BY <2>1, KeyCounts DEF KeyInv, TypeOK
  <2> QED
    BY <2>1 DEF EventsPerKeyBounded
<1> QED
  BY <1>1, <1>2, <1>3, TypeCorrect, PTL DEF Spec

-----------------------------------------------------------------------------
(* The retry budget of a lone loop.                                         *)

LEMMA NoMishap ==
    ASSUME TypeOK, LoneLoop
    PROVE  ~Use("fault") /\ ~Use("crash")
<1>1. used["fault"] \in Nat /\ used["crash"] \in Nat
  BY Fields DEF Things
<1> QED
  BY <1>1 DEF Use, Limit, LoneLoop

LEMMA UsedEffect ==
    ASSUME [Next]_vars
    PROVE  used' = used \/ \E t \in Things : Use(t)
<1>1. ASSUME NEW l \in Loops, NEW e \in Events, JobStep(l, e) PROVE used' = used
  BY <1>1 DEF JobStep, Claim, ClaimNothing, CheckDone, Skip, HandleSuccess,
     HandleFailure, Finish, Store, Requeue, Park, ParkRefused, Mark, Reload
<1>2. \A t \in {"request", "replay", "stop", "crash", "fault", "expiry"} : t \in Things
  BY DEF Things
<1>3. ASSUME NEW p \in Posters, PostNext(p) PROVE used' = used \/ \E t \in Things : Use(t)
  BY <1>2, <1>3 DEF PostNext, Post, PostCheck, PostStore, PostCreate, PostFails
<1>4. ASSUME NEW w \in Workers, Start(w) \/ Stop(w) \/ Crash(w)
      PROVE  used' = used \/ \E t \in Things : Use(t)
  BY <1>2, <1>4 DEF Start, Stop, Crash
<1>5. ASSUME NEW l \in Loops, LoopNext(l) PROVE used' = used \/ \E t \in Things : Use(t)
  BY <1>2, <1>5 DEF LoopNext, Poll, PollFails, AwaitBatch, Wake
<1>6. ASSUME NEW r \in Replayers, ReplayNext(r)
      PROVE  used' = used \/ \E t \in Things : Use(t)
  BY <1>2, <1>6 DEF ReplayNext, Replay, ReplayCheck, ReplayReset, ReplayFails
<1>7. ASSUME NEW e \in Events, Tick(e) \/ Expire(e)
      PROVE  used' = used \/ \E t \in Things : Use(t)
  BY <1>2, <1>7 DEF Tick, Expire
<1>8. ASSUME NEW l \in Loops, NEW e \in Events, JobFails(l, e)
      PROVE  used' = used \/ \E t \in Things : Use(t)
  BY <1>2, <1>8 DEF JobFails
<1> QED
  BY <1>1, <1>3, <1>4, <1>5, <1>6, <1>7, <1>8 DEF Next, vars

\* A replay that was called stays called.
LEMMA ReplayedStays == ASSUME TypeOK, [Next]_vars, Replayed PROVE Replayed'
<1>1. used["replay"] \in Nat
  BY Fields DEF Things
<1>2. ASSUME NEW t \in Things, Use(t) PROVE used'["replay"] \in {used["replay"], used["replay"] + 1}
  BY <1>2, UseType DEF Things
<1> QED
  BY <1>1, <1>2, UsedEffect DEF Replayed

\* What BudgetInv says of one event, when nobody has called replay.
EventBudget(e) ==
    /\ events[e].attempts <= MaxRetryAttempts
    /\ events[e].status = "QUEUED" => events[e].attempts < MaxRetryAttempts
    /\ \A l \in Loops : JobBudget(l, e)

\* An event that nothing touches keeps its budget.
LEMMA BudgetFrame ==
    ASSUME NEW f \in Events, EventBudget(f), events'[f] = events[f],
           \A l \in Loops : job'[l][f] = job[l][f], InDLQ(f)' => InDLQ(f)
    PROVE  EventBudget(f)'
BY DEF EventBudget, JobBudget

\* One step of the only loop's job for event e.
LEMMA BudgetJob ==
    ASSUME TypeOK, LoneLoop, NEW l \in Loops, NEW e \in Events, JobStep(l, e), EventBudget(e)
    PROVE  EventBudget(e)'
<1> USE DEF JobFrame
<1>0. /\ job[l][e] \in Job /\ events[e] \in Event /\ \A m \in Loops : m = l
      /\ events[e].attempts \in Nat /\ job[l][e].tries \in Nat
      /\ MaxRetryAttempts \in Nat \ {0}
  BY Fields, ConfigAssumption DEF LoneLoop, Job, Event, AttemptsCap
<1>1. /\ events[e].attempts <= MaxRetryAttempts
      /\ events[e].status = "QUEUED" => events[e].attempts < MaxRetryAttempts
      /\ JobBudget(l, e)
  BY DEF EventBudget
<1>2. ASSUME NEW s \in JobSteps, Goto(l, e, s)
      PROVE  job'[l][e].pc = s /\ job'[l][e].tries = job[l][e].tries
  <2>1. /\ [job[l][e] EXCEPT !.pc = s] \in Job
        /\ [job[l][e] EXCEPT !.pc = s].pc = s
        /\ [job[l][e] EXCEPT !.pc = s].tries = job[l][e].tries
    BY <1>0, JobMoves DEF Job
  <2>2. job'[l][e] = [job[l][e] EXCEPT !.pc = s]
    BY <1>2, <2>1, JobType DEF Goto
  <2> QED
    BY <2>1, <2>2
<1>3. ASSUME EndJob(l, e) PROVE job'[l][e].pc = "idle"
  <2>1. IdleJob \in Job /\ IdleJob.pc = "idle"
    BY JobMoves DEF IdleJob, NewJob
  <2>2. job'[l][e] = IdleJob
    BY <1>3, <2>1, JobType DEF EndJob
  <2> QED
    BY <2>1, <2>2
<1>4. ASSUME events'[e].attempts <= MaxRetryAttempts,
             events'[e].status = "QUEUED" => events'[e].attempts < MaxRetryAttempts,
             JobBudget(l, e)'
      PROVE  EventBudget(e)'
  BY <1>0, <1>4 DEF EventBudget
<1>5. ASSUME dlq' = dlq PROVE InDLQ(e)' <=> InDLQ(e)
  BY <1>5 DEF InDLQ
<1>6. CASE Claim(l, e)
  <2>1. events[e].status = "QUEUED" /\ events[e].attempts < MaxRetryAttempts
    BY <1>1, <1>6 DEF Claim, JobBudget
  <2>2. Incremented(events[e].attempts) = events[e].attempts + 1
    BY <1>0, <2>1 DEF Incremented, AttemptsCap
  <2>3. /\ events'[e].status = "PROCESSING"
        /\ events'[e].attempts = events[e].attempts + 1
    BY <1>0, <1>6, <2>2 DEF Claim, Event, TypeOK
  <2>4. /\ job'[l][e].pc = "check" /\ job'[l][e].tries = events[e].attempts + 1
    <3>1. SetJob(l, e, [pc |-> "check", tries |-> events[e].attempts + 1, rescue |-> FALSE])
      BY <1>6, <2>2 DEF Claim
    <3>2. [pc |-> "check", tries |-> events[e].attempts + 1, rescue |-> FALSE] \in Job
      BY <1>0, <2>1 DEF Job, JobSteps, AttemptsCap
    <3> QED
      BY <3>1, <3>2, JobType
  <2>5. ~InDLQ(e) /\ ~InDLQ(e)'
    BY <1>1, <1>5, <1>6, <2>1 DEF Claim, JobBudget
  <2>6. JobBudget(l, e)'
    BY <2>3, <2>4, <2>5 DEF JobBudget
  <2> QED
    BY <1>0, <1>4, <2>1, <2>3, <2>6
<1>7. CASE ClaimNothing(l, e)
  BY <1>1, <1>7 DEF ClaimNothing, JobBudget
<1>8. CASE CheckDone(l, e)
  <2>1. AfterCheck(l, e) \in {"skip", "handle"}
    BY DEF AfterCheck
  <2>2. job'[l][e].pc \in {"skip", "handle"} /\ job'[l][e].tries = job[l][e].tries
    BY <1>2, <1>8, <2>1 DEF CheckDone, JobSteps
  <2>3. events' = events /\ dlq' = dlq /\ job[l][e].pc = "check"
    BY <1>8 DEF CheckDone
  <2>4. JobBudget(l, e)'
    BY <1>1, <1>5, <2>2, <2>3 DEF JobBudget
  <2> QED
    BY <1>1, <1>4, <2>3, <2>4
<1>9. CASE Skip(l, e)
  <2>1. /\ job[l][e].pc = "skip" /\ job'[l][e].pc = "idle" /\ dlq' = dlq
        /\ events'[e].status = "PROCESSED" /\ events'[e].attempts = events[e].attempts
    BY <1>0, <1>3, <1>9 DEF Skip, SetStatus, Event, TypeOK
  <2>2. JobBudget(l, e)'
    BY <1>1, <1>5, <2>1 DEF JobBudget
  <2> QED
    BY <1>1, <1>4, <2>1, <2>2
<1>10. CASE HandleSuccess(l, e)
  <2>1. /\ job[l][e].pc = "handle" /\ job'[l][e].pc = "finish"
        /\ events' = events /\ dlq' = dlq
    BY <1>2, <1>10 DEF HandleSuccess, JobSteps
  <2>2. JobBudget(l, e)'
    BY <1>1, <1>5, <2>1 DEF JobBudget
  <2> QED
    BY <1>1, <1>4, <2>1, <2>2
<1>11. CASE HandleFailure(l, e)
  <2>1. /\ job[l][e].pc = "handle" /\ events' = events /\ dlq' = dlq
        /\ job[l][e].tries = events[e].attempts
    BY <1>1, <1>11 DEF HandleFailure, JobBudget
  <2>2. \/ job'[l][e].pc = "park" \/ job'[l][e].pc = "reload"
        \/ job'[l][e].pc = "requeue" /\ events[e].attempts < MaxRetryAttempts
    <3>1. CASE Goto(l, e, AfterRetryable(job[l][e].tries))
      <4>1. \/ AfterRetryable(job[l][e].tries) = "park"
            \/ /\ AfterRetryable(job[l][e].tries) = "requeue"
               /\ events[e].attempts < MaxRetryAttempts
        BY <1>0, <2>1 DEF AfterRetryable
      <4> QED
        BY <1>2, <3>1, <4>1 DEF JobSteps
    <3>2. CASE Goto(l, e, "park")
      BY <1>2, <3>2 DEF JobSteps
    <3>3. CASE SetJob(l, e, [job[l][e] EXCEPT !.pc = "reload", !.rescue = TRUE])
      <4>1. /\ [job[l][e] EXCEPT !.pc = "reload", !.rescue = TRUE] \in Job
            /\ [job[l][e] EXCEPT !.pc = "reload", !.rescue = TRUE].pc = "reload"
        BY <1>0, JobMoves DEF Job
      <4>2. job'[l][e] = [job[l][e] EXCEPT !.pc = "reload", !.rescue = TRUE]
        BY <3>3, <4>1, JobType
      <4> QED
        BY <4>1, <4>2
    <3> QED
      BY <1>11, <3>1, <3>2, <3>3 DEF HandleFailure
  <2>3. JobBudget(l, e)'
    BY <1>1, <1>5, <2>1, <2>2 DEF JobBudget
  <2> QED
    BY <1>1, <1>4, <2>1, <2>3
<1>12. CASE Finish(l, e)
  <2>1. /\ job[l][e].pc = "finish" /\ job'[l][e].pc = "store" /\ dlq' = dlq
        /\ events'[e].status = "PROCESSED" /\ events'[e].attempts = events[e].attempts
    BY <1>0, <1>2, <1>12 DEF Finish, SetStatus, Event, TypeOK, JobSteps
  <2>2. JobBudget(l, e)'
    BY <1>1, <1>5, <2>1 DEF JobBudget
  <2> QED
    BY <1>1, <1>4, <2>1, <2>2
<1>13. CASE Store(l, e)
  <2>1. /\ job[l][e].pc = "store" /\ job'[l][e].pc = "idle" /\ dlq' = dlq
        /\ events' = events
    BY <1>3, <1>13 DEF Store
  <2>2. JobBudget(l, e)'
    BY <1>1, <1>5, <2>1 DEF JobBudget
  <2> QED
    BY <1>1, <1>4, <2>1, <2>2
<1>14. CASE Requeue(l, e)
  <2>1. /\ job[l][e].pc = "requeue" /\ job'[l][e].pc = "idle" /\ dlq' = dlq
        /\ events'[e].status = "QUEUED" /\ events'[e].attempts = events[e].attempts
    BY <1>0, <1>3, <1>14 DEF Requeue, Event, TypeOK
  <2>2. JobBudget(l, e)' /\ events[e].attempts < MaxRetryAttempts
    BY <1>1, <1>5, <2>1 DEF JobBudget
  <2> QED
    BY <1>1, <1>4, <2>1, <2>2
<1>15. CASE Park(l, e)
  <2>1. /\ job[l][e].pc = "park" /\ job'[l][e].pc = "mark" /\ events' = events
    BY <1>2, <1>15 DEF Park, JobSteps
  <2>2. JobBudget(l, e)'
    BY <1>1, <2>1 DEF JobBudget
  <2> QED
    BY <1>1, <1>4, <2>1, <2>2
<1>16. CASE ParkRefused(l, e)
  BY <1>1, <1>16 DEF ParkRefused, JobBudget
<1>17. CASE Mark(l, e)
  <2>1. /\ job[l][e].pc = "mark" /\ job'[l][e].pc = "idle" /\ dlq' = dlq
        /\ events'[e].status = "DLQ" /\ events'[e].attempts = events[e].attempts
    BY <1>0, <1>3, <1>17 DEF Mark, SetStatus, Event, TypeOK
  <2>2. JobBudget(l, e)'
    BY <1>1, <1>5, <2>1 DEF JobBudget
  <2> QED
    BY <1>1, <1>4, <2>1, <2>2
<1>18. CASE Reload(l, e)
  <2>1. events' = events /\ dlq' = dlq /\ job[l][e].pc = "reload"
    BY <1>18 DEF Reload
  <2>2. PICK s \in JobSteps : s = AfterRetryable(events[e].attempts)
    BY <1>0, JobMoves DEF Event
  <2>3. job'[l][e].pc = s
    <3>1. [pc |-> s, tries |-> events[e].attempts, rescue |-> TRUE] \in Job
      BY <1>0, <2>2 DEF Job, Event
    <3>2. SetJob(l, e, [pc |-> s, tries |-> events[e].attempts, rescue |-> TRUE])
      BY <1>18, <2>2 DEF Reload
    <3> QED
      BY <3>1, <3>2, JobType
  <2>4. s = "park" \/ (s = "requeue" /\ events[e].attempts < MaxRetryAttempts)
    <3>1. CASE events[e].attempts >= MaxRetryAttempts
      <4>1. s = "park"
        BY <2>2, <3>1 DEF AfterRetryable
      <4> QED
        BY <4>1
    <3>2. CASE ~(events[e].attempts >= MaxRetryAttempts)
      <4>1. s = "requeue"
        BY <2>2, <3>2 DEF AfterRetryable
      <4> QED
        BY <1>0, <3>2, <4>1
    <3> QED
      BY <3>1, <3>2
  <2>5. JobBudget(l, e)'
    BY <1>1, <1>5, <2>1, <2>3, <2>4 DEF JobBudget
  <2> QED
    BY <1>1, <1>4, <2>1, <2>5
<1> QED
  BY <1>6, <1>7, <1>8, <1>9, <1>10, <1>11, <1>12, <1>13, <1>14, <1>15, <1>16, <1>17,
     <1>18 DEF JobStep

LEMMA BudgetStep ==
    ASSUME TypeOK, LoopInv, BudgetInv, LoneLoop, [Next]_vars
    PROVE  BudgetInv'
<1>1. CASE Replayed
  BY <1>1, ReplayedStays DEF BudgetInv
<1>2. CASE Replayed'
  BY <1>2 DEF BudgetInv
<1>3. CASE ~Replayed /\ ~Replayed'
  <2>1. /\ \A r \in Replayers : replay[r] = IdleReplay
        /\ \A e \in Events : EventBudget(e)
    BY <1>3 DEF BudgetInv, EventBudget
  <2>2. ASSUME replay' = replay, \A e \in Events : EventBudget(e)' PROVE BudgetInv'
    BY <2>1, <2>2 DEF BudgetInv, EventBudget
  <2>3. ASSUME replay' = replay, events' = events, job' = job, dlq' = dlq PROVE BudgetInv'
    BY <2>1, <2>2, <2>3, BudgetFrame DEF InDLQ
  <2>4. ASSUME NEW p \in Posters, PostNext(p) PROVE BudgetInv'
    <3>1. CASE Post(p) \/ PostCheck(p) \/ PostStore(p) \/ PostFails(p)
      BY <2>3, <3>1 DEF Post, PostCheck, PostStore, PostFails
    <3>2. CASE PostCreate(p)
      <4>1. ASSUME NEW f \in Events PROVE EventBudget(f)'
        <5>1. CASE events'[f] = events[f]
          BY <2>1, <3>2, <5>1, BudgetFrame DEF PostCreate, InDLQ
        <5>2. CASE events'[f] # events[f]
          <6>1. /\ events[f].status = "none" /\ events'[f].status = "QUEUED"
                /\ events'[f].attempts = 0 /\ job' = job /\ dlq' = dlq
            BY <3>2, <5>2 DEF PostCreate, Queued, TypeOK
          <6>2. ASSUME NEW l \in Loops PROVE JobBudget(l, f)'
            BY <2>1, <6>1 DEF JobBudget, EventBudget, InDLQ
          <6> QED
            BY <6>1, <6>2, ConfigAssumption DEF EventBudget
        <5> QED
          BY <5>1, <5>2
      <4> QED
        BY <2>2, <3>2, <4>1 DEF PostCreate
    <3> QED
      BY <2>4, <3>1, <3>2 DEF PostNext
  <2>5. ASSUME NEW w \in Workers, Start(w) \/ Stop(w) PROVE BudgetInv'
    BY <2>3, <2>5 DEF Start, Stop
  <2>6. ASSUME NEW l \in Loops, LoopNext(l) PROVE BudgetInv'
    <3>1. CASE PollFails(l) \/ AwaitBatch(l) \/ Wake(l)
      BY <2>3, <3>1 DEF PollFails, AwaitBatch, Wake
    <3>2. CASE Poll(l)
      <4>1. PICK B \in Batches : job' = [job EXCEPT ![l] = [e \in Events |->
                                     IF e \in B THEN NewJob("claim") ELSE IdleJob]]
        BY <3>2 DEF Poll
      <4>2. events' = events /\ dlq' = dlq /\ replay' = replay
        BY <3>2 DEF Poll
      <4>3. ASSUME NEW f \in Events PROVE EventBudget(f)'
        <5>1. job[l][f].pc = "idle" /\ JobBudget(l, f) /\ \A m \in Loops : m = l
          BY <2>1, <3>2 DEF Poll, LoopInv, EventBudget, LoneLoop
        <5>2. f \in B => events[f].status = "QUEUED"
          BY <5>1 DEF Batches, Ready, JobBudget
        <5>3. job'[l][f].pc = IF f \in B THEN "claim" ELSE "idle"
          BY <4>1 DEF NewJob, IdleJob, TypeOK
        <5>4. JobBudget(l, f)'
          BY <4>2, <5>1, <5>2, <5>3 DEF JobBudget, InDLQ
        <5> QED
          BY <2>1, <4>2, <5>1, <5>4 DEF EventBudget
      <4> QED
        BY <2>2, <4>2, <4>3
    <3> QED
      BY <2>6, <3>1, <3>2 DEF LoopNext
  <2>7. ASSUME NEW l \in Loops, NEW e \in Events, JobStep(l, e) PROVE BudgetInv'
    <3>1. EventBudget(e)'
      BY <2>1, <2>7, BudgetJob
    <3>2. ASSUME NEW f \in Events, f # e PROVE EventBudget(f)'
      <4>1. events'[f] = events[f]
        BY <2>7, <3>2 DEF JobStep, Claim, ClaimNothing, CheckDone, Skip, HandleSuccess,
           HandleFailure, Finish, Store, Requeue, Park, ParkRefused, Mark, Reload,
           SetStatus, TypeOK
      <4>2. ASSUME NEW m \in Loops PROVE job'[m][f] = job[m][f]
        <5>1. \E j : job' = [job EXCEPT ![l][e] = j]
          <6>1. CASE Claim(l, e) \/ HandleFailure(l, e) \/ ParkRefused(l, e) \/ Reload(l, e)
            BY <6>1 DEF Claim, HandleFailure, ParkRefused, Reload, Throw, Goto, EndJob, SetJob
          <6>2. CASE ClaimNothing(l, e) \/ CheckDone(l, e) \/ Skip(l, e) \/ HandleSuccess(l, e)
            BY <6>2 DEF ClaimNothing, CheckDone, Skip, HandleSuccess, Goto, EndJob, SetJob
          <6>3. CASE Finish(l, e) \/ Store(l, e) \/ Requeue(l, e) \/ Park(l, e) \/ Mark(l, e)
            BY <6>3 DEF Finish, Store, Requeue, Park, Mark, Goto, EndJob, SetJob
          <6> QED
            BY <2>7, <6>1, <6>2, <6>3 DEF JobStep
        <5> QED
          BY <3>2, <5>1 DEF TypeOK
      <4>3. dlq' = dlq \/ dlq' = Append(dlq, e)
        BY <2>7 DEF JobStep, Claim, ClaimNothing, CheckDone, Skip, HandleSuccess,
           HandleFailure, Finish, Store, Requeue, Park, ParkRefused, Mark, Reload
      <4>4. InDLQ(f)' => InDLQ(f)
        <5>1. CASE dlq' = dlq
          BY <5>1 DEF InDLQ
        <5>2. CASE dlq' = Append(dlq, e)
          <6>1. /\ Len(dlq) \in Nat /\ Len(dlq') = Len(dlq) + 1
                /\ dlq'[Len(dlq) + 1] = e
                /\ \A k \in 1..Len(dlq) : dlq'[k] = dlq[k]
            BY <5>2, Fields, AppendProperties DEF TypeOK
          <6>2. \A i \in 1..Len(dlq') : i \in 1..Len(dlq) \/ i = Len(dlq) + 1
            BY <6>1
          <6> QED
            BY <3>2, <6>1, <6>2 DEF InDLQ
        <5> QED
          BY <4>3, <5>1, <5>2
      <4> QED
        BY <2>1, <4>1, <4>2, <4>4, BudgetFrame
    <3>3. replay' = replay
      BY <2>7 DEF JobStep, Claim, ClaimNothing, CheckDone, Skip, HandleSuccess,
         HandleFailure, Finish, Store, Requeue, Park, ParkRefused, Mark, Reload, JobFrame
    <3> QED
      BY <2>2, <3>1, <3>2, <3>3
  <2>8. ASSUME NEW r \in Replayers, ReplayNext(r) PROVE FALSE
    <3>1. replay[r].todo = {} /\ replay[r].checked = FALSE
      BY <2>1 DEF IdleReplay
    <3>2. Oldest(r) = {}
      BY <3>1 DEF Oldest
    <3>3. ~Use("replay")
      <4>1. used["replay"] \in Nat
        BY Fields DEF Things
      <4> QED
        BY <1>3, <4>1, UseType DEF Replayed, Things
    <3> QED
      BY <2>8, <3>1, <3>2, <3>3 DEF ReplayNext, Replay, ReplayCheck, ReplayReset, ReplayFails
  <2>9. ASSUME NEW e \in Events, Tick(e) PROVE BudgetInv'
    <3>1. /\ replay' = replay /\ job' = job /\ dlq' = dlq
          /\ \A f \in Events : /\ events'[f].status = events[f].status
                               /\ events'[f].attempts = events[f].attempts
      BY <2>9, Fields DEF Tick, TypeOK, Event
    <3>2. ASSUME NEW f \in Events PROVE EventBudget(f)'
      BY <2>1, <3>1 DEF EventBudget, JobBudget, InDLQ
    <3> QED
      BY <2>2, <3>1, <3>2
  <2>10. ASSUME NEW e \in Events, Expire(e) PROVE BudgetInv'
    BY <2>3, <2>10 DEF Expire
  <2>11. CASE UNCHANGED vars
    BY <2>3, <2>11 DEF vars
  <2>12. /\ \A w \in Workers : ~Crash(w)
         /\ \A l \in Loops, e \in Events : ~JobFails(l, e)
    BY NoMishap DEF Crash, JobFails
  <2> QED
    BY <2>4, <2>5, <2>6, <2>7, <2>8, <2>9, <2>10, <2>11, <2>12 DEF Next
<1> QED
  BY <1>1, <1>2, <1>3

\* A worker alone, that neither dies nor loses its database, tries no event more
\* than maxRetryAttempts times before it parks it, until somebody replays one
\* (processEvent, handleProcessingResult).
THEOREM BudgetKept ==
    ASSUME LoneLoop
    PROVE  Spec => []RetryBudget
<1>1. Init => BudgetInv
  <2> SUFFICES ASSUME Init PROVE BudgetInv
    OBVIOUS
  <2>1. \A e \in Events : events[e] = NoEvent /\ ~InDLQ(e)
    BY EmptySeq DEF Init, InDLQ
  <2>2. \A l \in Loops, e \in Events : job[l][e].pc = "idle"
    BY DEF Init, IdleJob, NewJob
  <2> QED
    BY <2>1, <2>2, ConfigAssumption DEF Init, BudgetInv, JobBudget, NoEvent
<1>2. TypeOK /\ IInv /\ BudgetInv /\ [Next]_vars => BudgetInv'
  BY BudgetStep DEF IInv
<1>3. BudgetInv => RetryBudget
  BY DEF BudgetInv, RetryBudget
<1> QED
  BY <1>1, <1>2, <1>3, TypeCorrect, Invariant, PTL DEF Spec
=============================================================================
