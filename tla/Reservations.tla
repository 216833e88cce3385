------------------------------ MODULE Reservations ------------------------------
(***************************************************************************)
(* Point reservations (src/src/reservations/service.ts): callers create,   *)
(* commit and release them, a scheduled job marks those that have run out, *)
(* and MongoDB deletes every document whose time has come.  A statement of *)
(* the database is one step, but updateMany goes from document to document,*)
(* and an answer may be lost on its way back.                              *)
(***************************************************************************)
EXTENDS Naturals, FiniteSets

CONSTANTS
    Ids,        \* reservationId, chosen by the callers, who may choose one again
    Calls,      \* the calls of a behaviour, each made once
    MaxTime,    \* bound: clock
    Null        \* no call

ASSUME ReservationBounds == MaxTime \in Nat /\ Ids # {}
ASSUME ReservationNull == Null \notin Calls

VARIABLES
    docs,       \* ReservationModel: the document under each id
    now,        \* new Date()
    pc,         \* where call c is
    req,        \* req[c]: its request
    todo,       \* todo[c]: documents a started updateMany is bound to come to
    told,       \* told[c]: the document commit or release returned
    made        \* history: the create calls that inserted a document

vars == <<docs, now, pc, req, todo, told, made>>

-----------------------------------------------------------------------------

Status == {"ACTIVE", "COMMITTED", "RELEASED", "EXPIRED"}
Times == 0..MaxTime

\* by: the call that created the document, the identity of a reservation.
Doc == [by: Calls, status: Status, expires: Times]
NoDoc == [by |-> Null, status |-> "EXPIRED", expires |-> 0]
Exists(id) == docs[id].by # Null
Active(id) == Exists(id) /\ docs[id].status = "ACTIVE"

\* at: the `now` of a sweep, taken before its statement is sent.
Request == [kind: {"none", "create", "commit", "release", "sweep"},
            id: Ids, expires: Times, at: Times]

Told == [by: Calls, status: {"COMMITTED", "RELEASED"}] \cup {NoDoc}

Init ==
    /\ docs = [id \in Ids |-> NoDoc]
    /\ now = 0
    /\ pc = [c \in Calls |-> "idle"]
    /\ req = [c \in Calls |-> [kind |-> "none", id |-> CHOOSE id \in Ids : TRUE,
                               expires |-> 0, at |-> 0]]
    /\ todo = [c \in Calls |-> {}]
    /\ told = [c \in Calls |-> NoDoc]
    /\ made = {}

At(c, step) == pc[c] = step
Goto(c, step) == pc' = [pc EXCEPT ![c] = step]
Kind(c) == req[c].kind

\* The document the filter of commit and release finds (bug: look for the id alone).
AnyStatus(id) == Exists(id)
Commitable(id) == Active(id)

\* The filter of markExpiredReservations (bug: expire whatever the status).
RunOutWhatever(id, at) == Exists(id) /\ docs[id].expires <= at
RunOut(id, at) == Active(id) /\ docs[id].expires <= at

\* What the TTL index deletes: documents of every status (bug: only finished ones).
FinishedOnly(id) == Exists(id) /\ ~Active(id) /\ docs[id].expires <= now
Deletable(id) == Exists(id) /\ docs[id].expires <= now

-----------------------------------------------------------------------------
(* The calls of the service.                                                *)

Call(c) ==
    /\ At(c, "idle")
    /\ \E kind \in {"create", "commit", "release", "sweep"}, id \in Ids :
          \E t \in IF kind = "create" THEN Times ELSE {0} :
             req' = [req EXCEPT ![c] = [kind |-> kind, id |-> id, expires |-> t, at |-> now]]
    /\ Goto(c, "sent")
    /\ UNCHANGED <<docs, now, todo, told, made>>

\* The answer arrives, or the call throws although its statement took effect.
Answer(c) == Goto(c, "returned") \/ Goto(c, "thrown")

\* The connection or the process fails before the statement has an effect.
Fail(c) ==
    /\ At(c, "sent")
    /\ Goto(c, "thrown")
    /\ UNCHANGED <<docs, now, req, todo, told, made>>

\* createReservation: the id is unique among the documents that are there.
Insert(c) ==
    /\ At(c, "sent") /\ Kind(c) = "create"
    /\ \/ /\ ~Exists(req[c].id)
          /\ docs' = [docs EXCEPT ![req[c].id] =
                 [by |-> c, status |-> "ACTIVE", expires |-> req[c].expires]]
          /\ made' = made \cup {c}
          /\ Answer(c)
       \/ /\ Exists(req[c].id)
          /\ Goto(c, "thrown")
          /\ UNCHANGED <<docs, made>>
    /\ UNCHANGED <<now, req, todo, told>>

Outcome(c) == IF Kind(c) = "commit" THEN "COMMITTED" ELSE "RELEASED"

\* commitReservation and releaseReservation; neither looks at expiresAt.
Update(c) ==
    LET id == req[c].id IN
    /\ At(c, "sent") /\ Kind(c) \in {"commit", "release"}
    /\ \/ /\ Commitable(id)
          /\ docs' = [docs EXCEPT ![id] =
                 [by |-> docs[id].by, status |-> Outcome(c), expires |-> docs[id].expires]]
          /\ \/ /\ told' = [told EXCEPT ![c] = [by |-> docs[id].by, status |-> Outcome(c)]]
                /\ Goto(c, "returned")
             \/ Goto(c, "thrown") /\ UNCHANGED told
       \/ ~Commitable(id) /\ Goto(c, "returned") /\ UNCHANGED <<docs, told>>
    /\ UNCHANGED <<now, req, todo, made>>

\* markExpiredReservations: the database comes to every document that matched when
\* it began, and perhaps to some that match later.
SweepStart(c) ==
    /\ At(c, "sent") /\ Kind(c) = "sweep"
    /\ todo' = [todo EXCEPT ![c] = {docs[id] : id \in {i \in Ids : RunOut(i, req[c].at)}}]
    /\ Goto(c, "sweeping")
    /\ UNCHANGED <<docs, now, req, told, made>>

SweepOne(c, id) ==
    /\ At(c, "sweeping")
    /\ RunOut(id, req[c].at)
    /\ docs' = [docs EXCEPT ![id] =
           [by |-> docs[id].by, status |-> "EXPIRED", expires |-> docs[id].expires]]
    /\ todo' = [todo EXCEPT ![c] = todo[c] \ {docs[id]}]
    /\ UNCHANGED <<now, pc, req, told, made>>

\* It ends when none of them is left as it was, or fails halfway.
SweepEnd(c) ==
    /\ At(c, "sweeping")
    /\ \/ (\A id \in Ids : docs[id] \notin todo[c]) /\ Goto(c, "returned")
       \/ Goto(c, "thrown")
    /\ todo' = [todo EXCEPT ![c] = {}]
    /\ UNCHANGED <<docs, now, req, told, made>>

-----------------------------------------------------------------------------
(* MongoDB and the clock.                                                   *)

TtlDelete(id) ==
    /\ Deletable(id)
    /\ docs' = [docs EXCEPT ![id] = NoDoc]
    /\ UNCHANGED <<now, pc, req, todo, told, made>>

Tick ==
    /\ now < MaxTime
    /\ now' = now + 1
    /\ UNCHANGED <<docs, pc, req, todo, told, made>>

Next ==
    \/ \E c \in Calls :
          \/ Call(c) \/ Fail(c) \/ Insert(c) \/ Update(c)
          \/ SweepStart(c) \/ SweepEnd(c)
          \/ \E id \in Ids : SweepOne(c, id)
    \/ \E id \in Ids : TtlDelete(id)
    \/ Tick

Spec == Init /\ [][Next]_vars

\* Time goes on, and the TTL monitor deletes what it may; nobody is obliged to
\* call the service, the scheduled job included.
Fairness == WF_vars(Tick) /\ \A id \in Ids : WF_vars(TtlDelete(id))
FairSpec == Spec /\ Fairness

-----------------------------------------------------------------------------
(* Properties.                                                              *)

TypeOK ==
    /\ docs \in [Ids -> Doc \cup {NoDoc}]
    /\ now \in Times
    /\ pc \in [Calls -> {"idle", "sent", "sweeping", "returned", "thrown"}]
    /\ req \in [Calls -> Request]
    /\ \A c \in Calls : todo[c] \subseteq {d \in Doc : d.status = "ACTIVE"}
    /\ told \in [Calls -> Told]
    /\ made \subseteq Calls

\* The state of the reservation made by call c.
StateOf(c) ==
    IF c \notin made THEN "none"
    ELSE IF docs[req[c].id].by = c THEN docs[req[c].id].status
    ELSE "deleted"

\* Why it lives as it should.  A call that inserted is over, and the document of it
\* is under the id it asked for.
DocInv ==
    /\ \A c \in made : pc[c] \in {"returned", "thrown"} /\ Kind(c) = "create"
    /\ \A id \in Ids : Exists(id) =>
           /\ docs[id].by \in made
           /\ req[docs[id].by].id = id
           /\ req[docs[id].by].expires = docs[id].expires
\* No sweep is ahead of the clock, and what it expired had run out.
ClockInv ==
    /\ \A c \in Calls : req[c].at <= now
    /\ \A id \in Ids : docs[id].status = "EXPIRED" => docs[id].expires <= now
\* What callers were told of a reservation is true, or it is deleted.
ToldInv ==
    /\ \A c \in Calls : pc[c] \in {"idle", "sent"} => told[c] = NoDoc
    /\ \A c \in Calls : told[c] # NoDoc =>
           /\ told[c].by \in made
           /\ StateOf(told[c].by) \in {told[c].status, "deleted"}
    /\ \A c, d \in Calls :
           told[c] # NoDoc /\ told[d] # NoDoc /\ told[c].by = told[d].by =>
               told[c] = told[d]

IInv == TypeOK /\ DocInv /\ ClockInv /\ ToldInv

Lifecycle == INSTANCE ReservationLifecycle WITH
    Reservations <- Calls,
    Times        <- Times,
    clock        <- now,
    state        <- [c \in Calls |-> StateOf(c)],
    due          <- [c \in Calls |-> IF c \in made THEN req[c].expires ELSE 0],
    answers      <- {[of |-> told[c].by, as |-> told[c].status] :
                        c \in {d \in Calls : told[d] # NoDoc}}

\* Commits, releases, sweeps and deletions of reservations, in any order and with
\* answers lost, give each the life that ReservationLifecycle describes.
ImplementsLifecycle == Lifecycle!Spec

\* Nobody is told two outcomes of one reservation, or one that it does not have.
OneOutcome == Lifecycle!OneOutcome

\* No reservation keeps its points reserved forever, though nobody commits,
\* releases or expires it (the TTL index of reservation.model.ts).
ActiveEnds == \A id \in Ids : Active(id) ~> ~Active(id)
=============================================================================
