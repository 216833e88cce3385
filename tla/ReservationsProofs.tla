-------------------------- MODULE ReservationsProofs --------------------------
(***************************************************************************)
(* Reservations implements ReservationLifecycle: a proof for every set of  *)
(* ids, calls and times.  Documents come and go and their ids are used     *)
(* again, so the reservation a document stands for is the call that made   *)
(* it; the invariant ties the document to that call.                       *)
(***************************************************************************)
EXTENDS Reservations, TLAPS

USE DEF At, Goto, Kind, Exists, Active

-----------------------------------------------------------------------------
(* Types.                                                                   *)

LEMMA InitType == Init => TypeOK
<1> SUFFICES ASSUME Init PROVE TypeOK
  OBVIOUS
<1>1. (CHOOSE id \in Ids : TRUE) \in Ids
  BY ReservationBounds
<1>2. 0 \in Times
  BY ReservationBounds DEF Times
<1> QED
  BY <1>1, <1>2 DEF Init, TypeOK, Request, Told

LEMMA TypeStep ==
    ASSUME TypeOK, [Next]_vars
    PROVE  TypeOK'
<1> USE DEF TypeOK
<1>1. ASSUME NEW c \in Calls, Call(c) PROVE TypeOK'
  <2>1. 0 \in Times
    BY ReservationBounds DEF Times
  <2>2. PICK kind \in {"create", "commit", "release", "sweep"}, id \in Ids, t \in Times :
           req' = [req EXCEPT ![c] = [kind |-> kind, id |-> id, expires |-> t, at |-> now]]
    BY <1>1, <2>1 DEF Call
  <2>3. req'[c] \in Request /\ req' \in [Calls -> Request]
    BY <2>2 DEF Request
  <2> QED
    BY <1>1, <2>3 DEF Call
<1>2. ASSUME NEW c \in Calls, Fail(c) PROVE TypeOK'
  BY <1>2 DEF Fail
<1>3. ASSUME NEW c \in Calls, Insert(c) PROVE TypeOK'
  <2>1. req[c].id \in Ids /\ req[c].expires \in Times
    BY DEF Request
  <2>2. [by |-> c, status |-> "ACTIVE", expires |-> req[c].expires] \in Doc
    BY <2>1 DEF Doc, Status
  <2>3. docs' \in [Ids -> Doc \cup {NoDoc}]
    BY <1>3, <2>1, <2>2 DEF Insert
  <2> QED
    BY <1>3, <2>3 DEF Insert, Answer
<1>4. ASSUME NEW c \in Calls, Update(c) PROVE TypeOK'
  <2>1. CASE Commitable(req[c].id)
    <3>1. req[c].id \in Ids /\ docs[req[c].id] \in Doc
      BY <2>1 DEF Commitable, NoDoc, Request
    <3>2. Outcome(c) \in {"COMMITTED", "RELEASED"}
      BY DEF Outcome
    <3>3. [by |-> docs[req[c].id].by, status |-> Outcome(c),
           expires |-> docs[req[c].id].expires] \in Doc
      BY <3>1, <3>2 DEF Doc, Status
    <3>4. [by |-> docs[req[c].id].by, status |-> Outcome(c)] \in Told
      BY <3>1, <3>2 DEF Doc, Told
    <3>5. docs' \in [Ids -> Doc \cup {NoDoc}]
      BY <1>4, <2>1, <3>1, <3>3 DEF Update
    <3>6. told' \in [Calls -> Told]
      BY <1>4, <2>1, <3>4 DEF Update
    <3> QED
      BY <1>4, <3>5, <3>6 DEF Update
  <2>2. CASE ~Commitable(req[c].id)
    BY <1>4, <2>2 DEF Update
  <2> QED
    BY <2>1, <2>2
<1>5. ASSUME NEW c \in Calls, SweepStart(c) PROVE TypeOK'
  <2>1. todo'[c] \subseteq {d \in Doc : d.status = "ACTIVE"}
    BY <1>5 DEF SweepStart, RunOut, NoDoc
  <2> QED
    BY <1>5, <2>1 DEF SweepStart
<1>6. ASSUME NEW c \in Calls, NEW id \in Ids, SweepOne(c, id) PROVE TypeOK'
  <2>1. docs[id] \in Doc
    BY <1>6 DEF SweepOne, RunOut, NoDoc
  <2>2. docs' \in [Ids -> Doc \cup {NoDoc}]
    BY <1>6, <2>1 DEF SweepOne, Doc, Status
  <2> QED
    BY <1>6, <2>2 DEF SweepOne
<1>7. ASSUME NEW c \in Calls, SweepEnd(c) PROVE TypeOK'
  BY <1>7 DEF SweepEnd
<1>8. ASSUME NEW id \in Ids, TtlDelete(id) PROVE TypeOK'
  BY <1>8 DEF TtlDelete
<1>9. CASE Tick
  BY <1>9, ReservationBounds DEF Tick, Times
<1>10. CASE UNCHANGED vars
  BY <1>10 DEF vars
<1> QED
  BY <1>1, <1>2, <1>3, <1>4, <1>5, <1>6, <1>7, <1>8, <1>9, <1>10 DEF Next

\* Documents, requests and answers keep their types.
THEOREM TypeCorrect == Spec => []TypeOK
BY InitType, TypeStep, PTL DEF Spec

-----------------------------------------------------------------------------
(* What a step does to the states of the reservations.                      *)

States == [c \in Calls |-> StateOf(c)]
Due    == [c \in Calls |-> IF c \in made THEN req[c].expires ELSE 0]
Answers == {[of |-> told[c].by, as |-> told[c].status] :
                c \in {d \in Calls : told[d] # NoDoc}}

LifecycleStep == [Lifecycle!Next]_(Lifecycle!vars)

\* Reservations whose call is over keep their request.
Kept == \A d \in made : req'[d] = req[d]

\* Nothing changes when the documents and the reservations made do not.
LEMMA SameStates ==
    ASSUME Kept, docs' = docs, made' = made
    PROVE  States' = States /\ Due' = Due
BY DEF Kept, States, Due, StateOf

\* A document that changes status changes that of one reservation.
LEMMA StatusChange ==
    ASSUME IInv, NEW id \in Ids, Exists(id), NEW s \in Status,
           docs' = [docs EXCEPT ![id] =
               [by |-> docs[id].by, status |-> s, expires |-> docs[id].expires]],
           req' = req, made' = made
    PROVE  /\ docs[id].by \in made
           /\ States[docs[id].by] = docs[id].status
           /\ Due[docs[id].by] = docs[id].expires
           /\ States' = [States EXCEPT ![docs[id].by] = s]
           /\ Due' = Due
<1> DEFINE r == docs[id].by
<1>1. r \in made /\ r \in Calls /\ req[r].id = id /\ req[r].expires = docs[id].expires
  BY DEF IInv, DocInv, TypeOK
<1>2. States[r] = docs[id].status /\ Due[r] = docs[id].expires
  BY <1>1 DEF States, Due, StateOf
<1>3. docs'[id].by = r /\ docs'[id].status = s
  BY DEF IInv, TypeOK
<1>4. ASSUME NEW d \in Calls, d # r PROVE StateOf(d)' = StateOf(d)
  <2>1. CASE d \in made /\ req[d].id = id
    BY <1>3, <1>4, <2>1 DEF StateOf
  <2>2. CASE d \in made /\ req[d].id # id
    BY <2>2 DEF StateOf, IInv, TypeOK
  <2>3. CASE d \notin made
    BY <2>3 DEF StateOf
  <2> QED
    BY <2>1, <2>2, <2>3
<1>5. ASSUME NEW d \in Calls, d = r PROVE StateOf(d)' = s
  BY <1>1, <1>3, <1>5 DEF StateOf
<1> DEFINE T == [States EXCEPT ![r] = s]
<1>6. \A d \in Calls : T[d] = IF d = r THEN s ELSE StateOf(d)
  BY DEF States
<1>7. T = [d \in Calls |-> T[d]]
  BY DEF States
<1>8. ASSUME NEW d \in Calls PROVE StateOf(d)' = T[d]
  <2> HIDE DEF T
  <2>1. CASE d = r
    BY <1>5, <1>6, <2>1
  <2>2. CASE d # r
    BY <1>4, <1>6, <2>2
  <2> QED
    BY <2>1, <2>2
<1> HIDE DEF T
<1>9. States' = T
  BY <1>7, <1>8, Zenon DEF States
<1> QED
  BY <1>1, <1>2, <1>9 DEF Due, T

-----------------------------------------------------------------------------
(* The invariant.                                                           *)

LEMMA InitInv == Init => IInv
<1> SUFFICES ASSUME Init PROVE IInv
  OBVIOUS
<1>1. DocInv /\ ClockInv
  BY ReservationBounds DEF Init, DocInv, ClockInv, NoDoc
<1>2. ToldInv
  BY DEF Init, ToldInv
<1> QED
  BY <1>1, <1>2, InitType DEF IInv

\* Only Call changes a request, of a call that has made nothing.
LEMMA RequestsKept ==
    ASSUME IInv, Next
    PROVE  Kept
<1>1. ASSUME NEW c \in Calls, Call(c) PROVE Kept
  BY <1>1 DEF Call, Kept, IInv, DocInv, TypeOK
<1> QED
  BY <1>1 DEF Next, Fail, Insert, Update, SweepStart, SweepOne, SweepEnd,
     TtlDelete, Tick, Kept

\* Only create calls that were sent insert; they were not made before.
LEMMA DocStep ==
    ASSUME IInv, [Next]_vars
    PROVE  DocInv'
<1> USE DEF IInv, TypeOK, DocInv
<1>1. ASSUME NEW c \in Calls, Call(c) PROVE DocInv'
  <2>1. c \notin made
    BY <1>1 DEF Call
  <2> QED
    BY <1>1, <2>1 DEF Call
<1>2. ASSUME NEW c \in Calls, Fail(c) PROVE DocInv'
  BY <1>2 DEF Fail
<1>3. ASSUME NEW c \in Calls, Insert(c) PROVE DocInv'
  BY <1>3, ReservationNull DEF Insert, Answer
<1>4. ASSUME NEW c \in Calls, Update(c) PROVE DocInv'
  BY <1>4 DEF Update, Request
<1>5. ASSUME NEW c \in Calls, SweepStart(c) \/ SweepEnd(c) PROVE DocInv'
  BY <1>5 DEF SweepStart, SweepEnd
<1>6. ASSUME NEW c \in Calls, NEW id \in Ids, SweepOne(c, id) PROVE DocInv'
  BY <1>6 DEF SweepOne, RunOut
<1>7. ASSUME NEW id \in Ids, TtlDelete(id) PROVE DocInv'
  BY <1>7 DEF TtlDelete, NoDoc
<1>8. CASE Tick \/ UNCHANGED vars
  BY <1>8 DEF Tick, vars
<1> QED
  BY <1>1, <1>2, <1>3, <1>4, <1>5, <1>6, <1>7, <1>8 DEF Next

LEMMA ClockStep ==
    ASSUME IInv, [Next]_vars
    PROVE  ClockInv'
<1> USE DEF IInv, TypeOK, ClockInv
<1>0. now \in Nat
  BY ReservationBounds DEF Times
<1>1. ASSUME NEW c \in Calls, Call(c) PROVE ClockInv'
  BY <1>0, <1>1 DEF Call
<1>2. ASSUME NEW c \in Calls, Fail(c) PROVE ClockInv'
  BY <1>2 DEF Fail
<1>3. ASSUME NEW c \in Calls, Insert(c) PROVE ClockInv'
  BY <1>3 DEF Insert
<1>4. ASSUME NEW c \in Calls, Update(c) PROVE ClockInv'
  <2>1. Outcome(c) # "EXPIRED"
    BY DEF Outcome
  <2> QED
    BY <1>4, <2>1 DEF Update
<1>5. ASSUME NEW c \in Calls, SweepStart(c) \/ SweepEnd(c) PROVE ClockInv'
  BY <1>5 DEF SweepStart, SweepEnd
<1>6. ASSUME NEW c \in Calls, NEW id \in Ids, SweepOne(c, id) PROVE ClockInv'
  <2>1. docs[id] \in Doc /\ req[c].at \in Nat /\ req[c].at <= now
    BY <1>6, ReservationBounds DEF SweepOne, RunOut, NoDoc, Request, Times
  <2>2. docs[id].expires <= now
    BY <1>0, <1>6, <2>1, ReservationBounds DEF SweepOne, RunOut, Doc, Times
  <2> QED
    BY <1>6, <2>2 DEF SweepOne
<1>7. ASSUME NEW id \in Ids, TtlDelete(id) PROVE ClockInv'
  BY <1>0, <1>7 DEF TtlDelete, NoDoc
<1>8. CASE Tick
  <2>1. \A c \in Calls : req[c].at \in Nat
    BY ReservationBounds DEF Request, Times
  <2>2. \A id \in Ids : docs[id].expires \in Nat
    BY ReservationBounds DEF Doc, NoDoc, Times
  <2> QED
    BY <1>0, <1>8, <2>1, <2>2 DEF Tick
<1>9. CASE UNCHANGED vars
  BY <1>9 DEF vars
<1> QED
  BY <1>1, <1>2, <1>3, <1>4, <1>5, <1>6, <1>7, <1>8, <1>9 DEF Next

\* What is finished stays as it is, until it is deleted.
LEMMA FinishedStay ==
    ASSUME IInv, [Next]_vars, NEW r \in made, StateOf(r) # "ACTIVE"
    PROVE  r \in made' /\ StateOf(r)' \in {StateOf(r), "deleted"}
<1> USE DEF IInv, TypeOK, DocInv
<1>1. r \in Calls /\ req[r].id \in Ids
  BY DEF Request
<1>2. ASSUME Kept, docs' = docs, made' = made
      PROVE  r \in made' /\ StateOf(r)' = StateOf(r)
  BY <1>2 DEF Kept, StateOf
<1>3. CASE \E c \in Calls : Call(c) \/ Fail(c) \/ SweepStart(c) \/ SweepEnd(c)
  <2>1. docs' = docs /\ made' = made
    BY <1>3 DEF Call, Fail, SweepStart, SweepEnd
  <2>2. Kept
    BY <1>3, RequestsKept DEF Next
  <2> QED
    BY <1>2, <2>1, <2>2
<1>4. ASSUME NEW c \in Calls, Insert(c) PROVE r \in made' /\ StateOf(r)' = StateOf(r)
  <2>1. c # r
    BY <1>4 DEF Insert
  <2>2. CASE Exists(req[c].id)
    BY <1>2, <1>4, <2>2 DEF Insert, Kept
  <2>3. CASE ~Exists(req[c].id)
    <3>1. /\ docs' = [docs EXCEPT ![req[c].id] =
                 [by |-> c, status |-> "ACTIVE", expires |-> req[c].expires]]
          /\ made' = made \cup {c} /\ req' = req
      BY <1>4, <2>3 DEF Insert
    <3>2. CASE req[r].id = req[c].id
      BY <1>1, <2>1, <2>3, <3>1, <3>2, ReservationNull DEF StateOf
    <3>3. CASE req[r].id # req[c].id
      BY <1>1, <2>1, <3>1, <3>3 DEF StateOf
    <3> QED
      BY <3>2, <3>3
  <2> QED
    BY <2>2, <2>3
<1>5. ASSUME NEW c \in Calls, Update(c) PROVE r \in made' /\ StateOf(r)' = StateOf(r)
  <2>1. CASE ~Commitable(req[c].id)
    BY <1>2, <1>5, <2>1 DEF Update, Kept
  <2>2. CASE Commitable(req[c].id)
    <3>1. docs[req[c].id].status = "ACTIVE"
      BY <2>2 DEF Commitable
    <3>2. /\ docs' = [docs EXCEPT ![req[c].id] =
                 [by |-> docs[req[c].id].by, status |-> Outcome(c),
                  expires |-> docs[req[c].id].expires]]
          /\ made' = made /\ req' = req
      BY <1>5, <2>2 DEF Update
    <3> QED
      BY <1>1, <3>1, <3>2 DEF StateOf
  <2> QED
    BY <2>1, <2>2
<1>6. ASSUME NEW c \in Calls, NEW id \in Ids, SweepOne(c, id)
      PROVE  r \in made' /\ StateOf(r)' = StateOf(r)
  BY <1>1, <1>6 DEF SweepOne, RunOut, StateOf
<1>7. ASSUME NEW id \in Ids, TtlDelete(id)
      PROVE  r \in made' /\ StateOf(r)' \in {StateOf(r), "deleted"}
  BY <1>1, <1>7, ReservationNull DEF TtlDelete, NoDoc, StateOf
<1>8. CASE Tick \/ UNCHANGED vars
  BY <1>2, <1>8 DEF Tick, vars, Kept
<1> QED
  BY <1>3, <1>4, <1>5, <1>6, <1>7, <1>8 DEF Next

\* A caller is told the outcome it has just given to an active reservation, of
\* which nobody was told anything before.
LEMMA ToldStep ==
    ASSUME IInv, [Next]_vars
    PROVE  ToldInv'
<1> USE DEF IInv, TypeOK, ToldInv
<1>0. ASSUME NEW d \in Calls, told[d] # NoDoc, NEW x, x = told[d].by
      PROVE  /\ x \in made' /\ StateOf(x) \in {told[d].status, "deleted"}
             /\ StateOf(x)' \in {told[d].status, "deleted"}
             /\ told[d].status \in {"COMMITTED", "RELEASED"}
  <2>1. x \in made /\ told[d].status \in {"COMMITTED", "RELEASED"}
    BY <1>0 DEF Told
  <2>2. StateOf(x) \in {told[d].status, "deleted"}
    BY <1>0
  <2> QED
    BY <2>1, <2>2, FinishedStay
<1>1. ASSUME told' = told, \A c \in Calls : pc'[c] \in {"idle", "sent"} =>
                                               pc[c] \in {"idle", "sent"}
      PROVE  ToldInv'
  <2>1. ASSUME NEW d \in Calls, told'[d] # NoDoc
        PROVE  told'[d].by \in made' /\ StateOf(told[d].by)' \in {told'[d].status, "deleted"}
    <3>1. PICK x : x = told[d].by
      OBVIOUS
    <3>2. x = told'[d].by /\ told'[d].status = told[d].status
      BY <1>1, <3>1
    <3>3. x \in made' /\ StateOf(x)' \in {told[d].status, "deleted"}
      BY <1>0, <1>1, <2>1, <3>1
    <3> QED
      BY <3>2, <3>3 DEF StateOf
  <2> QED
    BY <1>1, <2>1
<1>2. ASSUME NEW c \in Calls, Call(c) \/ Fail(c) \/ Insert(c) \/ SweepStart(c) \/ SweepEnd(c)
      PROVE  ToldInv'
  BY <1>1, <1>2 DEF Call, Fail, Insert, Answer, SweepStart, SweepEnd
<1>3. ASSUME NEW c \in Calls, Update(c) PROVE ToldInv'
  <2>1. CASE told' = told
    BY <1>1, <1>3, <2>1 DEF Update
  <2>2. CASE told' # told
    <3>1. PICK id \in Ids, r \in Calls : id = req[c].id /\ r = docs[id].by
      <4>1. req[c].id \in Ids /\ docs[req[c].id].by \in Calls
        BY <1>3, <2>2 DEF Request, Update, Commitable, DocInv
      <4> QED
        BY <4>1
    <3>2. /\ Commitable(id)
          /\ docs' = [docs EXCEPT ![id] = [by |-> r, status |-> Outcome(c),
                                           expires |-> docs[id].expires]]
          /\ told' = [told EXCEPT ![c] = [by |-> r, status |-> Outcome(c)]]
          /\ pc' = [pc EXCEPT ![c] = "returned"]
          /\ made' = made /\ req' = req
      BY <1>3, <2>2, <3>1 DEF Update
    <3>3. docs[id].status = "ACTIVE" /\ r \in made /\ r \in Calls /\ req[r].id = id
      BY <3>1, <3>2 DEF Commitable, DocInv
    <3>4. StateOf(r) = "ACTIVE" /\ StateOf(r)' = Outcome(c)
      BY <3>1, <3>2, <3>3 DEF StateOf
    <3>5. ASSUME NEW d \in Calls, told[d] # NoDoc PROVE told[d].by # r
      BY <1>0, <3>4, <3>5
    <3>6. /\ told'[c] = [by |-> r, status |-> Outcome(c)]
          /\ \A d \in Calls : d # c => told'[d] = told[d]
      BY <3>2
    <3>7. ASSUME NEW d \in Calls, told'[d] # NoDoc
          PROVE  told'[d].by \in made' /\ StateOf(told[d].by)' \in {told'[d].status, "deleted"}
      <4>1. PICK x : x = told'[d].by
        OBVIOUS
      <4>2. CASE d = c
        <5>1. x = r /\ told'[d].status = Outcome(c)
          BY <3>6, <4>1, <4>2
        <5>2. x \in made' /\ StateOf(x)' = Outcome(c)
          BY <3>2, <3>3, <3>4, <5>1 DEF StateOf
        <5> QED
          BY <4>1, <5>1, <5>2 DEF StateOf
      <4>3. CASE d # c
        <5>1. told'[d] = told[d] /\ told[d] # NoDoc /\ x = told[d].by
          BY <3>6, <3>7, <4>1, <4>3
        <5>2. x \in made' /\ StateOf(x)' \in {told[d].status, "deleted"}
          BY <1>0, <5>1
        <5> QED
          BY <4>1, <5>1, <5>2 DEF StateOf
      <4> QED
        BY <4>2, <4>3
    <3>8. \A d \in Calls : pc'[d] \in {"idle", "sent"} => told'[d] = NoDoc
      BY <3>2
    <3>9. \A d, e \in Calls :
             told'[d] # NoDoc /\ told'[e] # NoDoc /\ told'[d].by = told'[e].by =>
                 told'[d] = told'[e]
      BY <3>5, <3>6
    <3> QED
      BY <3>7, <3>8, <3>9
  <2> QED
    BY <2>1, <2>2
<1>4. ASSUME NEW c \in Calls, NEW id \in Ids, SweepOne(c, id) PROVE ToldInv'
  BY <1>1, <1>4 DEF SweepOne
<1>5. ASSUME NEW id \in Ids, TtlDelete(id) PROVE ToldInv'
  BY <1>1, <1>5 DEF TtlDelete
<1>6. CASE Tick \/ UNCHANGED vars
  BY <1>1, <1>6 DEF Tick, vars
<1> QED
  BY <1>2, <1>3, <1>4, <1>5, <1>6 DEF Next

\* The invariant the refinement rests on.
THEOREM Invariant == Spec => []IInv
<1>1. IInv /\ [Next]_vars => IInv'
  BY TypeStep, DocStep, ClockStep, ToldStep DEF IInv
<1> QED
  BY <1>1, InitInv, PTL DEF Spec

\* Callers of commitReservation and releaseReservation are told one outcome of a
\* reservation, the one it has until it is deleted.
THEOREM ToldOneOutcome == Spec => []OneOutcome
<1>1. IInv => OneOutcome
  <2> SUFFICES ASSUME IInv PROVE OneOutcome
    OBVIOUS
  <2> USE DEF IInv, ToldInv
  <2>1. ASSUME NEW x \in Answers, NEW y \in Answers, x.of = y.of PROVE x = y
    BY <2>1 DEF Answers
  <2>2. ASSUME NEW x \in Answers PROVE States[x.of] \in {x.as, "deleted"}
    BY <2>2 DEF Answers, States, TypeOK
  <2>3. ASSUME NEW r \in Calls, States[r] = "EXPIRED" PROVE Due[r] <= now
    <3>1. r \in made /\ docs[req[r].id].by = r /\ docs[req[r].id].status = "EXPIRED"
      BY <2>3 DEF States, StateOf
    <3>2. req[r].id \in Ids /\ Due[r] = docs[req[r].id].expires
      BY <3>1, ReservationNull DEF DocInv, Due, TypeOK, Request
    <3> QED
      BY <3>1, <3>2 DEF ClockInv
  <2> QED
    BY <2>1, <2>2, <2>3 DEF OneOutcome, Lifecycle!OneOutcome, Answers, States, Due
<1> QED
  BY <1>1, Invariant, PTL

-----------------------------------------------------------------------------
(* The refinement.                                                          *)

\* A step that keeps reservations, answers and the clock.
LEMMA Silent ==
    ASSUME Kept, docs' = docs, made' = made, told' = told, now' = now
    PROVE  LifecycleStep
<1>1. States' = States /\ Due' = Due
  BY SameStates
<1> QED
  BY <1>1 DEF LifecycleStep, Lifecycle!vars, States, Due

LEMMA OpenRefines ==
    ASSUME IInv, NEW c \in Calls, Insert(c)
    PROVE  LifecycleStep
<1> USE DEF IInv, TypeOK, DocInv
<1>1. CASE Exists(req[c].id)
  BY <1>1, Silent DEF Insert, Kept
<1>2. CASE ~Exists(req[c].id)
  <2>1. PICK id \in Ids : id = req[c].id
    BY DEF Request
  <2>2. /\ docs' = [docs EXCEPT ![id] =
               [by |-> c, status |-> "ACTIVE", expires |-> req[c].expires]]
        /\ made' = made \cup {c}
        /\ req' = req /\ told' = told /\ now' = now /\ c \notin made
    BY <1>2, <2>1 DEF Insert
  <2>3. States[c] = "none" /\ StateOf(c)' = "ACTIVE"
    BY <2>1, <2>2 DEF States, StateOf
  <2>4. ASSUME NEW d \in Calls, d # c PROVE StateOf(d)' = States[d]
    <3>1. CASE d \in made /\ req[d].id = id
      BY <1>2, <2>1, <2>2, <2>4, <3>1, ReservationNull DEF StateOf, States
    <3>2. CASE d \in made /\ req[d].id # id
      BY <2>2, <2>4, <3>2 DEF StateOf, States, Request
    <3>3. CASE d \notin made
      BY <2>2, <2>4, <3>3 DEF StateOf, States
    <3> QED
      BY <3>1, <3>2, <3>3
  <2>5. States' = [States EXCEPT ![c] = "ACTIVE"]
    <3>1. \A d \in Calls : [States EXCEPT ![c] = "ACTIVE"][d]
                               = IF d = c THEN "ACTIVE" ELSE States[d]
      BY DEF States
    <3>2. ASSUME NEW d \in Calls, d = c PROVE StateOf(d)' = "ACTIVE"
      BY <2>1, <2>2, <3>2 DEF StateOf
    <3>3. ASSUME NEW d \in Calls
          PROVE  StateOf(d)' = [States EXCEPT ![c] = "ACTIVE"][d]
      BY <2>4, <3>1, <3>2
    <3> QED
      BY <3>3 DEF States
  <2>6. Due' = [Due EXCEPT ![c] = req[c].expires] /\ req[c].expires \in Times
    BY <2>2 DEF Due, Request
  <2>7. \E t \in Times : Due' = [Due EXCEPT ![c] = t]
    BY <2>6
  <2>8. Answers' = Answers /\ now' = now
    BY <2>2 DEF Answers
  <2>9. Lifecycle!Open(c)
    BY <2>3, <2>5, <2>7, <2>8, Zenon DEF Lifecycle!Open, States, Due, Answers
  <2> QED
    BY <2>9 DEF LifecycleStep, Lifecycle!Next
<1> QED
  BY <1>1, <1>2

LEMMA DecideRefines ==
    ASSUME IInv, NEW c \in Calls, Update(c)
    PROVE  LifecycleStep
<1> USE DEF IInv, TypeOK
<1>1. CASE ~Commitable(req[c].id)
  BY <1>1, Silent DEF Update, Kept
<1>2. CASE Commitable(req[c].id)
  <2>1. PICK id \in Ids, r \in Calls, s \in {"COMMITTED", "RELEASED"} :
           id = req[c].id /\ r = docs[id].by /\ s = Outcome(c)
    <3>1. req[c].id \in Ids /\ Outcome(c) \in {"COMMITTED", "RELEASED"}
      BY DEF Request, Outcome
    <3>2. docs[req[c].id].by \in Calls
      BY <1>2, <3>1 DEF Commitable, DocInv
    <3> QED
      BY <3>1, <3>2
  <2>2. /\ docs' = [docs EXCEPT ![id] =
               [by |-> docs[id].by, status |-> s, expires |-> docs[id].expires]]
        /\ told' \in {told, [told EXCEPT ![c] = [by |-> r, status |-> s]]}
        /\ made' = made /\ req' = req /\ now' = now
    BY <1>2, <2>1 DEF Update
  <2>3. /\ r \in Calls /\ States[r] = "ACTIVE"
        /\ States' = [States EXCEPT ![r] = s] /\ Due' = Due
    <3>1. Exists(id) /\ docs[id].status = "ACTIVE" /\ s \in Status
      BY <1>2, <2>1 DEF Commitable, Status
    <3>2. r \in Calls
      BY <2>1, <3>1 DEF DocInv
    <3> QED
      BY <2>1, <2>2, <3>1, <3>2, StatusChange
  <2>4. told[c] = NoDoc
    BY DEF Update, ToldInv
  <2>5. Answers' \in {Answers, Answers \cup {[of |-> r, as |-> s]}}
    <3>1. CASE told' = told
      BY <3>1 DEF Answers
    <3>2. CASE told' = [told EXCEPT ![c] = [by |-> r, status |-> s]]
      <4>1. [by |-> r, status |-> s] # NoDoc
        BY <2>1 DEF NoDoc
      <4>2. \A x : x \in Answers' <=> x \in Answers \cup {[of |-> r, as |-> s]}
        BY <2>4, <3>2, <4>1 DEF Answers
      <4> QED
        BY <4>2
    <3> QED
      BY <2>2, <3>1, <3>2
  <2>6. Lifecycle!Decide(r, s)
    BY <2>2, <2>3, <2>5, Zenon DEF Lifecycle!Decide, States, Due, Answers
  <2> QED
    BY <2>1, <2>3, <2>6 DEF LifecycleStep, Lifecycle!Next
<1> QED
  BY <1>1, <1>2

LEMMA ExpireRefines ==
    ASSUME IInv, NEW c \in Calls, NEW id \in Ids, SweepOne(c, id)
    PROVE  LifecycleStep
<1> USE DEF IInv, TypeOK
<1>1. PICK r : r = docs[id].by
  OBVIOUS
<1>2. docs[id] \in Doc /\ docs[id].status = "ACTIVE" /\ docs[id].expires <= req[c].at
  BY DEF SweepOne, RunOut, NoDoc
<1>3. docs[id].expires <= now
  BY <1>2, ReservationBounds DEF ClockInv, Doc, Request, Times
<1>4. /\ r \in Calls /\ States[r] = "ACTIVE" /\ Due[r] = docs[id].expires
      /\ States' = [States EXCEPT ![r] = "EXPIRED"] /\ Due' = Due
  BY <1>1, <1>2, StatusChange DEF SweepOne, RunOut, Status, DocInv
<1>5. Answers' = Answers /\ now' = now
  BY DEF SweepOne, Answers
<1>6. Lifecycle!Expire(r)
  BY <1>3, <1>4, <1>5, Zenon DEF Lifecycle!Expire, States, Due, Answers
<1> QED
  BY <1>4, <1>6 DEF LifecycleStep, Lifecycle!Next

LEMMA ForgetRefines ==
    ASSUME IInv, NEW id \in Ids, TtlDelete(id)
    PROVE  LifecycleStep
<1> USE DEF IInv, TypeOK, DocInv
<1>1. PICK r \in made : /\ r = docs[id].by /\ r \in Calls /\ req[r].id = id
                        /\ req[r].expires = docs[id].expires
  BY DEF TtlDelete, Deletable
<1>2. /\ docs' = [docs EXCEPT ![id] = NoDoc] /\ docs[id].expires <= now
      /\ req' = req /\ made' = made /\ told' = told /\ now' = now
  BY DEF TtlDelete, Deletable
<1>3. docs[id] \in Doc
  BY <1>1, ReservationNull DEF NoDoc
<1>4. States[r] # "none" /\ Due[r] = docs[id].expires
  BY <1>1, <1>3 DEF States, StateOf, Due, Doc, Status
<1>5. ASSUME NEW d \in Calls
      PROVE  StateOf(d)' = IF d = r THEN "deleted" ELSE States[d]
  <2>1. CASE d = r
    BY <1>1, <1>2, <2>1, ReservationNull DEF StateOf, NoDoc
  <2>2. CASE d # r /\ d \in made /\ req[d].id = id
    BY <1>1, <1>2, <2>2, ReservationNull DEF StateOf, States, NoDoc
  <2>3. CASE d # r /\ d \in made /\ req[d].id # id
    BY <1>2, <2>3 DEF StateOf, States, Request
  <2>4. CASE d \notin made
    BY <1>1, <1>2, <2>4 DEF StateOf, States
  <2> QED
    BY <2>1, <2>2, <2>3, <2>4
<1>6. States' = [States EXCEPT ![r] = "deleted"]
  <2>1. \A d \in Calls : [States EXCEPT ![r] = "deleted"][d]
                             = IF d = r THEN "deleted" ELSE States[d]
    BY DEF States
  <2>2. ASSUME NEW d \in Calls PROVE StateOf(d)' = [States EXCEPT ![r] = "deleted"][d]
    BY <1>5, <2>1
  <2> QED
    BY <2>2 DEF States
<1>7. Due' = Due /\ Answers' = Answers /\ now' = now
  BY <1>2 DEF Due, Answers
<1>8. Due[r] <= now
  BY <1>2, <1>4
<1>9. Lifecycle!Forget(r)
  BY <1>4, <1>6, <1>7, <1>8, Zenon DEF Lifecycle!Forget, States, Due, Answers
<1> QED
  BY <1>1, <1>9 DEF LifecycleStep, Lifecycle!Next

LEMMA RefinedStep ==
    ASSUME IInv, [Next]_vars
    PROVE  LifecycleStep
<1>1. CASE \E c \in Calls : Call(c) \/ Fail(c) \/ SweepStart(c) \/ SweepEnd(c)
  <2>1. Kept
    BY <1>1, RequestsKept DEF Next
  <2>2. docs' = docs /\ made' = made /\ told' = told /\ now' = now
    BY <1>1 DEF Call, Fail, SweepStart, SweepEnd
  <2> QED
    BY <2>1, <2>2, Silent
<1>2. CASE UNCHANGED vars
  BY <1>2, Silent DEF vars, Kept
<1>3. CASE Tick
  <2>1. States' = States /\ Due' = Due
    BY <1>3, SameStates DEF Tick, Kept
  <2>2. Answers' = Answers /\ now' = now + 1
    BY <1>3 DEF Tick, Answers
  <2>3. Lifecycle!Tick
    BY <2>1, <2>2, Zenon DEF Lifecycle!Tick, States, Due, Answers
  <2> QED
    BY <2>3 DEF LifecycleStep, Lifecycle!Next
<1> QED
  BY <1>1, <1>2, <1>3, OpenRefines, DecideRefines, ExpireRefines, ForgetRefines DEF Next

\* Whatever callers, sweeps and the TTL index do in any order, and whichever answers
\* are lost, every reservation lives the life of ReservationLifecycle.
THEOREM Refinement == Spec => ImplementsLifecycle
<1>1. Init => Lifecycle!Init
  <2> SUFFICES ASSUME Init PROVE Lifecycle!Init
    OBVIOUS
  <2>1. States = [c \in Calls |-> "none"] /\ Due = [c \in Calls |-> 0]
    BY DEF Init, States, StateOf, Due
  <2>2. Answers = {} /\ now = 0
    BY DEF Init, Answers
  <2> QED
    BY <2>1, <2>2, Zenon DEF Lifecycle!Init, States, Due, Answers
<1>2. IInv /\ [Next]_vars => [Lifecycle!Next]_(Lifecycle!vars)
  BY RefinedStep DEF LifecycleStep
<1> QED
  BY <1>1, <1>2, Invariant, PTL DEF Spec, ImplementsLifecycle, Lifecycle!Spec
=============================================================================
