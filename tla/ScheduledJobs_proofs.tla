------------------------- MODULE ScheduledJobs_proofs -------------------------
(***************************************************************************)
(* Proofs about ScheduledJobs, for any customers, any jobs and any number  *)
(* of events, and about the score that one of the jobs computes            *)
(* (HealthScore), for any customer.                                        *)
(***************************************************************************)
EXTENDS ScheduledJobs, HealthScore, TLAPS

-----------------------------------------------------------------------------
(* The inductive invariant *)

W == session[Worker]

\* The rows of customer c that the worker is through with.
Handled(c) == {k \in Shared \X {c} : k \notin W.left /\ (W.pc # "ready" => k # W.key)}

\* The worker handles a message of c.  It has written no other rows than those
\* it is through with, and no row has changed since it selected it.  Of the rows
\* whose recount misses no event, what it counted is what is stored.
Works(c) ==
    /\ W.pc # "idle"
    /\ W.left \subseteq Shared \X {c}
    /\ W.pc \in {"counted", "selected"} \/ W.left = {} => W.key \in Shared \X {c}
    /\ W.pc \in {"counted", "selected"} => W.key \notin W.left
    /\ W.pc = "selected" => W.seen = row[W.key]
    /\ \A k \in Keys : W.draft[k] # None => k \in Handled(c)
    /\ W.pc # "aborted" =>
         \A k \in (Shared \X {c}) \ missed :
             /\ W.pc # "ready" /\ k = W.key => W.value = events[c]
             /\ k \in Handled(c) => Written(Worker)[k] = events[c]

\* Between two messages the worker has nothing in hand and nothing written.
WorkerInv ==
    IF W.pc = "idle" THEN W.left = {} /\ W.draft = Nothing ELSE \E c \in Customers : Works(c)

\* The bound holds, and a message is an event's, stored or not.
PendingInv ==
    \A c \in Customers :
        /\ pending[c] <= events[c] + unstored[c]
        /\ events[c] + unstored[c] <= MaxEvents

JobsInv == TypeOK /\ PendingInv /\ WorkerInv /\ RecountsLast

USE DEF SharedOf

\* The keys of the shared metrics of one customer.
LEMMA SharedKeys ==
    ASSUME NEW c \in Customers
    PROVE  /\ Shared \X {c} \subseteq Keys
           /\ Shared \X {c} # {}
           /\ \A k \in Shared \X {c} : k[2] = c
           /\ \A m \in Shared : <<m, c>> \in Shared \X {c}
BY JobsAssumption DEF Keys, Shared

\* A key names a job and a customer.
LEMMA KeyParts == ASSUME NEW k \in Keys PROVE k[1] \in Jobs /\ k[2] \in Customers
BY DEF Keys

\* A worker whose rows are all of c works for c and for nobody else.
LEMMA HandOf ==
    ASSUME NEW c \in Customers, NEW d, NEW left \in SUBSET (Shared \X {c}), NEW key,
           left = {} => key \in Shared \X {c}
    PROVE  (IF left = {} THEN key[2] = d ELSE \E k \in left : k[2] = d) <=> d = c
<1>1. \A k \in Shared \X {c} : k[2] = c
  BY SharedKeys
<1>2. QED
  BY <1>1

-----------------------------------------------------------------------------
(* Type correctness *)

\* A closed session is well formed.
LEMMA IdleType == Idle \in Session /\ Nothing \in [Keys -> Values]
<1> USE JobsAssumption
<1>1. Keys # {}
  <2>1. PICK c \in Customers : TRUE
    OBVIOUS
  <2>2. <<Recompute, c>> \in Keys
    BY DEF Keys, Shared
  <2>3. QED
    BY <2>2
<1>2. (CHOOSE k \in Keys : TRUE) \in Keys
  BY <1>1
<1>3. Nothing \in [Keys -> Values] /\ 0 \in Counts /\ None \in Values
  BY DEF Nothing, Values, Counts
<1>4. QED
  BY <1>2, <1>3 DEF Idle, Session

\* No session is open and nothing is stored.
LEMMA InitJobsInv == Init => JobsInv
<1> USE JobsAssumption
<1> SUFFICES ASSUME Init
             PROVE  JobsInv
  OBVIOUS
<1>1. row \in [Keys -> Values]
  BY DEF Init, Values, Counts
<1>2. TypeOK
  BY <1>1, IdleType DEF Init, TypeOK, Counts
<1>3. W = Idle
  BY DEF W, Init, Sessions
<1>4. WorkerInv
  BY <1>3 DEF WorkerInv, Idle
<1>5. PendingInv /\ RecountsLast
  BY DEF Init, PendingInv, RecountsLast
<1>6. QED
  BY <1>2, <1>4, <1>5 DEF JobsInv

\* A step of session s that leaves its record well formed keeps the types.
LEMMA SessionType ==
    ASSUME TypeOK, NEW s \in Sessions, NEW rec \in Session,
           session' = [session EXCEPT ![s] = rec], UNCHANGED <<events, unstored, pending, row, missed>>
    PROVE  TypeOK' /\ session'[s] = rec /\ \A t \in Sessions \ {s} : session'[t] = session[t]
BY DEF TypeOK

\* What a session's count, its SELECT, its upsert and its failure make of it.
LEMMA CountResult ==
    ASSUME TypeOK, NEW s \in Sessions, CountEvents(s)
    PROVE  \E k \in session[s].left :
             \E rec \in Session :
               /\ session' = [session EXCEPT ![s] = rec]
               /\ rec.pc = "counted" /\ rec.key = k /\ rec.left = session[s].left \ {k}
               /\ rec.value = events[k[2]] /\ rec.draft = session[s].draft
<1>1. PICK k \in Keys :
        /\ k \in session[s].left
        /\ session' = [session EXCEPT ![s].pc = "counted", ![s].key = k,
                                      ![s].left = @ \ {k}, ![s].value = events[k[2]]]
  BY DEF CountEvents, Following
<1> DEFINE rec == [session[s] EXCEPT !.pc = "counted", !.key = k, !.left = @ \ {k},
                                     !.value = events[k[2]]]
<1>2. session[s] \in Session /\ events[k[2]] \in Counts
  BY KeyParts DEF TypeOK
<1>3. /\ rec \in Session /\ rec.pc = "counted" /\ rec.key = k
      /\ rec.left = session[s].left \ {k} /\ rec.value = events[k[2]]
      /\ rec.draft = session[s].draft
  BY <1>2 DEF Session
<1>4. session' = [session EXCEPT ![s] = rec]
  BY <1>1, <1>2
<1> HIDE DEF rec
<1>5. QED
  BY <1>1, <1>3, <1>4

\* A session that has selected its row is well formed and has written nothing new.
LEMMA SelectResult ==
    ASSUME TypeOK, NEW s \in Sessions, SelectRow(s)
    PROVE  \E rec \in Session :
             /\ session' = [session EXCEPT ![s] = rec]
             /\ rec.pc = "selected" /\ rec.seen = row[session[s].key]
             /\ rec.key = session[s].key /\ rec.left = session[s].left
             /\ rec.value = session[s].value /\ rec.draft = session[s].draft
<1> DEFINE rec == [session[s] EXCEPT !.pc = "selected", !.seen = row[session[s].key]]
<1>1. session[s] \in Session
  BY DEF TypeOK
<1>2. row[session[s].key] \in Values
  BY <1>1 DEF TypeOK, Session
<1>3. /\ rec \in Session /\ rec.pc = "selected" /\ rec.seen = row[session[s].key]
      /\ rec.key = session[s].key /\ rec.left = session[s].left
      /\ rec.value = session[s].value /\ rec.draft = session[s].draft
  BY <1>1, <1>2 DEF Session
<1>4. session' = [session EXCEPT ![s] = rec]
  BY <1>1 DEF SelectRow
<1> HIDE DEF rec
<1>5. QED
  BY <1>3, <1>4

\* A session whose transaction has failed is well formed.
LEMMA AbortType ==
    ASSUME TypeOK, NEW s \in Sessions, Abort(s)
    PROVE  \E rec \in Session :
             /\ session' = [session EXCEPT ![s] = rec]
             /\ rec.pc = "aborted" /\ rec.left = session[s].left
             /\ rec.key = session[s].key /\ rec.draft = Nothing
<1> DEFINE rec == [session[s] EXCEPT !.pc = "aborted", !.draft = Nothing]
<1>1. session[s] \in Session
  BY DEF TypeOK
<1>2. /\ rec \in Session /\ rec.pc = "aborted" /\ rec.left = session[s].left
      /\ rec.key = session[s].key /\ rec.draft = Nothing
  BY <1>1, IdleType DEF Session
<1>3. session' = [session EXCEPT ![s] = rec]
  BY <1>1 DEF Abort
<1> HIDE DEF rec
<1>4. QED
  BY <1>2, <1>3

\* The session goes on with the row as it is or with its value written, unless
\* the row it has not seen is there.
LEMMA UpsertResult ==
    ASSUME TypeOK, NEW s \in Sessions, Upsert(s)
    PROVE  \E rec \in Session :
             /\ session' = [session EXCEPT ![s] = rec]
             /\ \/ /\ rec.pc = "ready"
                   /\ rec.key = session[s].key /\ rec.left = session[s].left
                   /\ \/ session[s].seen = session[s].value /\ rec.draft = session[s].draft
                      \/ rec.draft = [session[s].draft EXCEPT ![session[s].key] = session[s].value]
                \/ /\ session[s].seen = None /\ row[session[s].key] # None
                   /\ rec.pc = "aborted" /\ rec.left = session[s].left /\ rec.draft = Nothing
<1> DEFINE k == session[s].key
           v == session[s].value
<1>1. session[s] \in Session /\ k \in Keys /\ v \in Values
  BY DEF TypeOK, Session, Values
<1>2. CASE session[s].seen = v /\ session' = [session EXCEPT ![s].pc = "ready"]
  <2> DEFINE rec == [session[s] EXCEPT !.pc = "ready"]
  <2>1. /\ rec \in Session /\ rec.pc = "ready" /\ rec.key = session[s].key
        /\ rec.left = session[s].left /\ rec.draft = session[s].draft
    BY <1>1 DEF Session
  <2>2. session' = [session EXCEPT ![s] = rec]
    BY <1>1, <1>2
  <2> HIDE DEF rec
  <2>3. QED
    BY <1>2, <2>1, <2>2
<1>3. CASE session[s].seen = None /\ row[k] # None /\ Abort(s)
  BY <1>3, AbortType
<1>4. CASE session' = [session EXCEPT ![s].pc = "ready", ![s].draft[k] = v]
  <2> DEFINE rec == [session[s] EXCEPT !.pc = "ready", !.draft = [@ EXCEPT ![k] = v]]
  <2>1. [session[s].draft EXCEPT ![k] = v] \in [Keys -> Values]
    BY <1>1 DEF Session
  <2>2. /\ rec \in Session /\ rec.pc = "ready" /\ rec.key = session[s].key
        /\ rec.left = session[s].left
        /\ rec.draft = [session[s].draft EXCEPT ![k] = v]
    BY <1>1, <2>1 DEF Session
  <2>3. session' = [session EXCEPT ![s] = rec]
    BY <1>1, <1>4
  <2> HIDE DEF rec
  <2>4. QED
    BY <2>2, <2>3
<1>5. QED
  BY <1>2, <1>3, <1>4 DEF Upsert

-----------------------------------------------------------------------------
(* The steps *)

\* A step of a job that commits nothing.
LEMMA OtherSteps ==
    ASSUME JobsInv, TypeOK', W' = W, UNCHANGED <<events, unstored, pending, row, missed>>
    PROVE  JobsInv'
<1>1. WorkerInv'
  BY DEF JobsInv, WorkerInv, Works, Handled, Written, W
<1>2. PendingInv' /\ RecountsLast'
  BY DEF JobsInv, PendingInv, RecountsLast, InHand, W
<1>3. QED
  BY <1>1, <1>2 DEF JobsInv

\* The steps of the jobs' sessions.
LEMMA JobSteps ==
    ASSUME JobsInv, NEW j \in Jobs, StartRun(j) \/ StatementFails(j) \/ CloseSession(j) \/ Step(j)
    PROVE  JobsInv'
<1>1. TypeOK /\ j \in Sessions /\ Worker \in Sessions /\ j # Worker
  BY JobsAssumption DEF JobsInv, Sessions
<1>2. UNCHANGED <<events, unstored, pending, row, missed>>
  BY DEF StartRun, StatementFails, CloseSession, Step, CountEvents, SelectRow, Upsert
<1>3. \E rec \in Session : session' = [session EXCEPT ![j] = rec]
  <2>1. CASE StartRun(j)
    <3> DEFINE rec == [session[j] EXCEPT !.pc = "ready", !.left = {j} \X Customers]
    <3>1. session[j] \in Session /\ {j} \X Customers \subseteq Keys
      BY <1>1 DEF TypeOK, Keys
    <3>2. rec \in Session
      BY <3>1 DEF Session
    <3>3. session' = [session EXCEPT ![j] = rec]
      BY <2>1, <3>1 DEF StartRun, Begin
    <3>4. QED
      BY <3>2, <3>3
  <2>2. CASE StatementFails(j)
    BY <1>1, <2>2, AbortType DEF StatementFails
  <2>3. CASE CloseSession(j)
    BY <2>3, IdleType DEF CloseSession, Closed
  <2>4. CASE Step(j)
    BY <1>1, <2>4, CountResult, SelectResult, UpsertResult DEF Step
  <2>5. QED
    BY <2>1, <2>2, <2>3, <2>4
<1>4. TypeOK' /\ W' = W
  BY <1>1, <1>2, <1>3, SessionType DEF W
<1>5. QED
  BY <1>2, <1>4, OtherSteps

\* An event that is published changes nothing that is stored or counted.
LEMMA PublishStep ==
    ASSUME JobsInv, NEW c \in Customers, PublishEvent(c)
    PROVE  JobsInv'
<1> USE JobsAssumption
<1>1. TypeOK /\ PendingInv
  BY DEF JobsInv
<1>2. /\ events[c] \in Nat /\ unstored[c] \in Nat /\ pending[c] \in Nat
      /\ events[c] + unstored[c] < MaxEvents /\ pending[c] <= events[c] + unstored[c]
  BY <1>1 DEF PublishEvent, TypeOK, Counts, PendingInv
<1>3. /\ unstored'[c] = unstored[c] + 1 /\ pending'[c] = pending[c] + 1
      /\ \A d \in Customers : d # c => unstored'[d] = unstored[d] /\ pending'[d] = pending[d]
      /\ UNCHANGED <<events, row, session, missed>>
  BY <1>1 DEF PublishEvent, TypeOK
<1>4. TypeOK' /\ PendingInv'
  <2>1. unstored' \in [Customers -> Counts] /\ pending' \in [Customers -> Counts]
    BY <1>1, <1>2 DEF PublishEvent, TypeOK, Counts
  <2>2. QED
    BY <1>1, <1>2, <1>3, <2>1 DEF TypeOK, PendingInv, Counts
<1>5. WorkerInv'
  BY <1>3 DEF JobsInv, WorkerInv, Works, Handled, Written, W
<1>6. pending'[c] # 0
  BY <1>2, <1>3
<1>7. RecountsLast'
  BY <1>3, <1>6 DEF JobsInv, RecountsLast, InHand
<1>8. QED
  BY <1>4, <1>5, <1>7 DEF JobsInv

\* An event that is stored is missed by the rows that are counted already.
LEMMA StoreStep ==
    ASSUME JobsInv, NEW c \in Customers, StoreEvent(c)
    PROVE  JobsInv'
<1> USE JobsAssumption
<1>1. TypeOK /\ PendingInv
  BY DEF JobsInv
<1>2. /\ events[c] \in Nat /\ unstored[c] \in Nat /\ unstored[c] > 0
      /\ events[c] + unstored[c] <= MaxEvents /\ pending[c] <= events[c] + unstored[c]
  BY <1>1 DEF StoreEvent, TypeOK, Counts, PendingInv
<1>3. /\ events'[c] = events[c] + 1 /\ unstored'[c] = unstored[c] - 1
      /\ \A d \in Customers : d # c => events'[d] = events[d] /\ unstored'[d] = unstored[d]
      /\ missed' = missed \union ((Shared \X {c}) \ W.left)
      /\ UNCHANGED <<pending, row, session>>
  BY <1>1 DEF StoreEvent, TypeOK, W
<1>4. TypeOK' /\ PendingInv'
  <2>1. events' \in [Customers -> Counts] /\ unstored' \in [Customers -> Counts]
    BY <1>1, <1>2 DEF StoreEvent, TypeOK, Counts
  <2>2. missed' \subseteq Keys
    BY <1>1, <1>3, SharedKeys DEF TypeOK
  <2>3. TypeOK'
    BY <1>1, <1>3, <2>1, <2>2 DEF TypeOK
  <2>4. ASSUME NEW d \in Customers
        PROVE  /\ pending'[d] <= events'[d] + unstored'[d]
               /\ events'[d] + unstored'[d] <= MaxEvents
    <3>1. CASE d = c
      BY <1>2, <1>3, <3>1
    <3>2. CASE d # c
      BY <1>1, <1>3, <3>2 DEF PendingInv
    <3>3. QED
      BY <3>1, <3>2
  <2>5. QED
    BY <2>3, <2>4 DEF PendingInv
<1>5. W' = W
  BY <1>3 DEF W
<1>6. \A d \in Customers : \A k \in (Shared \X {d}) \ missed' : d = c => k \in W.left
  BY <1>3
<1>7. WorkerInv'
  <2>1. ASSUME NEW d \in Customers, Works(d)
        PROVE  Works(d)'
    <3>1. ASSUME W.pc # "aborted", NEW k \in (Shared \X {d}) \ missed'
          PROVE  /\ W.pc # "ready" /\ k = W.key => W.value = events'[d]
                 /\ k \in Handled(d) => Written(Worker)[k] = events'[d]
      <4>1. CASE d = c
        <5>1. k \in W.left
          BY <1>6, <3>1, <4>1
        <5>2. W.pc # "ready" => k # W.key
          <6>1. W.pc # "ready" => W.pc \in {"counted", "selected"}
            BY <1>1, <2>1, <3>1 DEF Works, TypeOK, Session, Sessions, W
          <6>2. QED
            BY <2>1, <5>1, <6>1 DEF Works
        <5>3. QED
          BY <5>1, <5>2 DEF Handled
      <4>2. CASE d # c
        BY <1>3, <2>1, <3>1, <4>2 DEF Works
      <4>3. QED
        BY <4>1, <4>2
    <3>2. Handled(d)' = Handled(d) /\ Written(Worker)' = Written(Worker)
      BY <1>3, <1>5 DEF Handled, Written
    <3>3. QED
      BY <1>3, <1>5, <2>1, <3>1, <3>2 DEF Works
  <2>2. QED
    BY <1>5, <2>1 DEF JobsInv, WorkerInv
<1>8. RecountsLast'
  <2>1. ASSUME NEW d \in Customers, events'[d] > 0, pending'[d] = 0, ~InHand(d)',
               NEW k \in (Shared \X {d}) \ missed'
        PROVE  row'[k] = events'[d]
    <3>1. CASE d = c
      <4>1. k \in W.left /\ k[2] = c
        BY <1>6, <2>1, <3>1, SharedKeys
      <4>2. W.pc # "idle"
        BY <4>1 DEF JobsInv, WorkerInv
      <4>3. QED
        BY <1>3, <2>1, <3>1, <4>1, <4>2 DEF InHand, W
    <3>2. CASE d # c
      BY <1>3, <2>1, <3>2 DEF JobsInv, RecountsLast, InHand
    <3>3. QED
      BY <3>1, <3>2
  <2>2. QED
    BY <2>1 DEF RecountsLast
<1>9. QED
  BY <1>4, <1>7, <1>8 DEF JobsInv

\* A message taken is in the worker's hands before anything is counted for it.
LEMMA TakeStep ==
    ASSUME JobsInv, NEW c \in Customers, TakeMessage(c)
    PROVE  JobsInv'
<1> USE JobsAssumption
<1>1. TypeOK /\ Worker \in Sessions /\ W \in Session /\ PendingInv
  BY DEF JobsInv, TypeOK, W, Sessions
<1>2. W.pc = "idle" /\ W.draft = Nothing
  BY DEF TakeMessage, Begin, JobsInv, WorkerInv, W
<1> DEFINE rec == [W EXCEPT !.pc = "ready", !.left = Shared \X {c}]
<1>3. /\ rec \in Session /\ rec.pc = "ready" /\ rec.left = Shared \X {c}
      /\ rec.draft = Nothing
  BY <1>1, <1>2, SharedKeys DEF Session
<1>4. session' = [session EXCEPT ![Worker] = rec]
  BY <1>1 DEF TakeMessage, Begin, W
<1> HIDE DEF rec
<1>5. W' = rec
  BY <1>1, <1>4 DEF W, TypeOK
<1>6. pending[c] \in Nat /\ pending[c] > 0 /\ pending[c] <= MaxEvents
      /\ events[c] + unstored[c] \in Nat
  BY <1>1 DEF TakeMessage, TypeOK, Counts, PendingInv
<1>7. /\ pending' = [pending EXCEPT ![c] = pending[c] - 1]
      /\ missed' = missed \ (Shared \X {c})
      /\ UNCHANGED <<events, unstored, row>>
  BY DEF TakeMessage
<1>8. pending'[c] = pending[c] - 1
      /\ \A d \in Customers : d # c => pending'[d] = pending[d]
  BY <1>1, <1>7 DEF TypeOK
<1>9. TypeOK' /\ PendingInv'
  <2>1. pending' \in [Customers -> Counts]
    BY <1>1, <1>6, <1>7 DEF TypeOK, Counts
  <2>2. session' \in [Sessions -> Session]
    BY <1>1, <1>3, <1>4 DEF TypeOK
  <2>3. PendingInv'
    BY <1>1, <1>6, <1>7, <1>8 DEF PendingInv
  <2>4. QED
    BY <1>1, <1>7, <2>1, <2>2, <2>3 DEF TypeOK
<1>10. WorkerInv'
  <2>1. Handled(c)' = {}
    BY <1>3, <1>5 DEF Handled
  <2>2. \A k \in Keys : Nothing[k] = None
    BY DEF Nothing
  <2>3. W'.left # {}
    BY <1>3, <1>5, SharedKeys
  <2>4. Works(c)'
    BY <1>3, <1>5, <2>1, <2>2, <2>3 DEF Works
  <2>5. QED
    BY <1>3, <1>5, <2>4 DEF WorkerInv
<1>11. RecountsLast'
  <2>1. InHand(c)'
    <3>1. W'.left # {} /\ \A k \in W'.left : k[2] = c
      BY <1>3, <1>5, SharedKeys
    <3>2. QED
      BY <1>3, <1>5, <3>1 DEF InHand, W
  <2>2. \A d \in Customers : ~InHand(d)
    BY <1>2 DEF InHand, W
  <2>3. ASSUME NEW d \in Customers, d # c, events'[d] > 0, pending'[d] = 0,
               NEW k \in (Shared \X {d}) \ missed'
        PROVE  row'[k] = events'[d]
    <3>1. k \notin missed
      BY <1>7, <2>3
    <3>2. QED
      BY <1>7, <1>8, <2>2, <2>3, <3>1 DEF JobsInv, RecountsLast
  <2>4. QED
    BY <2>1, <2>3 DEF RecountsLast
<1>12. QED
  BY <1>9, <1>10, <1>11 DEF JobsInv

\* A worker that goes on with the customer it works for.
LEMMA WorkGoesOn ==
    ASSUME JobsInv, TypeOK', NEW c \in Customers, Works(c), Works(c)',
           UNCHANGED <<events, unstored, pending, row, missed>>
    PROVE  JobsInv'
<1>1. \A d \in Customers : (InHand(d) <=> d = c) /\ (InHand(d)' <=> d = c)
  <2> SUFFICES ASSUME NEW d \in Customers
               PROVE  (InHand(d) <=> d = c) /\ (InHand(d)' <=> d = c)
    OBVIOUS
  <2>1. W.pc # "idle" /\ W'.pc # "idle"
    BY DEF Works
  <2>2. /\ W.left \in SUBSET (Shared \X {c}) /\ W'.left \in SUBSET (Shared \X {c})
        /\ W.left = {} => W.key \in Shared \X {c}
        /\ W'.left = {} => W'.key \in Shared \X {c}
    BY DEF Works
  <2>3. (IF W.left = {} THEN W.key[2] = d ELSE \E k \in W.left : k[2] = d) <=> d = c
    BY <2>2, HandOf
  <2>4. (IF W'.left = {} THEN W'.key[2] = d ELSE \E k \in W'.left : k[2] = d) <=> d = c
    BY <2>2, HandOf
  <2>5. QED
    BY <2>1, <2>3, <2>4 DEF InHand, W
<1>2. RecountsLast'
  BY <1>1 DEF JobsInv, RecountsLast
<1>3. WorkerInv'
  BY DEF Works, WorkerInv
<1>4. QED
  BY <1>2, <1>3 DEF JobsInv, PendingInv

\* The worker's counts, its SELECTs and its upserts, and a statement that fails.
LEMMA WorkerSteps ==
    ASSUME JobsInv, Step(Worker) \/ StatementFails(Worker)
    PROVE  JobsInv'
<1> USE JobsAssumption
<1>1. TypeOK /\ Worker \in Sessions /\ W \in Session
  BY DEF JobsInv, TypeOK, W, Sessions
<1>2. UNCHANGED <<events, unstored, pending, row, missed>>
  BY DEF Step, CountEvents, SelectRow, Upsert, StatementFails
<1>3. W.pc # "idle"
  BY DEF Step, CountEvents, SelectRow, Upsert, StatementFails, W
<1>4. PICK c \in Customers : Works(c)
  BY <1>3 DEF JobsInv, WorkerInv
<1>5. /\ Shared \X {c} \subseteq Keys
      /\ \A k \in Shared \X {c} : k[2] = c
  BY SharedKeys
<1>6. \A k \in Keys : Written(Worker)[k] = IF W.draft[k] = None THEN row[k] ELSE W.draft[k]
  BY DEF Written, W
<1>7. \A k \in Keys : Written(Worker)'[k] = IF W'.draft[k] = None THEN row[k] ELSE W'.draft[k]
  BY <1>2 DEF Written, W
<1>8. CASE CountEvents(Worker)
  <2>1. PICK k \in W.left, rec \in Session :
          /\ session' = [session EXCEPT ![Worker] = rec]
          /\ rec.pc = "counted" /\ rec.key = k /\ rec.left = W.left \ {k}
          /\ rec.value = events[k[2]] /\ rec.draft = W.draft
    BY <1>1, <1>8, CountResult DEF W
  <2>2. TypeOK' /\ W' = rec
    BY <1>1, <1>2, <2>1, SessionType DEF W
  <2>3. W.pc = "ready" /\ k \in Shared \X {c} /\ k[2] = c
    BY <1>4, <1>5, <1>8, <2>1 DEF CountEvents, W, Works
  <2>4. Handled(c)' = Handled(c)
    BY <2>1, <2>2, <2>3 DEF Handled
  <2>5. \A l \in Keys : Written(Worker)'[l] = Written(Worker)[l]
    BY <1>6, <1>7, <2>1, <2>2
  <2>6. Handled(c) \subseteq Keys
    BY <1>5 DEF Handled
  <2>7. Works(c)'
    BY <1>2, <1>4, <2>1, <2>2, <2>3, <2>4, <2>5, <2>6 DEF Works
  <2>8. QED
    BY <1>2, <1>4, <2>2, <2>7, WorkGoesOn
<1>9. CASE SelectRow(Worker)
  <2>1. PICK rec \in Session :
          /\ session' = [session EXCEPT ![Worker] = rec]
          /\ rec.pc = "selected" /\ rec.seen = row[W.key]
          /\ rec.key = W.key /\ rec.left = W.left
          /\ rec.value = W.value /\ rec.draft = W.draft
    BY <1>1, <1>9, SelectResult DEF W
  <2>2. TypeOK' /\ W' = rec
    BY <1>1, <1>2, <2>1, SessionType DEF W
  <2>3. W.pc = "counted"
    BY <1>9 DEF SelectRow, W
  <2>4. Handled(c)' = Handled(c)
    BY <2>1, <2>2, <2>3 DEF Handled
  <2>5. \A l \in Keys : Written(Worker)'[l] = Written(Worker)[l]
    BY <1>6, <1>7, <2>1, <2>2
  <2>6. Handled(c) \subseteq Keys
    BY <1>5 DEF Handled
  <2>7. Works(c)'
    BY <1>2, <1>4, <2>1, <2>2, <2>3, <2>4, <2>5, <2>6 DEF Works
  <2>8. QED
    BY <1>2, <1>4, <2>2, <2>7, WorkGoesOn
<1>10. CASE Upsert(Worker)
  <2>1. /\ W.pc = "selected" /\ W.key \in Shared \X {c} /\ W.key \notin W.left
        /\ W.key \in Keys /\ W.seen = row[W.key] /\ W.draft \in [Keys -> Values]
        /\ W.value \in Counts
    BY <1>1, <1>4, <1>5, <1>10 DEF Upsert, Works, W, Session
  <2>2. W.value # None
    BY <2>1 DEF Counts
  <2>3. PICK rec \in Session :
          /\ session' = [session EXCEPT ![Worker] = rec]
          /\ rec.pc = "ready" /\ rec.key = W.key /\ rec.left = W.left
          /\ \/ W.seen = W.value /\ rec.draft = W.draft
             \/ rec.draft = [W.draft EXCEPT ![W.key] = W.value]
    BY <1>1, <1>10, <2>1, UpsertResult DEF W
  <2>4. TypeOK' /\ W' = rec
    BY <1>1, <1>2, <2>3, SessionType DEF W
  <2>5. Handled(c)' = Handled(c) \union {W.key} /\ W.key \notin Handled(c)
    BY <2>1, <2>3, <2>4 DEF Handled
  <2>6. W.draft[W.key] = None
    BY <1>4, <2>1, <2>5 DEF Works
  <2>7. Written(Worker)'[W.key] = W.value
    BY <1>7, <2>1, <2>2, <2>3, <2>4, <2>6
  <2>8. \A l \in Keys : l # W.key => /\ W'.draft[l] = W.draft[l]
                                     /\ Written(Worker)'[l] = Written(Worker)[l]
    BY <1>6, <1>7, <2>1, <2>3, <2>4
  <2>9. \A l \in Keys : W'.draft[l] # None => l \in Handled(c)'
    BY <1>4, <2>5, <2>8 DEF Works
  <2>10. \A l \in Handled(c)' \ missed : Written(Worker)'[l] = events[c]
    <3>1. SUFFICES ASSUME NEW l \in (Handled(c) \union {W.key}) \ missed
                   PROVE  Written(Worker)'[l] = events[c]
      BY <2>5
    <3>2. l \in Keys
      BY <1>5, <2>1 DEF Handled
    <3>3. CASE l = W.key
      BY <1>4, <2>1, <2>7, <3>1, <3>3 DEF Works
    <3>4. CASE l # W.key
      <4>1. l \in Handled(c) /\ l \in (Shared \X {c}) \ missed
        BY <3>1, <3>4 DEF Handled
      <4>2. Written(Worker)[l] = events[c]
        BY <1>4, <2>1, <4>1 DEF Works
      <4>3. QED
        BY <2>8, <3>2, <3>4, <4>2
    <3>5. QED
      BY <3>3, <3>4
  <2>11. Works(c)'
    BY <1>2, <1>4, <2>1, <2>3, <2>4, <2>9, <2>10 DEF Works
  <2>12. QED
    BY <1>2, <1>4, <2>4, <2>11, WorkGoesOn
<1>11. CASE StatementFails(Worker)
  <2>1. PICK rec \in Session :
          /\ session' = [session EXCEPT ![Worker] = rec]
          /\ rec.pc = "aborted" /\ rec.left = W.left /\ rec.key = W.key /\ rec.draft = Nothing
    BY <1>1, <1>11, AbortType DEF StatementFails, W
  <2>2. TypeOK' /\ W' = rec
    BY <1>1, <1>2, <2>1, SessionType DEF W
  <2>3. \A k \in Keys : Nothing[k] = None
    BY DEF Nothing
  <2>4. Works(c)'
    BY <1>4, <2>1, <2>2, <2>3 DEF Works
  <2>5. QED
    BY <1>2, <1>4, <2>2, <2>4, WorkGoesOn
<1>12. QED
  BY <1>8, <1>9, <1>10, <1>11 DEF Step

\* The worker is through with every row of its customer when it commits.
LEMMA EndStep ==
    ASSUME JobsInv, EndMessage
    PROVE  JobsInv'
<1> USE JobsAssumption
<1>1. TypeOK /\ Worker \in Sessions /\ W \in Session
  BY DEF JobsInv, TypeOK, W, Sessions
<1>2. W.pc # "idle"
  BY DEF EndMessage, Through, W
<1>3. PICK c \in Customers : Works(c)
  BY <1>2 DEF JobsInv, WorkerInv
<1>4. (W.pc = "ready" /\ W.left = {}) \/ W.pc = "aborted"
  BY DEF EndMessage, Through, W
<1>5. /\ Shared \X {c} \subseteq Keys
      /\ \A k \in Shared \X {c} : k[2] = c
  BY SharedKeys
<1>6. session' = [session EXCEPT ![Worker] = Idle] /\ row' = Written(Worker)
      /\ UNCHANGED <<events, unstored, pending>>
  BY DEF EndMessage, Closed
<1>7. W' = Idle
  BY <1>1, <1>6 DEF W, TypeOK
<1>8. W.draft \in [Keys -> Values]
  BY <1>1 DEF Session
<1>9. \A k \in Keys : row'[k] = IF W.draft[k] = None THEN row[k] ELSE W.draft[k]
  BY <1>6 DEF Written, W
<1>10. \A d \in Customers : InHand(d) <=> d = c
  <2>1. SUFFICES ASSUME NEW d \in Customers
                 PROVE  InHand(d) <=> d = c
    OBVIOUS
  <2>2. W.left \in SUBSET (Shared \X {c}) /\ (W.left = {} => W.key \in Shared \X {c})
    BY <1>3 DEF Works
  <2>3. (IF W.left = {} THEN W.key[2] = d ELSE \E k \in W.left : k[2] = d) <=> d = c
    BY <2>2, HandOf
  <2>4. QED
    BY <1>2, <2>3 DEF InHand, W
<1>11. /\ missed \subseteq missed'
       /\ W.pc = "aborted" => Shared \X {c} \subseteq missed'
       /\ missed' \subseteq Keys
  <2>1. \A d \in Customers : Shared \X {d} \subseteq Keys
    BY SharedKeys
  <2>2. missed' = IF W.pc = "aborted"
                    THEN missed \union UNION {Shared \X {d} : d \in {d \in Customers : InHand(d)}}
                    ELSE missed
    BY DEF EndMessage, W
  <2>3. QED
    BY <1>1, <1>10, <2>1, <2>2 DEF TypeOK
<1>12. TypeOK'
  <2>1. row' = [k \in Keys |-> IF W.draft[k] = None THEN row[k] ELSE W.draft[k]]
    BY <1>6 DEF Written, W
  <2>2. row' \in [Keys -> Values]
    BY <1>1, <1>8, <2>1 DEF TypeOK
  <2>3. session' \in [Sessions -> Session]
    BY <1>1, <1>6, IdleType DEF TypeOK
  <2>4. QED
    BY <1>1, <1>6, <1>11, <2>2, <2>3 DEF TypeOK
<1>13. WorkerInv' /\ PendingInv'
  BY <1>6, <1>7 DEF JobsInv, WorkerInv, PendingInv, Idle
<1>14. ASSUME NEW d \in Customers, events[d] > 0, pending[d] = 0,
              NEW k \in (Shared \X {d}) \ missed'
       PROVE  row'[k] = events[d]
  <2>1. k \in Keys /\ k \notin missed
    BY <1>11, <1>14, SharedKeys
  <2>2. CASE d = c
    <3>1. W.pc = "ready" /\ W.left = {}
      BY <1>4, <1>11, <1>14, <2>2
    <3>2. k \in Handled(c)
      BY <1>14, <2>2, <3>1 DEF Handled
    <3>3. Written(Worker)[k] = events[c]
      BY <1>3, <1>14, <2>1, <2>2, <3>1, <3>2 DEF Works
    <3>4. QED
      BY <1>6, <2>2, <3>3
  <2>3. CASE d # c
    <3>1. k \notin Shared \X {c}
      BY <1>14, <2>3
    <3>2. W.draft[k] = None
      BY <1>3, <2>1, <3>1 DEF Works, Handled
    <3>3. row[k] = events[d]
      BY <1>10, <1>14, <2>1, <2>3 DEF JobsInv, RecountsLast
    <3>4. QED
      BY <1>9, <2>1, <3>2, <3>3
  <2>4. QED
    BY <2>2, <2>3
<1>15. RecountsLast'
  BY <1>6, <1>14 DEF RecountsLast
<1>16. QED
  BY <1>12, <1>13, <1>15 DEF JobsInv

\* The invariant is inductive.
LEMMA NextJobsInv == JobsInv /\ [Next]_vars => JobsInv'
<1>1. ASSUME JobsInv, UNCHANGED vars
      PROVE  JobsInv'
  <2>1. TypeOK' /\ W' = W
    BY <1>1 DEF vars, JobsInv, TypeOK, W
  <2>2. QED
    BY <1>1, <2>1, OtherSteps DEF vars
<1>2. ASSUME JobsInv, NEW s \in Sessions, Step(s) \/ StatementFails(s)
      PROVE  JobsInv'
  BY <1>2, JobSteps, WorkerSteps DEF Sessions
<1>3. QED
  BY <1>1, <1>2, PublishStep, StoreStep, TakeStep, JobSteps, EndStep DEF Next

\* Every state the jobs and the worker reach satisfies the invariant.
LEMMA JobsInvHolds == Spec => []JobsInv
BY InitJobsInv, NextJobsInv, PTL DEF Spec

-----------------------------------------------------------------------------
(* The order of the locks *)

\* A job has in hand, and has written, rows of its own metric alone.
OwnRows(j) ==
    /\ session[j].left \subseteq {j} \X Customers
    /\ session[j].pc \in {"counted", "selected"} => session[j].key[1] = j
    /\ \A k \in Keys : session[j].draft[k] # None => k[1] = j

OwnRowsInv == \A j \in Jobs : OwnRows(j)

\* A step of one job keeps it to its own rows.
LEMMA OwnRowsStep ==
    ASSUME TypeOK, NEW j \in Jobs, OwnRows(j),
           StartRun(j) \/ StatementFails(j) \/ CloseSession(j) \/ Step(j)
    PROVE  /\ OwnRows(j)'
           /\ \A t \in Sessions \ {j} : session'[t] = session[t]
<1> USE DEF OwnRows
<1>1. j \in Sessions /\ session[j] \in Session /\ \A k \in Keys : Nothing[k] = None
  BY DEF TypeOK, Sessions, Nothing
<1>2. \A rec \in Session : session' = [session EXCEPT ![j] = rec] =>
        session'[j] = rec /\ \A t \in Sessions \ {j} : session'[t] = session[t]
  BY <1>1 DEF TypeOK
<1>3. CASE StartRun(j)
  <2> DEFINE rec == [session[j] EXCEPT !.pc = "ready", !.left = {j} \X Customers]
  <2>1. session' = [session EXCEPT ![j] = rec]
    BY <1>1, <1>3 DEF StartRun, Begin
  <2>2. rec \in Session /\ rec.pc = "ready" /\ rec.left = {j} \X Customers
        /\ rec.draft = session[j].draft
    BY <1>1 DEF Session, Keys
  <2> HIDE DEF rec
  <2>3. QED
    BY <1>2, <2>1, <2>2
<1>4. CASE StatementFails(j)
  BY <1>1, <1>2, <1>4, AbortType DEF StatementFails
<1>5. CASE CloseSession(j)
  <2>1. session' = [session EXCEPT ![j] = Idle]
    BY <1>5 DEF CloseSession, Closed
  <2>2. Idle.pc = "idle" /\ Idle.left = {} /\ Idle.draft = Nothing
    BY DEF Idle
  <2>3. QED
    BY <1>1, <1>2, <2>1, <2>2, IdleType
<1>6. CASE CountEvents(j)
  <2>1. PICK k \in session[j].left : \E rec \in Session :
          /\ session' = [session EXCEPT ![j] = rec]
          /\ rec.pc = "counted" /\ rec.key = k /\ rec.left = session[j].left \ {k}
          /\ rec.draft = session[j].draft
    BY <1>1, <1>6, CountResult
  <2>2. k[1] = j
    BY <2>1
  <2>3. QED
    BY <1>2, <2>1, <2>2
<1>7. CASE SelectRow(j)
  <2>1. session[j].pc = "counted"
    BY <1>7 DEF SelectRow
  <2>2. QED
    BY <1>1, <1>2, <1>7, <2>1, SelectResult
<1>8. CASE Upsert(j)
  <2>1. session[j].pc = "selected" /\ session[j].key \in Keys
        /\ session[j].draft \in [Keys -> Values]
    BY <1>1, <1>8 DEF Upsert, Session
  <2>2. PICK rec \in Session :
          /\ session' = [session EXCEPT ![j] = rec]
          /\ rec.left = session[j].left
          /\ \/ /\ rec.pc = "ready"
                /\ \/ rec.draft = session[j].draft
                   \/ rec.draft = [session[j].draft EXCEPT ![session[j].key] = session[j].value]
             \/ rec.pc = "aborted" /\ rec.draft = Nothing
    BY <1>1, <1>8, UpsertResult
  <2>3. \A k \in Keys : rec.draft[k] # None => k[1] = j
    BY <1>1, <2>1, <2>2
  <2>4. QED
    BY <1>2, <2>2, <2>3
<1>9. QED
  BY <1>3, <1>4, <1>5, <1>6, <1>7, <1>8 DEF Step

\* The worker's steps leave the jobs' sessions alone, and so do events.
LEMMA JobsUntouched ==
    ASSUME TypeOK,
           \/ \E c \in Customers : PublishEvent(c) \/ StoreEvent(c) \/ TakeMessage(c)
           \/ Step(Worker) \/ StatementFails(Worker) \/ EndMessage \/ UNCHANGED vars
    PROVE  \A j \in Jobs : session'[j] = session[j]
<1>1. Worker \in Sessions /\ \A j \in Jobs : j \in Sessions /\ j # Worker
  BY JobsAssumption DEF Sessions
<1>2. CASE Step(Worker) \/ StatementFails(Worker)
  <2>1. \E rec \in Session : session' = [session EXCEPT ![Worker] = rec]
    BY <1>1, <1>2, CountResult, SelectResult, UpsertResult, AbortType DEF Step, StatementFails
  <2>2. QED
    BY <1>1, <2>1 DEF TypeOK
<1>3. CASE \E c \in Customers : TakeMessage(c)
  BY <1>1, <1>3 DEF TakeMessage, Begin, TypeOK
<1>4. CASE EndMessage
  BY <1>1, <1>4 DEF EndMessage, Closed, TypeOK
<1>5. QED
  BY <1>2, <1>3, <1>4 DEF PublishEvent, StoreEvent, vars

\* No job ever writes a row of another metric than its own.
LEMMA OwnRowsHold == Spec => []OwnRowsInv
<1>1. Init => OwnRowsInv
  BY DEF Init, OwnRowsInv, OwnRows, Idle, Nothing, Sessions
<1>2. ASSUME TypeOK, OwnRowsInv, [Next]_vars
      PROVE  OwnRowsInv'
  <2>1. CASE \E j \in Jobs : StartRun(j) \/ StatementFails(j) \/ CloseSession(j) \/ Step(j)
    <3>1. PICK j \in Jobs : StartRun(j) \/ StatementFails(j) \/ CloseSession(j) \/ Step(j)
      BY <2>1
    <3>2. OwnRows(j)' /\ \A i \in Jobs \ {j} : session'[i] = session[i]
      BY <1>2, <3>1, OwnRowsStep DEF OwnRowsInv, Sessions
    <3>3. QED
      BY <1>2, <3>2 DEF OwnRowsInv, OwnRows
  <2>2. CASE \A j \in Jobs : session'[j] = session[j]
    BY <1>2, <2>2 DEF OwnRowsInv, OwnRows
  <2>3. QED
    BY <1>2, <2>1, <2>2, JobsUntouched DEF Next, Sessions
<1>3. JobsInv => TypeOK
  BY DEF JobsInv
<1>4. QED
  BY <1>1, <1>2, <1>3, JobsInvHolds, PTL DEF Spec

\* Two jobs never want the same row, and a job that holds the row the worker wants
\* wants none that the worker holds.
LEMMA NoCycle ==
    ASSUME JobsInv, OwnRowsInv
    PROVE  LocksHaveNoCycle
<1>1. \A s \in Sessions : session[s].key \in Keys
  BY DEF JobsInv, TypeOK, Session
<1>2. ASSUME NEW i \in Jobs, NEW j \in Jobs
      PROVE  ~WaitsFor(i, j)
  BY <1>1 DEF WaitsFor, OwnRowsInv, OwnRows, Sessions
<1>3. ASSUME NEW j \in Jobs, WaitsFor(Worker, j)
      PROVE  ~WaitsFor(j, Worker)
  <2>1. W.pc = "selected" /\ W.key[1] = j /\ W.key \in Keys
    BY <1>1, <1>3 DEF WaitsFor, OwnRowsInv, OwnRows, W, Sessions
  <2>2. PICK c \in Customers : Works(c)
    BY <2>1 DEF JobsInv, WorkerInv
  <2>3. W.key \in Shared \X {c} /\ W.key \notin Handled(c)
    BY <2>1, <2>2 DEF Works, Handled
  <2>4. ASSUME WaitsFor(j, Worker)
        PROVE  FALSE
    <3>1. /\ session[j].key[1] = j /\ session[j].key \in Keys
          /\ session[j].key \in Handled(c)
      BY <1>1, <2>2, <2>4 DEF WaitsFor, OwnRowsInv, OwnRows, Works, W, Sessions
    <3>2. session[j].key = W.key
      BY <2>1, <2>3, <3>1 DEF Handled
    <3>3. QED
      BY <2>3, <3>1, <3>2
  <2>5. QED
    BY <2>4
<1>4. SUFFICES ASSUME NEW group \in SUBSET Sessions, group # {}
               PROVE  \E s \in group : \A t \in group : ~WaitsFor(s, t)
  BY DEF LocksHaveNoCycle
<1>5. ~WaitsFor(Worker, Worker)
  BY DEF WaitsFor
<1>6. CASE \E j \in group \ {Worker} : Worker \in group => WaitsFor(Worker, j)
  <2>1. PICK j \in group \ {Worker} : Worker \in group => WaitsFor(Worker, j)
    BY <1>6
  <2>2. j \in Jobs /\ group \subseteq Jobs \union {Worker}
    BY <1>4, <2>1 DEF Sessions
  <2>3. \A t \in group : ~WaitsFor(j, t)
    BY <1>2, <1>3, <2>1, <2>2
  <2>4. QED
    BY <2>1, <2>3
<1>7. CASE Worker \in group /\ \A j \in group \ {Worker} : ~WaitsFor(Worker, j)
  BY <1>5, <1>7
<1>8. QED
  BY <1>4, <1>6, <1>7

-----------------------------------------------------------------------------
(* The results *)

\* Events, rows and sessions keep their shape, for any number of customers, jobs
\* and events (jobs/*.py, entrypoint.py).
THEOREM JobsTypes == Spec => []TypeOK
<1>1. JobsInv => TypeOK
  BY DEF JobsInv
<1>2. QED
  BY <1>1, JobsInvHolds, PTL

\* Whatever jobs are under way, the worker's INSERT never meets a row that is there
\* by then: no exception is swallowed for it and no recount lost
\* (repositories/metric.py:71-95, entrypoint.py:56-65).
THEOREM WorkerNeverCollides == Spec => []WorkerInsertsOnce
<1>1. JobsInv => WorkerInsertsOnce
  BY DEF JobsInv, WorkerInv, Works, WorkerInsertsOnce, W
<1>2. QED
  BY <1>1, JobsInvHolds, PTL

\* Once the worker has handled a customer's messages, both shared metrics account
\* for every stored event of it, however many jobs run beside it, but for a metric
\* counted before an event was stored and one whose recount failed.
THEOREM RecountsPrevail == Spec => []RecountsLast
<1>1. JobsInv => RecountsLast
  BY DEF JobsInv
<1>2. QED
  BY <1>1, JobsInvHolds, PTL

\* However many jobs run, on however many customers, their locks and the worker's
\* form no cycle (jobs/*.py, metrics.py:43-47).
THEOREM LocksAreOrdered == Spec => []LocksHaveNoCycle
BY JobsInvHolds, OwnRowsHold, NoCycle, PTL

-----------------------------------------------------------------------------
(* The health score *)

\* The score is a whole number from 0 to 90, however many tickets there are: the
\* clamp at 100 is never reached (health_score.py:36-43, 182-185).
THEOREM ScoreInRange == ASSUME NEW a \in Activity PROVE Score(a) \in 0..90
<1>1. a.tickets \in Nat
  BY DEF Activity
<1>2. Points(a) \in Int /\ Points(a) <= 90
  BY <1>1 DEF Points
<1>3. QED
  BY <1>2 DEF Score

\* One more ticket never raises the score, and lowers it unless it is 0 already
\* (health_score.py:158-168, 182-183).
THEOREM TicketsLowerScore ==
    ASSUME NEW a \in Activity, NEW b \in Activity,
           b.meeting = a.meeting, b.usage = a.usage, b.recent = a.recent,
           b.tickets > a.tickets
    PROVE  Score(b) < Score(a) \/ Score(a) = 0
<1>1. a.tickets \in Nat /\ b.tickets \in Nat
  BY DEF Activity
<1>2. Points(a) \in Int /\ Points(b) \in Int /\ Points(b) < Points(a) /\ Points(a) <= 90
  BY <1>1 DEF Points
<1>3. QED
  BY <1>2 DEF Score

\* Inactivity alone puts no customer at risk: one that is has at least five
\* tickets of the last 30 days, so that its volume is at the other threshold of
\* the alerts worker (alerts.py:26-27, 57-71).
THEOREM AtRiskHasTickets == ASSUME NEW a \in Activity, AtRisk(a) PROVE a.tickets >= 5
<1>1. a.tickets \in Nat
  BY DEF Activity
<1>2. Points(a) \in Int /\ Points(a) >= 60 - 5 * a.tickets /\ Points(a) <= 90
  BY <1>1 DEF Points
<1>3. Points(a) < 40
  BY <1>2 DEF AtRisk, Score
<1>4. QED
  BY <1>1, <1>2, <1>3

==============================================================================
