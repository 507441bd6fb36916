------------------------- MODULE EventDelivery_proofs -------------------------
(***************************************************************************)
(* Proofs about EventDelivery, for any sets of events and workers and any  *)
(* number of faults, and about EventPipeline, for any customers, tickets   *)
(* and threshold.  Those about EventDelivery do not use what EventPipeline *)
(* assumes of its constants.                                               *)
(***************************************************************************)
EXTENDS EventPipeline, SequenceTheorems, FiniteSetTheorems, TLAPS

-----------------------------------------------------------------------------
(* Type correctness *)

\* Returning the message in hand to the queue keeps the types of the queues.
LEMMA PutBackType ==
    ASSUME TypeOK, NEW w \in Workers, PutBack(w)
    PROVE  /\ queue' \in [Workers -> Seq(Events)]
           /\ unacked' \in [Workers -> {<<>>} \union {<<e>> : e \in Events}]
           /\ redelivered' \in [Workers -> SUBSET Events]
<1>1. unacked[w] \in Seq(Events) /\ queue[w] \in Seq(Events)
  <2>1. unacked[w] = <<>> \/ \E e \in Events : unacked[w] = <<e>>
    BY DEF TypeOK
  <2>2. \A e \in Events : <<e>> \in Seq(Events)
    OBVIOUS
  <2>3. <<>> \in Seq(Events)
    OBVIOUS
  <2>4. queue[w] \in Seq(Events)
    BY DEF TypeOK
  <2>5. QED
    BY <2>1, <2>2, <2>3, <2>4
<1>2. unacked[w] \o queue[w] \in Seq(Events)
  BY <1>1, ConcatProperties
<1>3. QED
  BY <1>2 DEF TypeOK, PutBack

\* The event in hand is an event, whenever there is one.
LEMMA CurrentType ==
    ASSUME TypeOK, NEW w \in Workers, unacked[w] # <<>>
    PROVE  Current(w) \in Events /\ unacked[w] = <<Current(w)>>
BY DEF TypeOK, Current

\* A worker holds a message exactly while it is neither stopped nor idle.
HandInv ==
    \A w \in Workers : unacked[w] = <<>> <=> pc[w] \in {"stopped", "idle"}

TypeInv == TypeOK /\ HandInv

\* No worker runs at first, and none has a message in hand.
LEMMA InitTypeInv == Init => TypeInv
BY DeliveryAssumption DEF Init, TypeInv, TypeOK, HandInv, RequestStatus, WorkerStatus

\* The steps of the API process leave the workers alone.
LEMMA ApiTypeInv ==
    ASSUME TypeInv,
           \/ \E e \in Events : Publish(e) \/ RefuseUnconnected(e) \/ Answer202(e)
           \/ RestartApi
    PROVE  TypeInv'
<1>1. ASSUME NEW e \in Events, Publish(e)
      PROVE  TypeInv'
  BY <1>1 DEF Publish, TypeInv, TypeOK, HandInv, RequestStatus
<1>2. ASSUME NEW e \in Events, RefuseUnconnected(e)
      PROVE  TypeInv'
  BY <1>2 DEF RefuseUnconnected, brokerVars, TypeInv, TypeOK, HandInv, RequestStatus
<1>3. ASSUME NEW e \in Events, Answer202(e)
      PROVE  TypeInv'
  BY <1>3 DEF Answer202, brokerVars, TypeInv, TypeOK, HandInv, RequestStatus
<1>4. CASE RestartApi
  BY <1>4, DeliveryAssumption
  DEF RestartApi, brokerVars, TypeInv, TypeOK, HandInv, RequestStatus
<1>5. QED
  BY <1>1, <1>2, <1>3, <1>4

\* A running worker's own steps.
LEMMA WorkerTypeInv ==
    ASSUME TypeInv, NEW w \in Workers, WorkerStep(w)
    PROVE  TypeInv'
<1> USE DEF TypeInv
<1>1. CASE Deliver(w)
  <2>1. Head(queue[w]) \in Events /\ Tail(queue[w]) \in Seq(Events)
    BY <1>1, HeadTailProperties DEF Deliver, TypeOK
  <2>2. TypeOK'
    BY <1>1, <2>1 DEF Deliver, apiVars, TypeOK, WorkerStatus
  <2>3. QED
    BY <1>1, <2>2 DEF Deliver, apiVars, TypeOK, HandInv
<1>2. CASE HandlerReturns(w)
  BY <1>2 DEF HandlerReturns, apiVars, brokerVars, TypeOK, HandInv, WorkerStatus
<1>3. CASE HandlerFails(w)
  <2>1. Current(w) \in Events
    BY <1>3, CurrentType DEF HandlerFails, HandInv
  <2>2. QED
    BY <1>3, <2>1 DEF HandlerFails, apiVars, brokerVars, TypeOK, HandInv, WorkerStatus
<1>4. CASE CommitSucceeds(w)
  <2>1. Current(w) \in Events
    BY <1>4, CurrentType DEF CommitSucceeds, HandInv
  <2>2. QED
    BY <1>4, <2>1 DEF CommitSucceeds, apiVars, brokerVars, TypeOK, HandInv, WorkerStatus
<1>5. CASE CommitRaises(w)
  <2>1. Current(w) \in Events
    BY <1>5, CurrentType DEF CommitRaises, HandInv
  <2>2. QED
    BY <1>5, <2>1 DEF CommitRaises, apiVars, brokerVars, TypeOK, HandInv, WorkerStatus
<1>6. CASE Ack(w)
  <2>1. Current(w) \in Events
    BY <1>6, CurrentType DEF Ack, MayAck, HandInv
  <2>2. Append(settled[w], Current(w)) \in Seq(Events)
    BY <2>1 DEF TypeOK
  <2>3. QED
    BY <1>6, <2>2 DEF Ack, apiVars, TypeOK, HandInv, WorkerStatus
<1>7. CASE Requeue(w)
  <2>1. TypeOK'
    BY <1>7, PutBackType DEF Requeue, apiVars, TypeOK, WorkerStatus
  <2>2. QED
    BY <1>7, <2>1 DEF Requeue, PutBack, apiVars, TypeOK, HandInv
<1>8. QED
  BY <1>1, <1>2, <1>3, <1>4, <1>5, <1>6, <1>7 DEF WorkerStep

\* Starting, stopping and losing things.
LEMMA FaultTypeInv ==
    ASSUME TypeInv,
           \/ RestartBroker
           \/ \E w \in Workers :
                StartWorker(w) \/ Crash(w) \/ Sigterm(w) \/ CloseConsumer(w) \/ LoseConnection(w)
    PROVE  TypeInv'
<1> USE DEF TypeInv
<1>1. ASSUME NEW w \in Workers, NEW next \in {"stopped", "idle"}, Interrupt(w, next),
             stopping' \subseteq Workers
      PROVE  TypeInv'
  <2>1. TypeOK'
    BY <1>1, PutBackType, DeliveryAssumption DEF Interrupt, apiVars, TypeOK, WorkerStatus
  <2>2. QED
    BY <1>1, <2>1 DEF Interrupt, PutBack, apiVars, TypeOK, HandInv
<1>2. ASSUME NEW w \in Workers, StartWorker(w)
      PROVE  TypeInv'
  BY <1>2 DEF StartWorker, apiVars, TypeOK, HandInv, WorkerStatus
<1>3. ASSUME NEW w \in Workers, Crash(w) \/ CloseConsumer(w) \/ LoseConnection(w)
      PROVE  TypeInv'
  BY <1>1, <1>3 DEF Crash, CloseConsumer, LoseConnection, TypeOK
<1>4. ASSUME NEW w \in Workers, Sigterm(w)
      PROVE  TypeInv'
  BY <1>4 DEF Sigterm, apiVars, brokerVars, TypeOK, HandInv
<1>5. CASE RestartBroker
  BY <1>5, DeliveryAssumption DEF RestartBroker, apiVars, TypeOK, HandInv, WorkerStatus
<1>6. QED
  BY <1>2, <1>3, <1>4, <1>5

\* The inductive form of type correctness: the types, and that a worker has a
\* message in hand exactly while it handles one (broker.py:126-143).
LEMMA TypeInvHolds == Spec => []TypeInv
<1>1. Init => TypeInv
  BY InitTypeInv
<1>2. TypeInv /\ [Next]_vars => TypeInv'
  <2>1. CASE UNCHANGED vars
    BY <2>1 DEF vars, TypeInv, TypeOK, HandInv
  <2>2. CASE Next
    BY <2>2, ApiTypeInv, WorkerTypeInv, FaultTypeInv DEF Next
  <2>3. QED
    BY <2>1, <2>2
<1>3. QED
  BY <1>1, <1>2, PTL DEF Spec

\* Type correctness; in particular a worker never has more than the one message
\* in hand that its prefetch of one allows (broker.py:104).
THEOREM TypeCorrect == Spec => []TypeOK
<1>1. TypeInv => TypeOK
  BY DEF TypeInv
<1>2. QED
  BY <1>1, TypeInvHolds, PTL

-----------------------------------------------------------------------------
(* No loss without a failure, and no event stored twice *)

\* What the progress of a worker's process says of the event in hand: its row
\* is still new when its insert was flushed, its writes are there once its
\* commit returned, and it failed if its handling or its commit raised.
ProgressInv ==
    \A w \in Workers :
        /\ pc[w] = "flushed" /\ w \in KeyedWorkers => applied[w][Current(w)] = 0
        /\ pc[w] = "committed" => applied[w][Current(w)] > 0
        /\ pc[w] \in {"swallowed", "raised"} => Current(w) \in faulted[w]

DeliveryInv == TypeInv /\ ProgressInv /\ LossNeedsFault /\ StoredOnce

\* Nothing is settled, committed or failed at first.
LEMMA InitDeliveryInv == Init => DeliveryInv
<1> SUFFICES ASSUME Init
             PROVE  DeliveryInv
  OBVIOUS
<1>1. TypeInv
  BY InitTypeInv
<1>2. \A w \in Workers : SettledEvents(w) = {}
  BY DEF Init, SettledEvents
<1>3. ProgressInv /\ StoredOnce
  BY DeliveryAssumption DEF Init, ProgressInv, StoredOnce
<1>4. LossNeedsFault
  BY <1>2 DEF LossNeedsFault
<1>5. QED
  BY <1>1, <1>3, <1>4 DEF DeliveryInv

\* Acknowledging adds the event in hand to the settled ones and no other.
LEMMA SettledByAck ==
    ASSUME TypeInv, NEW w \in Workers, Ack(w)
    PROVE  /\ \A v \in Workers \ {w} : SettledEvents(v)' = SettledEvents(v)
           /\ SettledEvents(w)' = SettledEvents(w) \union {Current(w)}
<1>1. Current(w) \in Events /\ settled[w] \in Seq(Events)
  BY CurrentType DEF Ack, MayAck, TypeInv, TypeOK, HandInv
<1>2. settled' = [settled EXCEPT ![w] = Append(@, Current(w))]
  BY DEF Ack
<1>3. settled'[w] = Append(settled[w], Current(w))
  BY <1>2 DEF TypeInv, TypeOK
<1>4. /\ DOMAIN settled'[w] = 1 .. (Len(settled[w]) + 1)
      /\ \A i \in 1 .. Len(settled[w]) : settled'[w][i] = settled[w][i]
      /\ settled'[w][Len(settled[w]) + 1] = Current(w)
  BY <1>1, <1>3
<1>5. DOMAIN settled[w] = 1 .. Len(settled[w]) /\ Len(settled[w]) \in Nat
  BY <1>1
<1>6. SettledEvents(w)' = SettledEvents(w) \union {Current(w)}
  BY <1>4, <1>5 DEF SettledEvents
<1>7. QED
  BY <1>2, <1>6 DEF SettledEvents, TypeInv, TypeOK

\* A step that settles nothing, takes no write back and forgets no failure keeps
\* LossNeedsFault.
LEMMA LossKept ==
    ASSUME LossNeedsFault, TypeOK, settled' = settled,
           \A v \in Workers : faulted[v] \subseteq faulted'[v],
           \A v \in Workers : \A e \in Events : applied'[v][e] >= applied[v][e],
           applied' \in [Workers -> [Events -> Nat]]
    PROVE  LossNeedsFault'
<1>1. \A v \in Workers : SettledEvents(v)' = SettledEvents(v)
  BY DEF SettledEvents
<1>2. \A v \in Workers : SettledEvents(v) \subseteq Events
  <2> SUFFICES ASSUME NEW v \in Workers, NEW i \in DOMAIN settled[v]
               PROVE  settled[v][i] \in Events
    BY DEF SettledEvents
  <2>1. settled[v] \in Seq(Events)
    BY DEF TypeOK
  <2>2. QED
    BY <2>1, ElementOfSeq, LenProperties
<1>3. ASSUME NEW v \in Workers, NEW e \in SettledEvents(v), applied'[v][e] = 0
      PROVE  e \in faulted'[v]
  <2>1. applied[v][e] = 0
    BY <1>2, <1>3 DEF TypeOK
  <2>2. QED
    BY <2>1 DEF LossNeedsFault
<1>4. QED
  BY <1>1, <1>3 DEF LossNeedsFault

\* Every step of a running worker keeps the invariant.
LEMMA WorkerDeliveryInv ==
    ASSUME DeliveryInv, NEW w \in Workers, WorkerStep(w)
    PROVE  DeliveryInv'
<1> USE DEF DeliveryInv
<1>1. TypeInv'
  BY WorkerTypeInv
<1>2. TypeOK /\ TypeOK' /\ HandInv
  BY <1>1 DEF TypeInv
<1>3. CASE Deliver(w)
  <2>1. applied' = applied /\ faulted' = faulted /\ settled' = settled
    BY <1>3 DEF Deliver
  <2>2. ProgressInv'
    BY <1>2, <1>3, <2>1 DEF Deliver, ProgressInv, TypeOK, Current
  <2>3. StoredOnce'
    BY <2>1 DEF StoredOnce
  <2>4. QED
    BY <1>1, <1>2, <2>1, <2>2, <2>3, LossKept DEF TypeOK
<1>4. CASE HandlerReturns(w)
  <2>1. applied' = applied /\ faulted' = faulted /\ settled' = settled /\ unacked' = unacked
    BY <1>4 DEF HandlerReturns, brokerVars
  <2>2. ProgressInv'
    BY <1>2, <1>4, <2>1 DEF HandlerReturns, RowIsNew, ProgressInv, TypeOK, Current
  <2>3. StoredOnce'
    BY <2>1 DEF StoredOnce
  <2>4. QED
    BY <1>1, <1>2, <2>1, <2>2, <2>3, LossKept DEF TypeOK
<1>5. CASE HandlerFails(w)
  <2>1. applied' = applied /\ settled' = settled /\ unacked' = unacked
    BY <1>5 DEF HandlerFails, brokerVars
  <2>2. ProgressInv'
    BY <1>2, <1>5, <2>1 DEF HandlerFails, ProgressInv, TypeOK, Current
  <2>3. StoredOnce'
    BY <2>1 DEF StoredOnce
  <2>4. \A v \in Workers : faulted[v] \subseteq faulted'[v]
    BY <1>2, <1>5 DEF HandlerFails, TypeOK
  <2>5. QED
    BY <1>1, <1>2, <2>1, <2>2, <2>3, <2>4, LossKept DEF TypeOK
<1>6. CASE CommitSucceeds(w)
  <2>1. Current(w) \in Events
    BY <1>2, <1>6, CurrentType DEF CommitSucceeds, HandInv
  <2>2. faulted' = faulted /\ settled' = settled /\ unacked' = unacked
    BY <1>6 DEF CommitSucceeds, brokerVars
  <2>3. \A v \in Workers : \A e \in Events :
          applied'[v][e] = IF v = w /\ e = Current(w) THEN applied[v][e] + 1 ELSE applied[v][e]
    BY <1>2, <1>6, <2>1 DEF CommitSucceeds, TypeOK
  <2>4. pc' = [pc EXCEPT ![w] = "committed"] /\ pc[w] = "flushed"
    BY <1>6 DEF CommitSucceeds
  <2>5. Current(w)' = Current(w) /\ \A v \in Workers : Current(v)' = Current(v)
    BY <2>2 DEF Current
  <2>6. ASSUME NEW v \in Workers
        PROVE  /\ pc'[v] = "flushed" /\ v \in KeyedWorkers => applied'[v][Current(v)] = 0
               /\ pc'[v] = "committed" => applied'[v][Current(v)] > 0
               /\ pc'[v] \in {"swallowed", "raised"} => Current(v) \in faulted'[v]
    <3>1. CASE v = w
      BY <1>2, <2>1, <2>3, <2>4, <3>1 DEF TypeOK
    <3>2. CASE v # w
      <4>1. pc'[v] = pc[v] /\ applied'[v] = applied[v]
        BY <1>2, <1>6, <3>2 DEF CommitSucceeds, TypeOK
      <4>2. QED
        BY <2>2, <4>1 DEF ProgressInv
    <3>3. QED
      BY <3>1, <3>2
  <2>7. ProgressInv'
    BY <2>5, <2>6 DEF ProgressInv
  <2>8. StoredOnce'
    <3>1. w \in KeyedWorkers => applied[w][Current(w)] = 0
      BY <2>4 DEF ProgressInv
    <3>2. QED
      BY <1>2, <2>3, <3>1, DeliveryAssumption DEF StoredOnce
  <2>9. \A v \in Workers : \A e \in Events : applied'[v][e] >= applied[v][e]
    <3>1. \A v \in Workers : \A e \in Events : applied[v][e] \in Nat
      BY <1>2 DEF TypeOK
    <3>2. QED
      BY <2>3, <3>1
  <2>10. LossNeedsFault'
    BY <1>2, <2>2, <2>9, LossKept DEF TypeOK
  <2>11. QED
    BY <1>1, <2>7, <2>8, <2>10
<1>7. CASE CommitRaises(w)
  <2>1. Current(w) \in Events
    BY <1>2, <1>7, CurrentType DEF CommitRaises, HandInv
  <2>2. settled' = settled /\ unacked' = unacked
    BY <1>7 DEF CommitRaises, brokerVars
  <2>3. PICK written \in {0, 1} : applied' = [applied EXCEPT ![w][Current(w)] = @ + written]
    BY <1>7 DEF CommitRaises
  <2>4. \A v \in Workers : \A e \in Events :
          applied'[v][e] = IF v = w /\ e = Current(w) THEN applied[v][e] + written
                                                     ELSE applied[v][e]
    BY <1>2, <2>1, <2>3 DEF TypeOK
  <2>5. pc' = [pc EXCEPT ![w] = "raised"] /\ pc[w] = "flushed"
    BY <1>7 DEF CommitRaises
  <2>6. faulted' = [faulted EXCEPT ![w] = @ \union {Current(w)}]
    BY <1>7 DEF CommitRaises
  <2>7. \A v \in Workers : Current(v)' = Current(v)
    BY <2>2 DEF Current
  <2>8. ASSUME NEW v \in Workers
        PROVE  /\ pc'[v] = "flushed" /\ v \in KeyedWorkers => applied'[v][Current(v)] = 0
               /\ pc'[v] = "committed" => applied'[v][Current(v)] > 0
               /\ pc'[v] \in {"swallowed", "raised"} => Current(v) \in faulted'[v]
    <3>1. CASE v = w
      BY <1>2, <2>5, <2>6, <3>1 DEF TypeOK
    <3>2. CASE v # w
      <4>1. pc'[v] = pc[v] /\ applied'[v] = applied[v] /\ faulted'[v] = faulted[v]
        BY <1>2, <2>3, <2>5, <2>6, <3>2 DEF TypeOK
      <4>2. QED
        BY <4>1 DEF ProgressInv
    <3>3. QED
      BY <3>1, <3>2
  <2>9. ProgressInv'
    BY <2>7, <2>8 DEF ProgressInv
  <2>10. StoredOnce'
    <3>1. w \in KeyedWorkers => applied[w][Current(w)] = 0
      BY <2>5 DEF ProgressInv
    <3>2. QED
      BY <1>2, <2>3, <2>4, <3>1, DeliveryAssumption DEF StoredOnce
  <2>11. \A v \in Workers : \A e \in Events : applied'[v][e] >= applied[v][e]
    <3>1. \A v \in Workers : \A e \in Events : applied[v][e] \in Nat
      BY <1>2 DEF TypeOK
    <3>2. QED
      BY <2>3, <2>4, <3>1
  <2>12. \A v \in Workers : faulted[v] \subseteq faulted'[v]
    BY <1>2, <2>6 DEF TypeOK
  <2>13. LossNeedsFault'
    BY <1>2, <2>2, <2>11, <2>12, LossKept DEF TypeOK
  <2>14. QED
    BY <1>1, <2>9, <2>10, <2>13
<1>8. CASE Ack(w)
  <2>1. applied' = applied /\ faulted' = faulted
    BY <1>8 DEF Ack
  <2>2. ProgressInv'
    BY <1>2, <1>8, <2>1 DEF Ack, ProgressInv, TypeOK, Current
  <2>3. StoredOnce'
    BY <2>1 DEF StoredOnce
  <2>4. applied[w][Current(w)] = 0 => Current(w) \in faulted[w]
    BY <1>8 DEF Ack, MayAck, ProgressInv
  <2>5. LossNeedsFault'
    BY <1>2, <1>8, <2>1, <2>4, SettledByAck DEF LossNeedsFault, TypeInv
  <2>6. QED
    BY <1>1, <2>2, <2>3, <2>5
<1>9. CASE Requeue(w)
  <2>1. applied' = applied /\ faulted' = faulted /\ settled' = settled
    BY <1>9 DEF Requeue
  <2>2. ProgressInv'
    BY <1>2, <1>9, <2>1 DEF Requeue, PutBack, ProgressInv, TypeOK, Current
  <2>3. StoredOnce'
    BY <2>1 DEF StoredOnce
  <2>4. QED
    BY <1>1, <1>2, <2>1, <2>2, <2>3, LossKept DEF TypeOK
<1>10. QED
  BY <1>3, <1>4, <1>5, <1>6, <1>7, <1>8, <1>9 DEF WorkerStep

\* Every other step leaves what was committed, settled and failed alone.
LEMMA OtherDeliveryInv ==
    ASSUME DeliveryInv, TypeInv',
           applied' = applied, faulted' = faulted, settled' = settled,
           \A w \in Workers :
               \/ pc'[w] = pc[w] /\ unacked'[w] = unacked[w]
               \/ pc'[w] \in {"stopped", "idle"}
    PROVE  DeliveryInv'
<1>1. ProgressInv'
  BY DEF DeliveryInv, ProgressInv, Current
<1>2. StoredOnce'
  BY DEF DeliveryInv, StoredOnce
<1>3. LossNeedsFault'
  BY LossKept DEF DeliveryInv, TypeInv, TypeOK
<1>4. QED
  BY <1>1, <1>2, <1>3 DEF DeliveryInv

\* The invariant is inductive: the steps of the API process and the faults leave
\* its tables alone, a running worker keeps them in step.
LEMMA NextDeliveryInv ==
    ASSUME DeliveryInv, [Next]_vars
    PROVE  DeliveryInv'
<1>1. TypeInv /\ TypeOK
  BY DEF DeliveryInv, TypeInv
<1>2. ASSUME NEW w \in Workers, WorkerStep(w)
      PROVE  DeliveryInv'
  BY <1>2, WorkerDeliveryInv
<1>3. ASSUME \/ \E e \in Events : Publish(e) \/ RefuseUnconnected(e) \/ Answer202(e)
             \/ RestartApi
      PROVE  DeliveryInv'
  <2>1. TypeInv'
    BY <1>1, <1>3, ApiTypeInv
  <2>2. QED
    BY <1>3, <2>1, OtherDeliveryInv
    DEF Publish, RefuseUnconnected, Answer202, RestartApi, brokerVars
<1>4. ASSUME \/ RestartBroker
             \/ \E w \in Workers :
                  StartWorker(w) \/ Crash(w) \/ Sigterm(w) \/ CloseConsumer(w) \/ LoseConnection(w)
      PROVE  DeliveryInv'
  <2>1. TypeInv'
    BY <1>1, <1>4, FaultTypeInv
  <2>2. QED
    BY <1>1, <1>4, <2>1, OtherDeliveryInv
    DEF RestartBroker, StartWorker, Crash, Sigterm, CloseConsumer, LoseConnection,
        Interrupt, PutBack, brokerVars, TypeOK
<1>5. CASE UNCHANGED vars
  <2>1. TypeInv'
    BY <1>1, <1>5 DEF vars, TypeInv, TypeOK, HandInv
  <2>2. QED
    BY <1>5, <2>1, OtherDeliveryInv DEF vars
<1>6. QED
  BY <1>2, <1>3, <1>4, <1>5 DEF Next

\* An acknowledged event without committed writes failed in its handler or its
\* commit: no crash, stop, lost connection or restart loses an event by itself.
THEOREM NoLossWithoutFault == Spec => []LossNeedsFault
<1>1. Init => DeliveryInv
  BY InitDeliveryInv
<1>2. DeliveryInv /\ [Next]_vars => DeliveryInv'
  BY NextDeliveryInv
<1>3. DeliveryInv => LossNeedsFault
  BY DEF DeliveryInv
<1>4. QED
  BY <1>1, <1>2, <1>3, PTL DEF Spec

\* However often it is redelivered, an event's row is inserted once.
THEOREM AtMostOneRow == Spec => []StoredOnce
<1>1. Init => DeliveryInv
  BY InitDeliveryInv
<1>2. DeliveryInv /\ [Next]_vars => DeliveryInv'
  BY NextDeliveryInv
<1>3. DeliveryInv => StoredOnce
  BY DEF DeliveryInv
<1>4. QED
  BY <1>1, <1>2, <1>3, PTL DEF Spec

-----------------------------------------------------------------------------
(* EventDelivery implements EventQueues *)

\* The head of a queue, in hand, before its tail is the queue.
LEMMA HandOver ==
    ASSUME NEW S, NEW q \in Seq(S), q # <<>>
    PROVE  <<Head(q)>> \o Tail(q) = q
<1>1. Head(q) \in S /\ Tail(q) \in Seq(S) /\ Len(Tail(q)) = Len(q) - 1
  BY HeadTailProperties
<1>2. \A i \in 1 .. Len(Tail(q)) : Tail(q)[i] = q[i + 1]
  BY HeadTailProperties
<1>3. q[1] = Head(q)
  OBVIOUS
<1>4. <<Head(q)>> \in Seq(S) /\ <<Head(q)>> \o Tail(q) \in Seq(S)
  BY <1>1
<1>5. Len(<<Head(q)>> \o Tail(q)) = Len(q)
  BY <1>1, LenProperties
<1>6. \A i \in 1 .. Len(q) : (<<Head(q)>> \o Tail(q))[i] = q[i]
  BY <1>1, <1>2, <1>3
<1>7. QED
  BY <1>4, <1>5, <1>6, SeqEqual

\* The message in hand is the oldest a worker has to finish.
LEMMA SettleHead ==
    ASSUME NEW S, NEW e \in S, NEW q \in Seq(S)
    PROVE  /\ <<e>> \o q # <<>>
           /\ Head(<<e>> \o q) = e
           /\ Tail(<<e>> \o q) = q
<1>1. <<e>> \o q \in Seq(S) /\ Len(<<e>> \o q) = 1 + Len(q)
  OBVIOUS
<1>2. <<e>> \o q # <<>> /\ Head(<<e>> \o q) = e
  BY <1>1
<1>3. Tail(<<e>> \o q) \in Seq(S) /\ Len(Tail(<<e>> \o q)) = Len(q)
  BY <1>1, <1>2, HeadTailProperties
<1>4. \A i \in 1 .. Len(q) : Tail(<<e>> \o q)[i] = q[i]
  BY <1>1, <1>2
<1>5. QED
  BY <1>2, <1>3, <1>4, SeqEqual

\* A published message comes behind everything a worker has to finish.
LEMMA OfferBehind ==
    \A S : \A h, q \in Seq(S) : \A e \in S : h \o Append(q, e) = Append(h \o q, e)
<1> SUFFICES ASSUME NEW S, NEW h \in Seq(S), NEW q \in Seq(S), NEW e \in S
             PROVE  h \o Append(q, e) = Append(h \o q, e)
  OBVIOUS
<1>1. h \o Append(q, e) \in Seq(S) /\ Append(h \o q, e) \in Seq(S)
  OBVIOUS
<1>2. Len(h \o Append(q, e)) = Len(Append(h \o q, e))
  OBVIOUS
<1>3. \A i \in 1 .. Len(h) + Len(q) + 1 : (h \o Append(q, e))[i] = Append(h \o q, e)[i]
  OBVIOUS
<1>4. QED
  BY <1>1, <1>2, <1>3, SeqEqual

\* What worker w still has to finish, oldest first.
Pending(w) == unacked[w] \o queue[w]

Offered == {e \in Events : request[e] \notin {"new", "refused"}}

\* The hand of a worker and its queue are sequences of events.
LEMMA HandType ==
    ASSUME TypeOK, NEW w \in Workers
    PROVE  unacked[w] \in Seq(Events) /\ queue[w] \in Seq(Events)
<1>1. unacked[w] = <<>> \/ \E e \in Events : unacked[w] = <<e>>
  BY DEF TypeOK
<1>2. \A e \in Events : <<e>> \in Seq(Events)
  OBVIOUS
<1>3. <<>> \in Seq(Events)
  OBVIOUS
<1>4. queue[w] \in Seq(Events)
  BY DEF TypeOK
<1>5. QED
  BY <1>1, <1>2, <1>3, <1>4

\* Nothing is offered, subscribed, pending or done at first.
LEMMA InitRefines == Init => Fanout!Init
<1> SUFFICES ASSUME Init
             PROVE  Fanout!Init
  OBVIOUS
<1>1. \A w \in Workers : unacked[w] \o queue[w] = <<>>
  <2>1. <<>> \o <<>> = <<>>
    BY EmptySeq, ConcatEmptySeq
  <2>2. QED
    BY <2>1 DEF Init
<1>2. QED
  BY <1>1 DEF Init, Fanout!Init

\* A step that moves a message between a queue and its worker's hand, or none at
\* all, is a stutter of the fan-out.
LEMMA StutterRefines ==
    ASSUME TypeOK,
           \A w \in Workers : Pending(w)' = Pending(w),
           Offered' = Offered, bound' = bound, settled' = settled
    PROVE  UNCHANGED Fanout!vars
BY DEF Fanout!vars, Pending, Offered

\* Returning the message in hand keeps the order of what a worker has to finish.
LEMMA PutBackStutters ==
    ASSUME TypeOK, NEW w \in Workers, PutBack(w)
    PROVE  \A v \in Workers : Pending(v)' = Pending(v)
<1>1. unacked[w] \o queue[w] \in Seq(Events)
  BY HandType, ConcatProperties
<1>2. <<>> \o (unacked[w] \o queue[w]) = unacked[w] \o queue[w]
  BY <1>1, ConcatEmptySeq
<1>3. unacked'[w] = <<>> /\ queue'[w] = unacked[w] \o queue[w]
  BY DEF PutBack, TypeOK
<1>4. ASSUME NEW v \in Workers, v # w
      PROVE  unacked'[v] = unacked[v] /\ queue'[v] = queue[v]
  BY <1>4 DEF PutBack, TypeOK
<1>5. QED
  BY <1>2, <1>3, <1>4 DEF Pending

\* Publishing offers the event to the workers bound at that moment.
LEMMA PublishRefines ==
    ASSUME TypeOK, NEW e \in Events, Publish(e)
    PROVE  Fanout!Offer(e)
<1>1. e \notin Offered /\ Offered' = Offered \union {e}
  BY DEF Publish, Offered, TypeOK
<1>2. \A w \in Workers :
        Pending(w)' = IF w \in bound THEN Append(Pending(w), e) ELSE Pending(w)
  <2> SUFFICES ASSUME NEW w \in Workers
               PROVE  Pending(w)' = IF w \in bound THEN Append(Pending(w), e) ELSE Pending(w)
    OBVIOUS
  <2>1. unacked[w] \o Append(queue[w], e) = Append(unacked[w] \o queue[w], e)
    <3>1. unacked[w] \in Seq(Events) /\ queue[w] \in Seq(Events)
      BY HandType
    <3>2. \A h, q \in Seq(Events) : h \o Append(q, e) = Append(h \o q, e)
      BY OfferBehind
    <3>3. QED
      BY <3>1, <3>2
  <2>2. unacked'[w] = unacked[w]
        /\ queue'[w] = IF w \in bound THEN Append(queue[w], e) ELSE queue[w]
    BY DEF Publish
  <2>3. QED
    BY <2>1, <2>2 DEF Pending
<1>3. bound' = bound /\ settled' = settled
  BY DEF Publish
<1>4. QED
  BY <1>1, <1>2, <1>3 DEF Fanout!Offer, Pending, Offered

\* Acknowledging finishes the oldest event a worker has to finish.
LEMMA AckRefines ==
    ASSUME TypeInv, NEW w \in Workers, Ack(w)
    PROVE  Fanout!Finish(w)
<1>1. Current(w) \in Events /\ unacked[w] = <<Current(w)>>
  BY CurrentType DEF Ack, MayAck, TypeInv, HandInv
<1>2. queue[w] \in Seq(Events)
  BY DEF TypeInv, TypeOK
<1>3. /\ Pending(w) # <<>>
      /\ Head(Pending(w)) = Current(w)
      /\ Tail(Pending(w)) = queue[w]
  BY <1>1, <1>2, SettleHead DEF Pending
<1>4. unacked'[w] = <<>> /\ queue'[w] = queue[w]
  BY DEF Ack, TypeInv, TypeOK
<1>5. Pending(w)' = Tail(Pending(w))
  <2>1. <<>> \o queue[w] = queue[w]
    BY <1>2, ConcatEmptySeq
  <2>2. QED
    BY <1>3, <1>4, <2>1 DEF Pending
<1>6. \A v \in Workers : v # w => Pending(v)' = Pending(v)
  BY DEF Ack, Pending, TypeInv, TypeOK
<1>7. settled' = [settled EXCEPT ![w] = Append(@, Current(w))]
  BY DEF Ack
<1>8. Offered' = Offered /\ bound' = bound
  BY DEF Ack, apiVars, Offered
<1>9. QED
  BY <1>3, <1>5, <1>6, <1>7, <1>8 DEF Fanout!Finish, Pending, Offered

\* Of a running worker's steps, only the acknowledgement shows in the fan-out.
LEMMA WorkerRefines ==
    ASSUME TypeInv, NEW w \in Workers, WorkerStep(w)
    PROVE  Fanout!Finish(w) \/ UNCHANGED Fanout!vars
<1> USE DEF TypeInv
<1>1. CASE Deliver(w)
  <2>1. <<>> \o queue[w] = queue[w] /\ <<Head(queue[w])>> \o Tail(queue[w]) = queue[w]
    BY <1>1, HandType, HandOver, ConcatEmptySeq DEF Deliver
  <2>2. unacked[w] = <<>>
    BY <1>1 DEF Deliver, HandInv
  <2>3. unacked'[w] = <<Head(queue[w])>> /\ queue'[w] = Tail(queue[w])
    BY <1>1 DEF Deliver, TypeOK
  <2>4. \A v \in Workers : v # w => unacked'[v] = unacked[v] /\ queue'[v] = queue[v]
    BY <1>1 DEF Deliver, TypeOK
  <2>5. \A v \in Workers : Pending(v)' = Pending(v)
    BY <2>1, <2>2, <2>3, <2>4 DEF Pending
  <2>6. QED
    BY <1>1, <2>5, StutterRefines DEF Deliver, apiVars, Offered
<1>2. CASE HandlerReturns(w) \/ HandlerFails(w) \/ CommitSucceeds(w) \/ CommitRaises(w)
  <2>1. UNCHANGED <<apiVars, brokerVars>>
    BY <1>2 DEF HandlerReturns, HandlerFails, CommitSucceeds, CommitRaises
  <2>2. QED
    BY <2>1, StutterRefines DEF apiVars, brokerVars, Pending, Offered
<1>3. CASE Ack(w)
  BY <1>3, AckRefines
<1>4. CASE Requeue(w)
  <2>1. \A v \in Workers : Pending(v)' = Pending(v)
    BY <1>4, PutBackStutters DEF Requeue
  <2>2. QED
    BY <1>4, <2>1, StutterRefines DEF Requeue, apiVars, Offered
<1>5. QED
  BY <1>1, <1>2, <1>3, <1>4 DEF WorkerStep

\* Every step is a step of the fan-out or a stutter of it.
LEMMA NextRefines ==
    ASSUME TypeInv, [Next]_vars
    PROVE  [Fanout!Next]_(Fanout!vars)
<1> USE DEF TypeInv
<1>1. ASSUME NEW e \in Events, Publish(e)
      PROVE  Fanout!Next
  BY <1>1, PublishRefines DEF Fanout!Next
<1>2. ASSUME NEW e \in Events, RefuseUnconnected(e) \/ Answer202(e)
      PROVE  UNCHANGED Fanout!vars
  <2>1. Offered' = Offered
    BY <1>2 DEF RefuseUnconnected, Answer202, Offered, TypeOK
  <2>2. QED
    BY <1>2, <2>1, StutterRefines DEF RefuseUnconnected, Answer202, brokerVars, Pending
<1>3. CASE RestartApi
  <2>1. Offered' = Offered
    BY <1>3 DEF RestartApi, Offered
  <2>2. QED
    BY <1>3, <2>1, StutterRefines DEF RestartApi, brokerVars, Pending
<1>4. ASSUME NEW w \in Workers, StartWorker(w)
      PROVE  Fanout!Next
  BY <1>4 DEF StartWorker, apiVars, Fanout!Next, Fanout!Subscribe
<1>5. ASSUME NEW w \in Workers, WorkerStep(w)
      PROVE  [Fanout!Next]_(Fanout!vars)
  BY <1>5, WorkerRefines DEF Fanout!Next
<1>6. ASSUME NEW w \in Workers, Crash(w) \/ CloseConsumer(w) \/ LoseConnection(w)
      PROVE  UNCHANGED Fanout!vars
  <2>1. PICK next \in {"stopped", "idle"} : Interrupt(w, next)
    BY <1>6 DEF Crash, CloseConsumer, LoseConnection
  <2>2. \A v \in Workers : Pending(v)' = Pending(v)
    BY <2>1, PutBackStutters DEF Interrupt
  <2>3. QED
    BY <2>1, <2>2, StutterRefines DEF Interrupt, apiVars, Offered
<1>7. ASSUME NEW w \in Workers, Sigterm(w)
      PROVE  UNCHANGED Fanout!vars
  BY <1>7, StutterRefines DEF Sigterm, apiVars, brokerVars, Pending, Offered
<1>8. CASE RestartBroker
  <2>1. <<>> \o <<>> = <<>>
    BY EmptySeq, ConcatEmptySeq
  <2>2. QED
    BY <1>8, <2>1 DEF RestartBroker, apiVars, Fanout!Next, Fanout!Forget
<1>9. CASE UNCHANGED vars
  BY <1>9, StutterRefines DEF vars, Pending, Offered
<1>10. QED
  BY <1>1, <1>2, <1>3, <1>4, <1>5, <1>6, <1>7, <1>8, <1>9 DEF Next

\* Each worker finishes every event of its queue once and in publication order,
\* across requeues, redeliveries, crashes and restarts.
THEOREM FanoutImplemented == Spec => ImplementsFanout
<1>1. Init => Fanout!Init
  BY InitRefines
<1>2. TypeInv /\ [Next]_vars => [Fanout!Next]_(Fanout!vars)
  BY NextRefines
<1>3. Spec => []TypeInv
  BY TypeInvHolds
<1>4. QED
  BY <1>1, <1>2, <1>3, PTL DEF Spec, Fanout!Spec, ImplementsFanout

-----------------------------------------------------------------------------
(* The pipeline's steps as steps of the delivery *)

\* The handlers and the transport do what EventDelivery has the workers, the API
\* process and the broker do.
LEMMA PipelineStep ==
    ASSUME [PipelineNext]_pipelineVars
    PROVE  [Next]_vars
<1>1. Metrics \in Workers /\ DataStore \in Workers
  BY PipelineAssumption
<1>2. CASE Transport
  BY <1>2 DEF Transport, Next, WorkerStep
<1>3. ASSUME NEW w \in Workers, HandlerRaises(w) \/ OtherCommit(w)
      PROVE  Next
  BY <1>3 DEF HandlerRaises, OtherCommit, Next, WorkerStep
<1>4. CASE StoreHandler \/ MetricsHandler \/ MetricsCommit \/ AlertsHandler
  <2>1. \E w \in Workers : HandlerReturns(w) \/ CommitSucceeds(w) \/ CommitRaises(w)
    BY <1>1, <1>4 DEF StoreHandler, MetricsHandler, MetricsCommit, AlertsHandler
  <2>2. QED
    BY <2>1 DEF Next, WorkerStep
<1>5. CASE UNCHANGED pipelineVars
  BY <1>5 DEF pipelineVars
<1>6. QED
  BY <1>2, <1>3, <1>4, <1>5 DEF PipelineNext

\* The events are delivered to the three handlers as EventDelivery says: whatever
\* holds of the delivery holds of the pipeline.
THEOREM PipelineDelivers == PipelineSpec => Spec
<1>1. PipelineInit => Init
  BY DEF PipelineInit
<1>2. [PipelineNext]_pipelineVars => [Next]_vars
  BY PipelineStep
<1>3. QED
  BY <1>1, <1>2, PTL DEF PipelineSpec, Spec

\* No commit is taken back and no failure forgotten.
LEMMA WorkerGrows ==
    ASSUME TypeInv, NEW w \in Workers, WorkerStep(w)
    PROVE  /\ \A v \in Workers : faulted[v] \subseteq faulted'[v]
           /\ \A v \in Workers, e \in Events : applied'[v][e] >= applied[v][e]
<1>1. TypeOK /\ HandInv /\ \A v \in Workers, e \in Events : applied[v][e] \in Nat
  BY DEF TypeInv, TypeOK
<1>2. CASE Deliver(w) \/ HandlerReturns(w) \/ Ack(w) \/ Requeue(w)
  BY <1>1, <1>2 DEF Deliver, HandlerReturns, Ack, Requeue
<1>3. CASE HandlerFails(w)
  BY <1>1, <1>3 DEF HandlerFails, TypeOK
<1>4. CASE CommitSucceeds(w) \/ CommitRaises(w)
  <2>1. PICK n \in {0, 1} : applied' = [applied EXCEPT ![w][Current(w)] = @ + n]
    BY <1>4 DEF CommitSucceeds, CommitRaises
  <2>2. Current(w) \in Events
    BY <1>1, <1>4, CurrentType DEF CommitSucceeds, CommitRaises, HandInv
  <2>3. \A v \in Workers, e \in Events : applied'[v][e] >= applied[v][e]
    BY <1>1, <2>1, <2>2 DEF TypeOK
  <2>4. faulted' = faulted \/ faulted' = [faulted EXCEPT ![w] = @ \union {Current(w)}]
    BY <1>4 DEF CommitSucceeds, CommitRaises
  <2>5. \A v \in Workers : faulted[v] \subseteq faulted'[v]
    BY <1>1, <2>4 DEF TypeOK
  <2>6. QED
    BY <2>3, <2>5
<1>5. QED
  BY <1>2, <1>3, <1>4 DEF WorkerStep

\* Rows stay stored, failures stay known, and the metrics worker settles events by
\* acknowledging them.
LEMMA PipelineGrows ==
    ASSUME DeliveryInv, [Next]_vars
    PROVE  /\ Stored \subseteq Stored'
           /\ faulted[Metrics] \subseteq faulted'[Metrics]
           /\ ~Ack(Metrics) => SettledEvents(Metrics)' = SettledEvents(Metrics)
<1>1. /\ TypeInv /\ Metrics \in Workers /\ DataStore \in Workers
      /\ \A v \in Workers, e \in Events : applied[v][e] \in Nat
  BY PipelineAssumption DEF DeliveryInv, TypeInv, TypeOK
<1>2. /\ \A v \in Workers : faulted[v] \subseteq faulted'[v]
      /\ \A v \in Workers, e \in Events : applied'[v][e] >= applied[v][e]
  <2>1. CASE \E w \in Workers : WorkerStep(w)
    BY <1>1, <2>1, WorkerGrows
  <2>2. CASE UNCHANGED <<applied, faulted>>
    BY <1>1, <2>2
  <2>3. QED
    BY <2>1, <2>2 DEF Next, Publish, RefuseUnconnected, Answer202, RestartApi, StartWorker,
                      Crash, Sigterm, CloseConsumer, LoseConnection, Interrupt, RestartBroker, vars
<1>3. TypeInv'
  BY NextDeliveryInv DEF DeliveryInv
<1>4. \A v \in Workers, e \in Events : applied'[v][e] \in Nat
  BY <1>3 DEF TypeInv, TypeOK
<1>5. Stored \subseteq Stored'
  BY <1>1, <1>2, <1>4 DEF Stored
<1>6. ASSUME ~Ack(Metrics)
      PROVE  SettledEvents(Metrics)' = SettledEvents(Metrics)
  <2>1. CASE \E w \in Workers : Ack(w)
    BY <1>1, <1>6, <2>1, SettledByAck
  <2>2. CASE UNCHANGED settled
    BY <2>2 DEF SettledEvents
  <2>3. QED
    BY <2>1, <2>2 DEF Next, WorkerStep, Publish, RefuseUnconnected, Answer202, RestartApi,
                      StartWorker, Deliver, HandlerReturns, HandlerFails, CommitSucceeds,
                      CommitRaises, Requeue, Crash, Sigterm, CloseConsumer, LoseConnection,
                      Interrupt, RestartBroker, brokerVars, vars
<1>7. QED
  BY <1>1, <1>2, <1>5, <1>6

-----------------------------------------------------------------------------
(* The pipeline's inductive invariant *)

\* No event of c was handled before it was stored, and none failed.
Clean(c) == \A e \in early \union faulted[Metrics] : CustomerOf(e) # c

\* The tickets of c that the metrics worker is through with, and the one in hand.
TicketsSettled(c) == TicketsOf(c) \intersect SettledEvents(Metrics)

TicketInHand(c) == {e \in TicketsOf(c) : unacked[Metrics] = <<e>>}

\* n is a count of stored tickets of c, those of T among them.
CountsAll(n, c, T) == \E M \in SUBSET TicketsOf(c) : T \subseteq M /\ n = Cardinality(M)

\* What the metrics worker has handled was stored, came early or failed.
HandledStored ==
    /\ SettledEvents(Metrics) \subseteq Stored \union early \union faulted[Metrics]
    /\ pc[Metrics] \in {"flushed", "committed"} => Current(Metrics) \in Stored \union early

\* The value of a metric is in its history, which counts tickets that are stored.
HistoryInv ==
    \A c \in Customers :
        /\ metric[c] # <<>> => \E i \in DOMAIN history[c] : history[c][i] = Head(metric[c])
        /\ \A i \in DOMAIN history[c] : history[c][i] <= TicketCount(c)

\* The count that waits for its commit is no lower than those recorded, and counts
\* the event in hand and all that were settled before it.
DraftInv ==
    \A c \in Customers :
        pc[Metrics] = "flushed" /\ CustomerOf(Current(Metrics)) = c =>
            /\ draft <= TicketCount(c)
            /\ \A i \in DOMAIN history[c] : history[c][i] <= draft
            /\ Clean(c) => CountsAll(draft, c, TicketsSettled(c) \union TicketInHand(c))

\* The events that a customer's metric has to account for.
Accounted(c) ==
    TicketsSettled(c) \union IF pc[Metrics] = "committed" THEN TicketInHand(c) ELSE {}

MetricInv ==
    \A c \in Customers : Clean(c) /\ Accounted(c) # {} =>
        metric[c] # <<>> /\ CountsAll(Head(metric[c]), c, Accounted(c))

CountInv == HandledStored /\ HistoryInv /\ DraftInv /\ MetricInv /\ CountsNeverRegress

PipelineInv == DeliveryInv /\ PipelineTypeOK /\ CountInv /\ WarningsAreDue

-----------------------------------------------------------------------------
(* Counts of stored tickets *)

\* An event's customer is one of the customers, or nobody.
LEMMA CustomerType ==
    ASSUME NEW e \in Events
    PROVE  CustomerOf(e) \in Customers \union {Nobody}
<1> DEFINE matches == IF ByName[e] # {} THEN ByName[e] ELSE ByEmail[e]
<1>1. matches \subseteq Customers
  BY PipelineAssumption
<1>2. Cardinality(matches) = 1 => matches # {}
  BY FS_EmptySet
<1> HIDE DEF matches
<1>3. Cardinality(matches) = 1 => (CHOOSE c \in matches : TRUE) \in Customers
  BY <1>1, <1>2
<1>4. QED
  BY <1>3 DEF CustomerOf, matches

\* A set of events has a count, and a larger set no lower one.
LEMMA EventCounts ==
    ASSUME NEW S \in SUBSET Events, NEW T \in SUBSET S
    PROVE  /\ Cardinality(S) \in Counts /\ Cardinality(T) \in Counts
           /\ Counts \subseteq Nat
           /\ Cardinality(T) <= Cardinality(S)
<1>1. IsFiniteSet(Events) /\ Cardinality(Events) \in Nat
  BY PipelineAssumption, FS_CardinalityType
<1>2. IsFiniteSet(S) /\ Cardinality(S) <= Cardinality(Events)
  BY <1>1, FS_Subset
<1>3. IsFiniteSet(T) /\ Cardinality(T) <= Cardinality(S)
  BY <1>2, FS_Subset
<1>4. Cardinality(S) \in Nat /\ Cardinality(T) \in Nat
  BY <1>2, <1>3, FS_CardinalityType
<1>5. QED
  BY <1>1, <1>2, <1>3, <1>4 DEF Counts

\* The tickets of a customer are events, and their count does not go down.
LEMMA TicketCounts ==
    ASSUME NEW c, Stored \subseteq Stored'
    PROVE  /\ TicketsOf(c) \subseteq TicketsOf(c)'
           /\ TicketCount(c) \in Counts /\ TicketCount(c)' \in Counts
           /\ TicketCount(c) <= TicketCount(c)'
           /\ Counts \subseteq Nat
<1>1. /\ TicketsOf(c) \subseteq TicketsOf(c)' /\ TicketsOf(c)' \subseteq Events
  BY DEF TicketsOf, Stored
<1>2. QED
  BY <1>1, EventCounts DEF TicketCount

\* A customer's history is of numbers.
LEMMA HistoryType ==
    ASSUME PipelineTypeOK, NEW c \in Customers
    PROVE  /\ history[c] \in Seq(Counts)
           /\ \A i \in DOMAIN history[c] : history[c][i] \in Nat
<1>1. history[c] \in Seq(Counts)
  BY DEF PipelineTypeOK
<1>2. Counts \subseteq Nat
  BY EventCounts
<1>3. \A i \in DOMAIN history[c] : history[c][i] \in Counts
  BY <1>1, ElementOfSeq, LenProperties
<1>4. QED
  BY <1>1, <1>2, <1>3

-----------------------------------------------------------------------------
(* The steps *)

\* A step that records no count and settles nothing: the metrics worker stays with
\* the event in hand, or is through with its transaction.
LEMMA CountsKept ==
    ASSUME DeliveryInv, CountInv, Stored \subseteq Stored',
           faulted[Metrics] \subseteq faulted'[Metrics],
           SettledEvents(Metrics)' = SettledEvents(Metrics),
           UNCHANGED <<metric, history, draft, early>>,
           \/ pc'[Metrics] = pc[Metrics] /\ unacked'[Metrics] = unacked[Metrics]
           \/ pc'[Metrics] \notin {"flushed", "committed"},
           PipelineTypeOK
    PROVE  CountInv'
<1>1. HandledStored'
  BY DEF CountInv, HandledStored, Current
<1>2. CountsNeverRegress'
  BY DEF CountInv, CountsNeverRegress
<1>3. \A c \in Customers : \A i \in DOMAIN history[c] : history[c][i] \in Nat
  BY HistoryType
<1>4. HistoryInv'
  <2>1. ASSUME NEW c \in Customers, NEW i \in DOMAIN history[c]
        PROVE  history[c][i] <= TicketCount(c)'
    <3>1. history[c][i] <= TicketCount(c)
      BY DEF CountInv, HistoryInv
    <3>2. TicketCount(c) \in Nat /\ TicketCount(c)' \in Nat /\ TicketCount(c) <= TicketCount(c)'
      BY TicketCounts
    <3>3. QED
      BY <1>3, <3>1, <3>2
  <2>2. QED
    BY <2>1 DEF CountInv, HistoryInv
<1>5. \A c \in Customers : Clean(c)' => Clean(c)
  BY DEF Clean
\* Nothing is added to what is settled or in hand and already stored.
<1>6. ASSUME NEW c \in Customers, Clean(c)'
      PROVE  TicketsSettled(c)' \subseteq TicketsSettled(c)
  <2>1. SUFFICES ASSUME NEW e \in TicketsSettled(c)'
                 PROVE  e \in TicketsSettled(c)
    OBVIOUS
  <2>2. e \in Stored' /\ e \in Tickets /\ CustomerOf(e) = c /\ e \in SettledEvents(Metrics)
    BY <2>1 DEF TicketsSettled, TicketsOf
  <2>3. e \in Stored
    BY <1>5, <1>6, <2>2 DEF CountInv, HandledStored, Clean
  <2>4. QED
    BY <2>2, <2>3 DEF TicketsSettled, TicketsOf
<1>7. ASSUME NEW c \in Customers, Clean(c)', pc'[Metrics] \in {"flushed", "committed"}
      PROVE  TicketInHand(c)' \subseteq TicketInHand(c)
  <2>1. SUFFICES ASSUME NEW e \in TicketInHand(c)'
                 PROVE  e \in TicketInHand(c)
    OBVIOUS
  <2>2. /\ e \in Stored' /\ e \in Tickets /\ CustomerOf(e) = c
        /\ unacked[Metrics] = <<e>> /\ pc[Metrics] \in {"flushed", "committed"}
    BY <1>7, <2>1 DEF TicketInHand, TicketsOf
  <2>3. e \in Stored
    BY <1>5, <1>7, <2>2 DEF CountInv, HandledStored, Clean, Current
  <2>4. QED
    BY <2>2, <2>3 DEF TicketInHand, TicketsOf
<1>8. DraftInv'
  <2>1. SUFFICES ASSUME NEW c \in Customers, pc'[Metrics] = "flushed", CustomerOf(Current(Metrics)') = c
                 PROVE  /\ draft <= TicketCount(c)'
                        /\ \A i \in DOMAIN history[c] : history[c][i] <= draft
                        /\ Clean(c)' => CountsAll(draft, c, TicketsSettled(c) \union TicketInHand(c))'
    BY DEF DraftInv
  <2>2. /\ draft <= TicketCount(c)
        /\ \A i \in DOMAIN history[c] : history[c][i] <= draft
        /\ Clean(c) => CountsAll(draft, c, TicketsSettled(c) \union TicketInHand(c))
    BY <2>1 DEF CountInv, DraftInv, Current
  <2>3. draft <= TicketCount(c)'
    BY <2>2, TicketCounts DEF PipelineTypeOK
  <2>4. ASSUME Clean(c)'
        PROVE  CountsAll(draft, c, TicketsSettled(c) \union TicketInHand(c))'
    <3>1. PICK M \in SUBSET TicketsOf(c) :
             TicketsSettled(c) \union TicketInHand(c) \subseteq M /\ draft = Cardinality(M)
      BY <1>5, <2>2, <2>4 DEF CountsAll
    <3>2. (TicketsSettled(c) \union TicketInHand(c))' \subseteq M
      BY <1>6, <1>7, <2>1, <2>4, <3>1
    <3>3. M \in SUBSET TicketsOf(c)'
      BY TicketCounts
    <3>4. QED
      BY <3>1, <3>2, <3>3 DEF CountsAll
  <2>5. QED
    BY <2>2, <2>3, <2>4
<1>9. MetricInv'
  <2>1. SUFFICES ASSUME NEW c \in Customers, Clean(c)', Accounted(c)' # {}
                 PROVE  metric[c] # <<>> /\ CountsAll(Head(metric[c]), c, Accounted(c))'
    BY DEF MetricInv
  <2>2. Accounted(c)' \subseteq Accounted(c)
    BY <1>6, <1>7, <2>1 DEF Accounted
  <2>3. metric[c] # <<>> /\ CountsAll(Head(metric[c]), c, Accounted(c))
    BY <1>5, <2>1, <2>2 DEF CountInv, MetricInv
  <2>4. PICK M \in SUBSET TicketsOf(c) : Accounted(c) \subseteq M /\ Head(metric[c]) = Cardinality(M)
    BY <2>3 DEF CountsAll
  <2>5. M \in SUBSET TicketsOf(c)' /\ Accounted(c)' \subseteq M
    BY <2>2, <2>4, TicketCounts
  <2>6. QED
    BY <2>3, <2>4, <2>5 DEF CountsAll
<1>10. QED
  BY <1>1, <1>2, <1>4, <1>8, <1>9 DEF CountInv

\* The metrics worker acknowledges what it has counted, or what failed.
LEMMA AckCounts ==
    ASSUME DeliveryInv, CountInv, Ack(Metrics), UNCHANGED <<metric, history, draft, early>>
    PROVE  CountInv'
<1>1. /\ TypeInv /\ TypeOK /\ Metrics \in Workers
      /\ pc[Metrics] \in {"committed", "swallowed", "raised"}
      /\ pc'[Metrics] = "idle"
      /\ Stored' = Stored /\ faulted' = faulted
  BY PipelineAssumption DEF DeliveryInv, TypeInv, TypeOK, Ack, MayAck, Stored
<1>2. /\ SettledEvents(Metrics)' = SettledEvents(Metrics) \union {Current(Metrics)}
      /\ unacked[Metrics] = <<Current(Metrics)>>
  BY <1>1, SettledByAck, CurrentType DEF TypeInv, HandInv
<1>3. pc[Metrics] # "committed" => Current(Metrics) \in faulted[Metrics]
  BY <1>1 DEF DeliveryInv, ProgressInv
<1>4. \A c \in Customers : TicketsOf(c)' = TicketsOf(c) /\ (Clean(c)' <=> Clean(c))
  BY <1>1 DEF TicketsOf, Clean
<1>5. HandledStored'
  BY <1>1, <1>2, <1>3 DEF CountInv, HandledStored
<1>6. HistoryInv' /\ CountsNeverRegress' /\ DraftInv'
  BY <1>1, <1>4 DEF CountInv, HistoryInv, CountsNeverRegress, DraftInv, TicketCount
<1>7. ASSUME NEW c \in Customers, Clean(c)
      PROVE  Accounted(c)' = Accounted(c)
  <2>1. Accounted(c)' = TicketsSettled(c) \union (TicketsOf(c) \intersect {Current(Metrics)})
    BY <1>1, <1>2, <1>4 DEF Accounted, TicketsSettled
  <2>2. CASE pc[Metrics] = "committed"
    <3>1. TicketInHand(c) = TicketsOf(c) \intersect {Current(Metrics)}
      BY <1>2 DEF TicketInHand
    <3>2. QED
      BY <2>1, <2>2, <3>1 DEF Accounted
  <2>3. CASE pc[Metrics] # "committed"
    <3>1. Current(Metrics) \notin TicketsOf(c)
      BY <1>3, <1>7, <2>3 DEF Clean, TicketsOf
    <3>2. QED
      BY <2>1, <2>3, <3>1 DEF Accounted
  <2>4. QED
    BY <2>2, <2>3
<1>8. MetricInv'
  BY <1>4, <1>7 DEF CountInv, MetricInv, CountsAll
<1>9. QED
  BY <1>5, <1>6, <1>8 DEF CountInv

\* The metrics worker counts what is stored: no lower than any count before it,
\* and with all it has settled for a customer none of whose events came early.
LEMMA HandlerCounts ==
    ASSUME DeliveryInv, CountInv, PipelineTypeOK, MetricsHandler
    PROVE  CountInv'
<1> DEFINE e == Current(Metrics)
<1>1. /\ TypeInv /\ TypeOK /\ Metrics \in Workers
      /\ pc[Metrics] = "handling" /\ pc'[Metrics] = "flushed"
      /\ unacked' = unacked /\ settled' = settled /\ faulted' = faulted
      /\ Stored' = Stored /\ metric' = metric /\ history' = history
      /\ draft' = TicketCount(CustomerOf(e))
      /\ early' = IF e \in Stored THEN early ELSE early \union {e}
  BY PipelineAssumption
  DEF DeliveryInv, TypeInv, TypeOK, MetricsHandler, HandlerReturns, brokerVars, Stored
<1>2. /\ SettledEvents(Metrics)' = SettledEvents(Metrics)
      /\ Current(Metrics)' = e
      /\ early \subseteq early' /\ e \in Stored \union early'
  BY <1>1 DEF SettledEvents, Current
<1>3. \A c \in Customers : TicketsOf(c)' = TicketsOf(c) /\ (Clean(c)' => Clean(c))
  BY <1>1, <1>2 DEF TicketsOf, Clean
<1>4. HandledStored'
  BY <1>1, <1>2 DEF CountInv, HandledStored
<1>5. HistoryInv' /\ CountsNeverRegress'
  BY <1>1, <1>3 DEF CountInv, HistoryInv, CountsNeverRegress, TicketCount
<1>6. DraftInv'
  <2>1. SUFFICES ASSUME NEW c \in Customers, CustomerOf(e) = c
                 PROVE  /\ draft' <= TicketCount(c)'
                        /\ \A i \in DOMAIN history[c] : history[c][i] <= draft'
                        /\ CountsAll(draft, c, TicketsSettled(c) \union TicketInHand(c))'
    BY <1>1, <1>2 DEF DraftInv
  <2>2. draft' = TicketCount(c) /\ TicketCount(c)' = TicketCount(c) /\ TicketCount(c) \in Nat
    BY <1>1, <1>3, <2>1, TicketCounts DEF TicketCount
  <2>3. \A i \in DOMAIN history[c] : history[c][i] <= TicketCount(c)
    BY DEF CountInv, HistoryInv
  <2>4. (TicketsSettled(c) \union TicketInHand(c))' \subseteq TicketsOf(c)'
    BY DEF TicketsSettled, TicketInHand
  <2>5. CountsAll(draft, c, TicketsSettled(c) \union TicketInHand(c))'
    BY <1>3, <2>2, <2>4 DEF CountsAll, TicketCount
  <2>6. QED
    BY <2>2, <2>3, <2>5
<1>7. MetricInv'
  <2>1. \A c \in Customers : Accounted(c)' = Accounted(c)
    BY <1>1, <1>2, <1>3 DEF Accounted, TicketsSettled
  <2>2. QED
    BY <1>1, <1>3, <2>1 DEF CountInv, MetricInv, CountsAll
<1>8. QED
  BY <1>4, <1>5, <1>6, <1>7 DEF CountInv

\* A commit records the count: it is the latest of the customer's history, and the
\* event in hand is accounted for.
LEMMA CommitCounts ==
    ASSUME DeliveryInv, CountInv, PipelineTypeOK, MetricsCommit, [Next]_vars
    PROVE  CountInv'
<1> DEFINE e == Current(Metrics)
<1>1. /\ TypeInv /\ TypeOK /\ Metrics \in Workers
      /\ pc[Metrics] = "flushed" /\ pc'[Metrics] \in {"committed", "raised"}
      /\ unacked' = unacked /\ settled' = settled /\ early' = early
  BY PipelineAssumption
  DEF DeliveryInv, TypeInv, TypeOK, MetricsCommit, CommitSucceeds, CommitRaises, brokerVars
<1>2. e \in Events /\ unacked[Metrics] = <<e>> /\ Current(Metrics)' = e
  BY <1>1, CurrentType DEF TypeInv, HandInv, Current
<1>3. /\ Stored \subseteq Stored' /\ faulted[Metrics] \subseteq faulted'[Metrics]
      /\ SettledEvents(Metrics)' = SettledEvents(Metrics)
  BY <1>1, PipelineGrows DEF SettledEvents
<1>4. /\ \A c \in Customers : Clean(c)' => Clean(c)
      /\ pc'[Metrics] = "raised" => e \in faulted'[Metrics]
      /\ pc'[Metrics] = "committed" => applied' # applied
  <2>1. \A c \in Customers : Clean(c)' => Clean(c)
    BY <1>1, <1>3 DEF Clean
  <2>2. ASSUME pc'[Metrics] = "raised"
        PROVE  e \in faulted'[Metrics]
    BY <1>1, <2>2 DEF MetricsCommit, CommitSucceeds, CommitRaises, TypeOK
  <2>3. ASSUME pc'[Metrics] = "committed"
        PROVE  applied' # applied
    <3>1. applied' = [applied EXCEPT ![Metrics][e] = @ + 1]
      BY <1>1, <2>3 DEF MetricsCommit, CommitSucceeds, CommitRaises, TypeOK
    <3>2. applied[Metrics][e] \in Nat /\ applied'[Metrics][e] = applied[Metrics][e] + 1
      BY <1>1, <1>2, <3>1 DEF TypeOK
    <3>3. QED
      BY <3>2
  <2>4. QED
    BY <2>1, <2>2, <2>3
<1>5. HandledStored'
  BY <1>1, <1>2, <1>3 DEF CountInv, HandledStored
<1>6. DraftInv'
  BY <1>1 DEF DraftInv
\* The customer whose count is recorded, if any, and the others.
<1>7. \A c \in Customers :
         \/ metric'[c] = metric[c] /\ history'[c] = history[c]
         \/ /\ c = CustomerOf(e)
            /\ metric'[c] = <<draft>> /\ history'[c] = Append(history[c], draft)
  BY DEF MetricsCommit, RecordMetric, PipelineTypeOK
<1>8. ASSUME NEW c \in Customers, c = CustomerOf(e), history'[c] = Append(history[c], draft)
      PROVE  /\ draft \in Nat /\ draft <= TicketCount(c)
             /\ DOMAIN history'[c] = 1..(Len(history[c]) + 1)
             /\ DOMAIN history[c] = 1..Len(history[c]) /\ Len(history[c]) \in Nat
             /\ \A i \in DOMAIN history[c] : /\ history'[c][i] = history[c][i]
                                             /\ history[c][i] <= draft
             /\ history'[c][Len(history[c]) + 1] = draft
  <2>1. history[c] \in Seq(Counts) /\ draft \in Counts /\ Counts \subseteq Nat
    BY HistoryType, EventCounts DEF PipelineTypeOK
  <2>2. draft <= TicketCount(c) /\ \A i \in DOMAIN history[c] : history[c][i] <= draft
    BY <1>1, <1>8 DEF CountInv, DraftInv
  <2>3. DOMAIN history[c] = 1..Len(history[c]) /\ Len(history[c]) \in Nat
    BY <2>1
  <2>4. QED
    BY <1>8, <2>1, <2>2, <2>3, AppendProperties
<1>9. HistoryInv'
  <2>1. SUFFICES ASSUME NEW c \in Customers
                 PROVE  /\ metric'[c] # <<>> => \E i \in DOMAIN history'[c] : history'[c][i] = Head(metric'[c])
                        /\ \A i \in DOMAIN history'[c] : history'[c][i] <= TicketCount(c)'
    BY DEF HistoryInv
  <2>2. /\ TicketCount(c) \in Nat /\ TicketCount(c)' \in Nat /\ TicketCount(c) <= TicketCount(c)'
        /\ \A i \in DOMAIN history[c] : history[c][i] \in Nat /\ history[c][i] <= TicketCount(c)
    BY <1>3, TicketCounts, HistoryType DEF CountInv, HistoryInv
  <2>3. CASE metric'[c] = metric[c] /\ history'[c] = history[c]
    BY <2>2, <2>3 DEF CountInv, HistoryInv
  <2>4. CASE c = CustomerOf(e) /\ metric'[c] = <<draft>> /\ history'[c] = Append(history[c], draft)
    BY <1>8, <2>2, <2>4
  <2>5. QED
    BY <1>7, <2>3, <2>4
<1>10. CountsNeverRegress'
  <2>1. SUFFICES ASSUME NEW c \in Customers, NEW i \in DOMAIN history'[c], NEW j \in DOMAIN history'[c],
                        i <= j
                 PROVE  history'[c][i] <= history'[c][j]
    BY DEF CountsNeverRegress
  <2>2. CASE history'[c] = history[c]
    BY <2>1, <2>2 DEF CountInv, CountsNeverRegress
  <2>3. CASE c = CustomerOf(e) /\ history'[c] = Append(history[c], draft)
    <3>1. CASE j \in DOMAIN history[c]
      BY <1>8, <2>1, <2>3, <3>1 DEF CountInv, CountsNeverRegress
    <3>2. CASE j = Len(history[c]) + 1
      BY <1>8, <2>1, <2>3, <3>2
    <3>3. QED
      BY <1>8, <2>1, <2>3, <3>1, <3>2
  <2>4. QED
    BY <1>7, <2>2, <2>3
<1>11. MetricInv'
  <2>1. SUFFICES ASSUME NEW c \in Customers, Clean(c)', Accounted(c)' # {}
                 PROVE  metric'[c] # <<>> /\ CountsAll(Head(metric[c]), c, Accounted(c))'
    BY DEF MetricInv
  <2>2. Clean(c) /\ TicketsOf(c) \subseteq TicketsOf(c)'
    BY <1>3, <1>4, <2>1, TicketCounts
  \* Nothing is added to what is settled or in hand and already stored.
  <2>3. /\ TicketsSettled(c)' \subseteq TicketsSettled(c)
        /\ TicketInHand(c)' \subseteq TicketInHand(c)
    <3>1. \A t \in SettledEvents(Metrics) \union {e} : CustomerOf(t) = c => t \in Stored
      BY <1>1, <2>2 DEF CountInv, HandledStored, Clean
    <3>2. \A t \in SettledEvents(Metrics) \union {e} : t \in TicketsOf(c)' => t \in TicketsOf(c)
      BY <3>1 DEF TicketsOf
    <3>3. QED
      BY <1>1, <1>2, <1>3, <3>2 DEF TicketsSettled, TicketInHand
  <2>4. CASE CustomerOf(e) = c
    <3>1. pc'[Metrics] = "committed"
      BY <1>1, <1>4, <2>1, <2>4 DEF Clean
    <3>2. metric'[c] = <<draft>>
      BY <1>4, <2>1, <2>4, <3>1, PipelineAssumption DEF MetricsCommit, RecordMetric, PipelineTypeOK
    <3>3. PICK M \in SUBSET TicketsOf(c) :
             TicketsSettled(c) \union TicketInHand(c) \subseteq M /\ draft = Cardinality(M)
      BY <1>1, <2>2, <2>4 DEF CountInv, DraftInv, CountsAll
    <3>4. M \in SUBSET TicketsOf(c)' /\ Accounted(c)' \subseteq M
      BY <2>2, <2>3, <3>3 DEF Accounted
    <3>5. QED
      BY <3>2, <3>3, <3>4 DEF CountsAll
  <2>5. CASE CustomerOf(e) # c
    <3>1. metric'[c] = metric[c]
      BY <1>7, <2>5
    <3>2. TicketInHand(c)' = {}
      BY <1>1, <1>2, <2>5 DEF TicketInHand, TicketsOf
    <3>3. Accounted(c)' \subseteq Accounted(c)
      BY <2>3, <3>2 DEF Accounted
    <3>4. metric[c] # <<>> /\ CountsAll(Head(metric[c]), c, Accounted(c))
      BY <2>1, <2>2, <3>3 DEF CountInv, MetricInv
    <3>5. PICK M \in SUBSET TicketsOf(c) :
             Accounted(c) \subseteq M /\ Head(metric[c]) = Cardinality(M)
      BY <3>4 DEF CountsAll
    <3>6. M \in SUBSET TicketsOf(c)' /\ Accounted(c)' \subseteq M
      BY <2>2, <3>3, <3>5
    <3>7. QED
      BY <3>1, <3>4, <3>5, <3>6 DEF CountsAll
  <2>6. QED
    BY <2>4, <2>5
<1>12. QED
  BY <1>5, <1>6, <1>9, <1>10, <1>11 DEF CountInv

\* Metrics, histories and warnings keep their types.
LEMMA PipelineTypes ==
    ASSUME TypeInv, PipelineTypeOK, [PipelineNext]_pipelineVars, TypeInv'
    PROVE  PipelineTypeOK'
<1>1. TypeOK'
  BY DEF TypeInv
<1>2. \A c : TicketCount(c) \in Counts
  BY EventCounts DEF TicketCount, TicketsOf, Stored
<1>3. 0 \in Counts
  <2>1. Cardinality({}) \in Counts /\ Cardinality({}) = 0
    BY EventCounts, FS_EmptySet
  <2>2. QED
    BY <2>1
<1>4. CASE MetricsHandler
  <2>1. Current(Metrics) \in Events
    BY <1>4, CurrentType, PipelineAssumption DEF MetricsHandler, HandlerReturns, TypeInv, HandInv
  <2>2. QED
    BY <1>1, <1>2, <1>4, <2>1 DEF MetricsHandler, PipelineTypeOK
<1>5. CASE MetricsCommit
  <2>1. metric' \in [Customers -> {<<>>} \union {<<n>> : n \in Counts}]
    BY <1>5 DEF MetricsCommit, RecordMetric, PipelineTypeOK
  <2>2. \A c \in Customers : Append(history[c], draft) \in Seq(Counts)
    BY AppendProperties DEF PipelineTypeOK
  <2>3. history' \in [Customers -> Seq(Counts)]
    <3>1. history \in [Customers -> Seq(Counts)]
      BY DEF PipelineTypeOK
    <3>2. history' = history \/ \E c : history' = [history EXCEPT ![c] = Append(history[c], draft)]
      BY <1>5 DEF MetricsCommit, RecordMetric
    <3>3. QED
      BY <2>2, <3>1, <3>2
  <2>4. QED
    BY <1>1, <1>3, <1>5, <2>1, <2>3 DEF MetricsCommit, PipelineTypeOK
<1>6. CASE AlertsHandler
  <2>1. CustomerOf(Current(Alerts)) # Nobody => CustomerOf(Current(Alerts)) \in Customers
    <3>1. Current(Alerts) \in Events
      BY <1>6, CurrentType DEF AlertsHandler, HandlerReturns, TypeInv, HandInv
    <3>2. QED
      BY <3>1, CustomerType
  <2>2. QED
    BY <1>1, <1>6, <2>1 DEF AlertsHandler, PipelineTypeOK
<1>7. CASE UNCHANGED dataVars
  BY <1>1, <1>7 DEF dataVars, PipelineTypeOK
<1>8. QED
  BY <1>4, <1>5, <1>6, <1>7
  DEF PipelineNext, Transport, HandlerRaises, OtherCommit, StoreHandler, pipelineVars

\* A warning is of a value that the metric had, and the history keeps it.
LEMMA WarningsKept ==
    ASSUME PipelineInv, [PipelineNext]_pipelineVars, PipelineTypeOK'
    PROVE  WarningsAreDue'
<1>1. PipelineTypeOK /\ WarningsAreDue /\ HistoryInv
  BY DEF PipelineInv, CountInv
<1>2. CASE MetricsCommit
  <2>1. SUFFICES ASSUME NEW c \in warned
                 PROVE  \E i \in DOMAIN history'[c] : history'[c][i] > TicketLimit
    BY <1>2 DEF WarningsAreDue, MetricsCommit
  <2>2. /\ c \in Customers /\ history[c] \in Seq(Counts) /\ draft \in Counts
    BY <1>1, HistoryType DEF PipelineTypeOK
  <2>3. history'[c] = history[c] \/ history'[c] = Append(history[c], draft)
    BY <1>1, <1>2, <2>2 DEF MetricsCommit, RecordMetric, PipelineTypeOK
  <2>4. PICK i \in DOMAIN history[c] : history[c][i] > TicketLimit
    BY <1>1 DEF WarningsAreDue
  <2>5. i \in DOMAIN history'[c] /\ history'[c][i] = history[c][i]
    BY <2>2, <2>3, AppendProperties
  <2>6. QED
    BY <2>4, <2>5
<1>3. CASE AlertsHandler
  <2> DEFINE c == CustomerOf(Current(Alerts))
  <2>1. history' = history
    BY <1>3 DEF AlertsHandler
  <2>2. warned' = warned \/ (warned' = warned \union {c} /\ c \in Customers
                             /\ metric[c] # <<>> /\ AboveLimit(Head(metric[c])))
    <3>1. Current(Alerts) \in Events
      BY <1>3, CurrentType DEF AlertsHandler, HandlerReturns, PipelineInv, DeliveryInv, TypeInv, HandInv
    <3>2. c # Nobody => c \in Customers
      BY <3>1, CustomerType
    <3>3. QED
      BY <1>3, <3>2 DEF AlertsHandler
  <2>3. QED
    BY <1>1, <2>1, <2>2 DEF WarningsAreDue, HistoryInv, AboveLimit
<1>4. CASE warned' = warned /\ history' = history
  BY <1>1, <1>4 DEF WarningsAreDue
<1>5. QED
  BY <1>2, <1>3, <1>4
  DEF PipelineNext, Transport, HandlerRaises, OtherCommit, StoreHandler, MetricsHandler,
      dataVars, pipelineVars

\* The other steps record no count: the metrics worker stays where it is, or goes
\* on with its transaction rolled back or none open.
LEMMA TransportCounts ==
    ASSUME TypeInv, NEW w \in Workers,
           \/ StartWorker(w) \/ Deliver(w) \/ Requeue(w) \/ Crash(w) \/ Sigterm(w)
           \/ CloseConsumer(w) \/ LoseConnection(w) \/ HandlerFails(w)
           \/ w # Metrics /\ (Ack(w) \/ HandlerReturns(w) \/ CommitSucceeds(w) \/ CommitRaises(w))
    PROVE  \/ pc'[Metrics] = pc[Metrics] /\ unacked'[Metrics] = unacked[Metrics]
           \/ pc'[Metrics] \notin {"flushed", "committed"}
<1>1. /\ Metrics \in Workers
      /\ pc \in [Workers -> WorkerStatus]
      /\ unacked \in [Workers -> {<<>>} \union {<<e>> : e \in Events}]
  BY PipelineAssumption DEF TypeInv, TypeOK
<1>2. ASSUME NEW next \in {"stopped", "idle"}, Interrupt(w, next)
      PROVE  \/ pc'[Metrics] = pc[Metrics] /\ unacked'[Metrics] = unacked[Metrics]
             \/ pc'[Metrics] \notin {"flushed", "committed"}
  BY <1>1, <1>2 DEF Interrupt, PutBack
<1>3. CASE Crash(w) \/ CloseConsumer(w) \/ LoseConnection(w)
  BY <1>2, <1>3 DEF Crash, CloseConsumer, LoseConnection
<1>4. CASE StartWorker(w) \/ Sigterm(w)
  BY <1>1, <1>4 DEF StartWorker, Sigterm, brokerVars
<1>5. CASE Deliver(w) \/ Requeue(w)
  BY <1>1, <1>5 DEF Deliver, Requeue, PutBack
<1>6. CASE HandlerFails(w)
  BY <1>1, <1>6 DEF HandlerFails, brokerVars
<1>7. CASE w # Metrics /\ (Ack(w) \/ HandlerReturns(w) \/ CommitSucceeds(w) \/ CommitRaises(w))
  BY <1>1, <1>7 DEF Ack, HandlerReturns, CommitSucceeds, CommitRaises, brokerVars
<1>8. QED
  BY <1>3, <1>4, <1>5, <1>6, <1>7

\* Every step of the pipeline keeps what the counts account for.
LEMMA NextCounts ==
    ASSUME PipelineInv, [PipelineNext]_pipelineVars
    PROVE  CountInv'
<1>1. /\ DeliveryInv /\ CountInv /\ PipelineTypeOK /\ TypeInv /\ [Next]_vars
      /\ DataStore # Metrics /\ Alerts # Metrics /\ DataStore \in Workers
  BY PipelineStep, PipelineAssumption DEF PipelineInv, DeliveryInv
<1>2. /\ Stored \subseteq Stored' /\ faulted[Metrics] \subseteq faulted'[Metrics]
      /\ ~Ack(Metrics) => SettledEvents(Metrics)' = SettledEvents(Metrics)
  BY <1>1, PipelineGrows
<1>3. CASE Ack(Metrics) /\ UNCHANGED dataVars
  BY <1>1, <1>3, AckCounts DEF dataVars
<1>4. ASSUME SettledEvents(Metrics)' = SettledEvents(Metrics),
             UNCHANGED <<metric, history, draft, early>>,
             \/ pc'[Metrics] = pc[Metrics] /\ unacked'[Metrics] = unacked[Metrics]
             \/ pc'[Metrics] \notin {"flushed", "committed"}
      PROVE  CountInv'
  BY <1>1, <1>2, <1>4, CountsKept
<1>5. CASE MetricsHandler
  BY <1>1, <1>5, HandlerCounts
<1>6. CASE MetricsCommit
  BY <1>1, <1>6, CommitCounts
<1>7. CASE StoreHandler \/ AlertsHandler \/ \E w \in Workers : HandlerRaises(w) \/ OtherCommit(w)
  <2>1. UNCHANGED settled /\ UNCHANGED <<metric, history, draft, early>>
    BY <1>7 DEF StoreHandler, AlertsHandler, HandlerRaises, OtherCommit, HandlerFails,
                HandlerReturns, CommitSucceeds, CommitRaises, brokerVars, dataVars
  <2>2. \E w \in Workers :
           \/ HandlerFails(w)
           \/ w # Metrics /\ (HandlerReturns(w) \/ CommitSucceeds(w) \/ CommitRaises(w))
    BY <1>1, <1>7 DEF StoreHandler, AlertsHandler, HandlerRaises, OtherCommit
  <2>3. SettledEvents(Metrics)' = SettledEvents(Metrics)
    BY <2>1 DEF SettledEvents
  <2>4. QED
    BY <1>1, <1>4, <2>1, <2>2, <2>3, TransportCounts
<1>8. CASE Transport /\ ~Ack(Metrics)
  <2>1. /\ UNCHANGED <<metric, history, draft, early>>
        /\ SettledEvents(Metrics)' = SettledEvents(Metrics)
    BY <1>2, <1>8 DEF Transport, dataVars
  <2>2. CASE \E w \in Workers :
               \/ StartWorker(w) \/ Deliver(w) \/ Requeue(w) \/ Crash(w) \/ Sigterm(w)
               \/ CloseConsumer(w) \/ LoseConnection(w)
               \/ w # Metrics /\ Ack(w)
    BY <1>1, <1>4, <1>8, <2>1, <2>2, TransportCounts
  <2>3. CASE RestartBroker
    <3>1. pc'[Metrics] \in {"stopped", "idle"}
      BY <2>3, PipelineAssumption DEF RestartBroker
    <3>2. QED
      BY <1>4, <1>8, <2>1, <3>1
  <2>4. CASE RestartApi \/ \E e \in Events : Publish(e) \/ RefuseUnconnected(e) \/ Answer202(e)
    <3>1. pc' = pc /\ unacked' = unacked
      BY <2>4 DEF RestartApi, Publish, RefuseUnconnected, Answer202, brokerVars
    <3>2. QED
      BY <1>4, <1>8, <2>1, <3>1
  <2>5. QED
    BY <1>8, <2>2, <2>3, <2>4 DEF Transport
<1>9. CASE UNCHANGED pipelineVars
  <2>1. UNCHANGED vars /\ UNCHANGED dataVars
    BY <1>9 DEF pipelineVars
  <2>2. /\ pc' = pc /\ unacked' = unacked /\ UNCHANGED <<metric, history, draft, early>>
        /\ SettledEvents(Metrics)' = SettledEvents(Metrics)
    BY <2>1 DEF vars, dataVars, SettledEvents
  <2>3. QED
    BY <1>4, <2>2
<1>10. QED
  <2>1. Transport /\ Ack(Metrics) => UNCHANGED dataVars
    BY DEF Transport
  <2>2. QED
    BY <1>3, <1>5, <1>6, <1>7, <1>8, <1>9, <2>1 DEF PipelineNext

\* Nothing is counted at first.
LEMMA InitPipelineInv == PipelineInit => PipelineInv
<1> SUFFICES ASSUME PipelineInit
             PROVE  PipelineInv
  OBVIOUS
<1>1. Init /\ DeliveryInv /\ TypeOK /\ Metrics \in Workers /\ DataStore \in Workers
  BY InitDeliveryInv, PipelineAssumption DEF PipelineInit, DeliveryInv, TypeInv
<1>2. SettledEvents(Metrics) = {} /\ pc[Metrics] = "stopped"
  BY <1>1 DEF Init, SettledEvents
<1>3. 0 \in Counts
  <2>1. Cardinality({}) \in Counts /\ Cardinality({}) = 0
    BY EventCounts, FS_EmptySet
  <2>2. QED
    BY <2>1
<1>4. PipelineTypeOK
  <2>1. <<>> \in Seq(Counts)
    OBVIOUS
  <2>2. QED
    BY <1>1, <1>3, <2>1 DEF PipelineInit, PipelineTypeOK
<1>5. CountInv
  <2>1. \A c \in Customers : metric[c] = <<>> /\ history[c] = <<>> /\ DOMAIN history[c] = {}
    BY DEF PipelineInit
  <2>2. \A c \in Customers : Accounted(c) = {}
    BY <1>2 DEF Accounted, TicketsSettled
  <2>3. QED
    BY <1>2, <2>1, <2>2 DEF CountInv, HandledStored, HistoryInv, DraftInv, MetricInv, CountsNeverRegress
<1>6. WarningsAreDue
  BY DEF PipelineInit, WarningsAreDue
<1>7. QED
  BY <1>1, <1>4, <1>5, <1>6 DEF PipelineInv

\* Every state the pipeline reaches satisfies the invariant.
LEMMA PipelineInvHolds == PipelineSpec => []PipelineInv
<1>1. PipelineInit => PipelineInv
  BY InitPipelineInv
<1>2. PipelineInv /\ [PipelineNext]_pipelineVars => PipelineInv'
  <2> SUFFICES ASSUME PipelineInv, [PipelineNext]_pipelineVars
               PROVE  PipelineInv'
    OBVIOUS
  <2>1. DeliveryInv'
    BY PipelineStep, NextDeliveryInv DEF PipelineInv
  <2>2. PipelineTypeOK'
    BY <2>1, PipelineTypes DEF PipelineInv, DeliveryInv
  <2>3. CountInv'
    BY NextCounts
  <2>4. WarningsAreDue'
    BY <2>2, WarningsKept
  <2>5. QED
    BY <2>1, <2>2, <2>3, <2>4 DEF PipelineInv
<1>3. QED
  BY <1>1, <1>2, PTL DEF PipelineSpec

-----------------------------------------------------------------------------
(* What the pipeline's counts are good for *)

\* Every variable of the pipeline keeps its type.
THEOREM PipelineTypeCorrect == PipelineSpec => []PipelineTypeOK
<1>1. PipelineInv => PipelineTypeOK
  BY DEF PipelineInv
<1>2. QED
  BY <1>1, PipelineInvHolds, PTL

\* No recount overwrites a later one: the snapshots of a customer never go down
\* while tickets only arrive, whatever crashes, fails or is delivered again
\* (broker.py:104, metrics.py:63-78).
THEOREM CountsOnlyGrow == PipelineSpec => []CountsNeverRegress
<1>1. PipelineInv => CountsNeverRegress
  BY DEF PipelineInv, CountInv
<1>2. QED
  BY <1>1, PipelineInvHolds, PTL

\* A volume warning is of a count that was recorded and above the threshold
\* (alerts.py:60-71).
THEOREM WarningsWereDue == PipelineSpec => []WarningsAreDue
<1>1. PipelineInv => WarningsAreDue
  BY DEF PipelineInv
<1>2. QED
  BY <1>1, PipelineInvHolds, PTL

\* When the metrics worker is through with a customer's stored tickets, its count
\* is wrong only if it handled one of the customer's events before the event was
\* stored, or failed on one (metrics.py:43-78).
THEOREM OnlyEarlyCountsAreStale == PipelineSpec => []StaleOnlyWhenEarly
<1>1. PipelineInv => StaleOnlyWhenEarly
  <2>1. SUFFICES ASSUME PipelineInv, NEW c \in Customers,
                        {e \in Events : CustomerOf(e) = c} \intersect (early \union faulted[Metrics]) = {},
                        TicketsOf(c) \subseteq SettledEvents(Metrics), TicketsOf(c) # {}
                 PROVE  metric[c] = <<Cardinality(TicketsOf(c))>>
    BY DEF StaleOnlyWhenEarly
  <2>2. early \subseteq Events /\ faulted[Metrics] \subseteq Events
    <3>1. Metrics \in Workers
      BY PipelineAssumption
    <3>2. early \subseteq Events /\ faulted \in [Workers -> SUBSET Events]
      BY <2>1 DEF PipelineInv, PipelineTypeOK, TypeOK
    <3>3. QED
      BY <3>1, <3>2
  <2>3. Clean(c)
    BY <2>1, <2>2 DEF Clean
  <2>4. TicketsOf(c) \subseteq Accounted(c)
    BY <2>1 DEF Accounted, TicketsSettled
  <2>5. metric[c] # <<>> /\ CountsAll(Head(metric[c]), c, Accounted(c))
    BY <2>1, <2>3, <2>4 DEF PipelineInv, CountInv, MetricInv
  <2>6. PICK M \in SUBSET TicketsOf(c) : Accounted(c) \subseteq M /\ Head(metric[c]) = Cardinality(M)
    BY <2>5 DEF CountsAll
  <2>7. M = TicketsOf(c)
    BY <2>4, <2>6
  <2>8. PICK n \in Counts : metric[c] = <<n>>
    <3>1. metric[c] \in {<<>>} \union {<<n>> : n \in Counts}
      BY <2>1 DEF PipelineInv, PipelineTypeOK
    <3>2. QED
      BY <2>5, <3>1
  <2>9. Head(metric[c]) = n
    BY <2>8
  <2>10. QED
    BY <2>6, <2>7, <2>8, <2>9
<1>2. QED
  BY <1>1, PipelineInvHolds, PTL

=============================================================================
