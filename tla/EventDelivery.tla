---------------------------- MODULE EventDelivery ----------------------------
(***************************************************************************)
(* The delivery of ingested events: POST /hooks/ingest publishes to a      *)
(* RabbitMQ fanout exchange (backend/app/infrastructure/broker.py), and    *)
(* one worker process per queue consumes with a prefetch of one, handles   *)
(* the message in a database session of its own and acknowledges it        *)
(* (backend/workers/entrypoint.py).  What a handler writes is left to      *)
(* EventPipeline: here a handler commits, fails or raises.                 *)
(*                                                                         *)
(* Processes crash, are told to stop and lose their connection to the      *)
(* broker, and the broker restarts; MaxFaults bounds how often in all.     *)
(***************************************************************************)
EXTENDS Naturals, Sequences

CONSTANTS Events,         \* event_ids, one per ingestion request
          Workers,        \* one worker process, and one queue, each
          KeyedWorkers,   \* those whose handler inserts a row keyed by event_id
          MaxFaults       \* how many crashes, stops and lost connections

ASSUME DeliveryAssumption ==
    /\ KeyedWorkers \subseteq Workers
    /\ MaxFaults \in Nat

VARIABLES publisher,    \* the API process's publisher: "connected" or "none"
          request,      \* request[e]: the ingestion request that mints e
          bound,        \* the workers whose durable queue is declared and bound
          queue,        \* queue[w]: ready messages, oldest first
          unacked,      \* unacked[w]: the message delivered and not yet settled
          redelivered,  \* redelivered[w]: messages the broker flags as redelivered
          pc,           \* pc[w]: where worker w's process is
          stopping,     \* the workers that received SIGTERM
          applied,      \* applied[w][e]: how often w committed e's writes
          settled,      \* settled[w]: messages acknowledged, oldest first
          faulted,      \* faulted[w]: events whose handling or commit raised
          faults        \* crashes, stops and lost connections so far

apiVars    == <<publisher, request>>
brokerVars == <<bound, queue, unacked, redelivered, settled>>
vars       == <<publisher, request, bound, queue, unacked, redelivered, pc,
                stopping, applied, settled, faulted, faults>>

RequestStatus ==
    {"new", "published", "accepted", "refused", "unanswered"}

WorkerStatus ==
    {"stopped", "idle", "handling", "flushed", "committed", "swallowed", "raised"}

TypeOK ==
    /\ publisher \in {"connected", "none"}
    /\ request \in [Events -> RequestStatus]
    /\ bound \subseteq Workers
    /\ queue \in [Workers -> Seq(Events)]
    /\ unacked \in [Workers -> {<<>>} \union {<<e>> : e \in Events}]
    /\ redelivered \in [Workers -> SUBSET Events]
    /\ pc \in [Workers -> WorkerStatus]
    /\ stopping \subseteq Workers
    /\ applied \in [Workers -> [Events -> Nat]]
    /\ settled \in [Workers -> Seq(Events)]
    /\ faulted \in [Workers -> SUBSET Events]
    /\ faults \in 0..MaxFaults

\* The event worker w has in hand, while it has one.
Current(w) == Head(unacked[w])

-----------------------------------------------------------------------------
(* The API process *)

\* The connection at start-up is best effort and is never retried.
Init ==
    /\ publisher \in {"connected", "none"}
    /\ request = [e \in Events |-> "new"]
    /\ bound = {}
    /\ queue = [w \in Workers |-> <<>>]
    /\ unacked = [w \in Workers |-> <<>>]
    /\ redelivered = [w \in Workers |-> {}]
    /\ pc = [w \in Workers |-> "stopped"]
    /\ stopping = {}
    /\ applied = [w \in Workers |-> [e \in Events |-> 0]]
    /\ settled = [w \in Workers |-> <<>>]
    /\ faulted = [w \in Workers |-> {}]
    /\ faults = 0

\* The exchange copies the message into every queue bound at that moment.
Publish(e) ==
    /\ request[e] = "new"
    /\ publisher = "connected"
    /\ request' = [request EXCEPT ![e] = "published"]
    /\ queue' = [w \in Workers |->
                   IF w \in bound THEN Append(queue[w], e) ELSE queue[w]]
    /\ UNCHANGED <<publisher, bound, unacked, redelivered, pc, stopping,
                   applied, settled, faulted, faults>>

\* RuntimeError, answered with 500: nothing was published.
RefuseUnconnected(e) ==
    /\ request[e] = "new"
    /\ publisher = "none"
    /\ request' = [request EXCEPT ![e] = "refused"]
    /\ UNCHANGED <<publisher, brokerVars, pc, stopping, applied, faulted, faults>>

\* The broker confirmed the message; the route returns 202.
Answer202(e) ==
    /\ request[e] = "published"
    /\ request' = [request EXCEPT ![e] = "accepted"]
    /\ UNCHANGED <<publisher, brokerVars, pc, stopping, applied, faulted, faults>>

\* The API process restarts: requests in progress get no answer, and the new
\* process tries once more to connect its publisher.
RestartApi ==
    /\ faults < MaxFaults
    /\ faults' = faults + 1
    /\ publisher' \in {"connected", "none"}
    /\ request' = [e \in Events |->
                     IF request[e] = "published" THEN "unanswered" ELSE request[e]]
    /\ UNCHANGED <<brokerVars, pc, stopping, applied, faulted>>

-----------------------------------------------------------------------------
(* The worker processes *)

\* A worker declares its durable queue and binds it only now.
StartWorker(w) ==
    /\ pc[w] = "stopped"
    /\ pc' = [pc EXCEPT ![w] = "idle"]
    /\ bound' = bound \union {w}
    /\ UNCHANGED <<apiVars, queue, unacked, redelivered, stopping, applied,
                   settled, faulted, faults>>

\* prefetch_count = 1: the next message comes once the last one is settled.
Deliver(w) ==
    /\ pc[w] = "idle"
    /\ queue[w] # <<>>
    /\ pc' = [pc EXCEPT ![w] = "handling"]
    /\ unacked' = [unacked EXCEPT ![w] = <<Head(queue[w])>>]
    /\ queue' = [queue EXCEPT ![w] = Tail(@)]
    /\ UNCHANGED <<apiVars, bound, redelivered, stopping, applied, settled,
                   faulted, faults>>

\* Variant: the row gets a key of its own at every insert.
RowIsAlwaysNew(w) == w \in Workers

\* The primary key lets an event's row in once; a second insert raises at flush.
RowIsNew(w) == w \in KeyedWorkers => applied[w][Current(w)] = 0

HandlerReturns(w) ==
    /\ pc[w] = "handling"
    /\ RowIsNew(w)
    /\ pc' = [pc EXCEPT ![w] = "flushed"]
    /\ UNCHANGED <<apiVars, brokerVars, stopping, applied, faulted, faults>>

\* on_message rolls back and logs whatever the handler raises, so the consumer
\* never hears of it; only an exception of the rollback itself gets through.
HandlerFails(w) ==
    /\ pc[w] = "handling"
    /\ \E outcome \in {"swallowed", "raised"} : pc' = [pc EXCEPT ![w] = outcome]
    /\ faulted' = [faulted EXCEPT ![w] = @ \union {Current(w)}]
    /\ UNCHANGED <<apiVars, brokerVars, stopping, applied, faults>>

CommitSucceeds(w) ==
    /\ pc[w] = "flushed"
    /\ pc' = [pc EXCEPT ![w] = "committed"]
    /\ applied' = [applied EXCEPT ![w][Current(w)] = @ + 1]
    /\ UNCHANGED <<apiVars, brokerVars, stopping, faulted, faults>>

\* A commit that raises may or may not have reached the disk.
CommitRaises(w) ==
    /\ pc[w] = "flushed"
    /\ pc' = [pc EXCEPT ![w] = "raised"]
    /\ \E written \in {0, 1} :
         applied' = [applied EXCEPT ![w][Current(w)] = @ + written]
    /\ faulted' = [faulted EXCEPT ![w] = @ \union {Current(w)}]
    /\ UNCHANGED <<apiVars, brokerVars, stopping, faults>>

\* Variant: the message is acknowledged before its handler runs.
MayAckFirst(w) == pc[w] \in {"handling", "committed", "swallowed", "raised"}

\* A message is settled after its commit, after a failure that was swallowed,
\* and when it raises a second time.
MayAck(w) ==
    \/ pc[w] \in {"committed", "swallowed"}
    \/ pc[w] = "raised" /\ Current(w) \in redelivered[w]

Ack(w) ==
    /\ MayAck(w)
    /\ pc' = [pc EXCEPT ![w] = "idle"]
    /\ settled' = [settled EXCEPT ![w] = Append(@, Current(w))]
    /\ unacked' = [unacked EXCEPT ![w] = <<>>]
    /\ UNCHANGED <<apiVars, bound, queue, redelivered, stopping, applied,
                   faulted, faults>>

\* The broker puts w's unacknowledged message back where it was, flagged.
PutBack(w) ==
    /\ queue' = [queue EXCEPT ![w] = unacked[w] \o @]
    /\ unacked' = [unacked EXCEPT ![w] = <<>>]
    /\ redelivered' = [redelivered EXCEPT ![w] = @ \union {e \in Events : unacked[w] = <<e>>}]

\* Variant: every exception requeues, redelivered or not.
MayRequeueAgain(w) == pc[w] = "raised"

MayRequeue(w) == pc[w] = "raised" /\ Current(w) \notin redelivered[w]

\* Variant: the message is rejected without requeue=True.
Reject(w) ==
    /\ MayRequeue(w)
    /\ pc' = [pc EXCEPT ![w] = "idle"]
    /\ unacked' = [unacked EXCEPT ![w] = <<>>]
    /\ UNCHANGED <<apiVars, bound, queue, redelivered, stopping, applied,
                   settled, faulted, faults>>

Requeue(w) ==
    /\ MayRequeue(w)
    /\ pc' = [pc EXCEPT ![w] = "idle"]
    /\ PutBack(w)
    /\ UNCHANGED <<apiVars, bound, stopping, applied, settled, faulted, faults>>

\* The process or its channel goes: an open transaction is rolled back, a
\* committed one stays, and the message in hand returns to the queue.
Interrupt(w, next) ==
    /\ pc[w] # "stopped"
    /\ faults < MaxFaults
    /\ faults' = faults + 1
    /\ pc' = [pc EXCEPT ![w] = next]
    /\ PutBack(w)
    /\ UNCHANGED <<apiVars, bound, applied, settled, faulted>>

\* A kill while the worker is stopping looks like CloseConsumer.
Crash(w) ==
    /\ w \notin stopping
    /\ Interrupt(w, "stopped")
    /\ UNCHANGED stopping

\* SIGTERM only sets an event that run_worker awaits.
Sigterm(w) ==
    /\ pc[w] # "stopped"
    /\ faults < MaxFaults
    /\ stopping' = stopping \union {w}
    /\ UNCHANGED <<apiVars, brokerVars, pc, applied, faulted, faults>>

\* run_worker wakes and closes the channel, whatever the handler is doing.
CloseConsumer(w) ==
    /\ w \in stopping
    /\ stopping' = stopping \ {w}
    /\ Interrupt(w, "stopped")

\* connect_robust reconnects and consumes again.
LoseConnection(w) ==
    /\ Interrupt(w, "idle")
    /\ UNCHANGED stopping

\* Messages are published without a delivery mode, hence transient: the durable
\* queues survive a restart of the broker empty, and the workers reconnect.
RestartBroker ==
    /\ faults < MaxFaults
    /\ faults' = faults + 1
    /\ queue' = [w \in Workers |-> <<>>]
    /\ unacked' = [w \in Workers |-> <<>>]
    /\ pc' = [w \in Workers |-> IF pc[w] = "stopped" THEN "stopped" ELSE "idle"]
    /\ UNCHANGED <<apiVars, bound, redelivered, stopping, applied, settled,
                   faulted>>

-----------------------------------------------------------------------------

\* What a running worker does by itself with the message at hand.
WorkerStep(w) ==
    \/ Deliver(w)
    \/ HandlerReturns(w)
    \/ HandlerFails(w)
    \/ CommitSucceeds(w)
    \/ CommitRaises(w)
    \/ Ack(w)
    \/ Requeue(w)

Next ==
    \/ \E e \in Events : Publish(e) \/ RefuseUnconnected(e) \/ Answer202(e)
    \/ RestartApi
    \/ \E w \in Workers :
         \/ StartWorker(w)
         \/ WorkerStep(w)
         \/ Crash(w)
         \/ Sigterm(w)
         \/ CloseConsumer(w)
         \/ LoseConnection(w)
    \/ RestartBroker

Spec == Init /\ [][Next]_vars

\* The event loop of a running worker keeps it moving.  Nothing restarts a
\* worker that stopped: docker-compose.yaml sets no restart policy.
FairSpec == Spec /\ \A w \in Workers : WF_vars(WorkerStep(w))

-----------------------------------------------------------------------------
(* Properties *)

SettledEvents(w) == {settled[w][i] : i \in DOMAIN settled[w]}

\* An event that a worker acknowledged without having committed its writes is
\* one whose handler or commit raised: crashes, stops, lost connections and
\* redeliveries alone never lose one, because the ack follows the commit
\* (broker.py:126-130).
LossNeedsFault ==
    \A w \in Workers : \A e \in SettledEvents(w) :
        applied[w][e] = 0 => e \in faulted[w]

\* However often a message is redelivered, after a crash between commit and ack
\* or a commit whose outcome is unknown, the data-store worker stores its event
\* once (data_store.py:65-72, 82-95: the event_id of the envelope is the key).
StoredOnce ==
    \A w \in KeyedWorkers : \A e \in Events : applied[w][e] <= 1

\* Each worker finishes every event of its queue once and in publication order,
\* across requeues and redeliveries (broker.py:99-145).
Fanout == INSTANCE EventQueues WITH
    offered    <- {e \in Events : request[e] \notin {"new", "refused"}},
    subscribed <- bound,
    pending    <- [w \in Workers |-> unacked[w] \o queue[w]],
    done       <- settled

ImplementsFanout == Fanout!Spec

\* A worker that keeps running works its queue off: no message, not even one
\* whose handling always raises, is requeued for ever (broker.py:134-143).
Waiting(w, e) == unacked[w] = <<e>> \/ \E i \in DOMAIN queue[w] : queue[w][i] = e

QueueDrains ==
    \A w \in Workers : \A e \in Events :
        <>[](pc[w] # "stopped") => (Waiting(w, e) ~> ~Waiting(w, e))

-----------------------------------------------------------------------------
(* What the repository says of delivery and the code does not do *)

\* ARCHITECTURE.md:727: "A failing alert consumer doesn't lose events - they
\* stay in the queue for retry": the first failure of an event is not its end.
FailureKeepsEvent ==
    \A w \in Workers : \A e \in SettledEvents(w) :
        applied[w][e] = 0 => e \in redelivered[w]

\* backend/CODING_STANDARDS.md:402: "Workers handle SIGTERM by finishing current
\* message before stopping".
ShutdownFinishesMessage ==
    [][\A w \in stopping : pc'[w] = "stopped" => unacked[w] = <<>>]_vars

=============================================================================
