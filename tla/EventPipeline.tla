---------------------------- MODULE EventPipeline ----------------------------
(***************************************************************************)
(* EventDelivery with the handlers of the three workers: data_store stores *)
(* the event's row, metrics recounts the customer's support tickets from   *)
(* the stored rows, alerts compares the stored metric with a threshold.    *)
(* (backend/workers/{_resolve,data_store,metrics,alerts}.py)               *)
(*                                                                         *)
(* The three consume queues of their own, so nothing orders the handling   *)
(* of one event by one worker with its handling by another.                *)
(***************************************************************************)
EXTENDS EventDelivery, FiniteSets

CONSTANTS DataStore, Metrics, Alerts,  \* the three workers
          Customers,                   \* the customers' rows
          ByName,       \* ByName[e]: the customers whose name is e's identifier
          ByEmail,      \* ByEmail[e]: those whose e-mail is e's identifier
          Tickets,      \* the events of type support_ticket, all of this month
          TicketLimit,  \* alerts warns above this number of tickets
          DbErrors,     \* the workers that may meet a transient database error
          Nobody        \* no customer

ASSUME PipelineAssumption ==
    /\ DataStore # Metrics
    /\ Alerts \notin {DataStore, Metrics}
    /\ {DataStore, Metrics} \subseteq Workers
    /\ Workers \subseteq {DataStore, Metrics, Alerts}
    /\ KeyedWorkers = {DataStore}
    /\ IsFiniteSet(Events)  \* event_ids are UUIDs
    /\ Tickets \subseteq Events
    /\ ByName \in [Events -> SUBSET Customers]
    /\ ByEmail \in [Events -> SUBSET Customers]
    /\ Nobody \notin Customers
    /\ TicketLimit \in Nat
    /\ DbErrors \subseteq Workers

VARIABLES metric,   \* metric[c]: support_tickets_last_30d, <<>> before its first value
          history,  \* history[c]: the snapshots appended, oldest first
          draft,    \* the value in the metrics worker's open transaction
          early,    \* events the metrics worker handled before their row was stored
          warned    \* customers whose ticket volume the alerts worker warned of

dataVars     == <<metric, history, draft, early, warned>>
pipelineVars == <<vars, dataVars>>

Counts == 0..Cardinality(Events)

PipelineTypeOK ==
    /\ TypeOK
    /\ metric \in [Customers -> {<<>>} \union {<<n>> : n \in Counts}]
    /\ history \in [Customers -> Seq(Counts)]
    /\ draft \in Counts
    /\ early \subseteq Events
    /\ warned \subseteq Customers

\* The rows of the events table.
Stored == {e \in Events : applied[DataStore][e] > 0}

\* scalar_one_or_none raises when several customers match.
Ambiguous(e) ==
    \/ Cardinality(ByName[e]) > 1
    \/ ByName[e] = {} /\ Cardinality(ByEmail[e]) > 1

\* By name first, then by e-mail.
CustomerOf(e) ==
    LET matches == IF ByName[e] # {} THEN ByName[e] ELSE ByEmail[e]
    IN  IF Cardinality(matches) = 1 THEN CHOOSE c \in matches : TRUE ELSE Nobody

TicketsOf(c) == {e \in Stored \intersect Tickets : CustomerOf(e) = c}

\* Variant: the event in hand is counted besides the stored rows.
TicketCountPlusCurrent(c) == Cardinality(TicketsOf(c)) + 1

\* Variant: only the events the metrics worker has not settled yet.
TicketCountSinceLast(c) == Cardinality(TicketsOf(c) \ SettledEvents(Metrics))

TicketCount(c) == Cardinality(TicketsOf(c))

PipelineInit ==
    /\ Init
    /\ metric = [c \in Customers |-> <<>>]
    /\ history = [c \in Customers |-> <<>>]
    /\ draft = 0
    /\ early = {}
    /\ warned = {}

-----------------------------------------------------------------------------
(* The handlers *)

HandlerRaises(w) ==
    /\ HandlerFails(w)
    /\ \/ ~RowIsNew(w)
       \/ Ambiguous(Current(w))
       \/ w \in DbErrors
    /\ UNCHANGED dataVars

StoreHandler ==
    /\ HandlerReturns(DataStore)
    /\ ~Ambiguous(Current(DataStore))
    /\ UNCHANGED dataVars

\* The count reads what is committed when it runs; a customer that cannot be
\* resolved is logged and skipped.
MetricsHandler ==
    LET e == Current(Metrics)
    IN  /\ HandlerReturns(Metrics)
        /\ ~Ambiguous(e)
        /\ draft' = TicketCount(CustomerOf(e))
        /\ early' = IF e \in Stored THEN early ELSE early \union {e}
        /\ UNCHANGED <<metric, history, warned>>

\* Variant: a customer with a value is taken for up to date.
RecordMetricOnce(c) ==
    IF metric[c] = <<>>
      THEN /\ metric' = [metric EXCEPT ![c] = <<draft>>]
           /\ history' = [history EXCEPT ![c] = Append(@, draft)]
      ELSE UNCHANGED <<metric, history>>

\* The upsert and the snapshot are of one transaction.
RecordMetric(c) ==
    /\ metric' = [metric EXCEPT ![c] = <<draft>>]
    /\ history' = [history EXCEPT ![c] = Append(@, draft)]

MetricsCommit ==
    LET c == CustomerOf(Current(Metrics))
    IN  /\ CommitSucceeds(Metrics) \/ (Metrics \in DbErrors /\ CommitRaises(Metrics))
        /\ IF c # Nobody /\ applied' # applied
             THEN RecordMetric(c)
             ELSE UNCHANGED <<metric, history>>
        /\ draft' = 0
        /\ UNCHANGED <<early, warned>>

OtherCommit(w) ==
    /\ w # Metrics
    /\ CommitSucceeds(w) \/ (w \in DbErrors /\ CommitRaises(w))
    /\ UNCHANGED dataVars

\* Variant: the threshold itself already warns.
AtLimit(n) == n >= TicketLimit

AboveLimit(n) == n > TicketLimit

\* The alerts worker only logs.
AlertsHandler ==
    LET e == Current(Alerts)
        c == CustomerOf(e)
    IN  /\ Alerts \in Workers
        /\ HandlerReturns(Alerts)
        /\ ~Ambiguous(e)
        /\ warned' = IF c # Nobody /\ metric[c] # <<>> /\ AboveLimit(Head(metric[c]))
                       THEN warned \union {c}
                       ELSE warned
        /\ UNCHANGED <<metric, history, draft, early>>

-----------------------------------------------------------------------------

\* The steps of EventDelivery that touch none of the tables.
Transport ==
    /\ \/ \E e \in Events : Publish(e) \/ RefuseUnconnected(e) \/ Answer202(e)
       \/ RestartApi
       \/ \E w \in Workers :
            \/ StartWorker(w)
            \/ Deliver(w)
            \/ Ack(w)
            \/ Requeue(w)
            \/ Crash(w)
            \/ Sigterm(w)
            \/ CloseConsumer(w)
            \/ LoseConnection(w)
       \/ RestartBroker
    /\ UNCHANGED dataVars

PipelineNext ==
    \/ Transport
    \/ \E w \in Workers : HandlerRaises(w) \/ OtherCommit(w)
    \/ StoreHandler
    \/ MetricsHandler
    \/ MetricsCommit
    \/ AlertsHandler

PipelineSpec == PipelineInit /\ [][PipelineNext]_pipelineVars

-----------------------------------------------------------------------------
(* Properties *)

\* Snapshots of one customer never go down while tickets only arrive: with one
\* metrics worker and a prefetch of one, no recount overwrites a later one
\* (broker.py:104, metrics.py:63-78).
CountsNeverRegress ==
    \A c \in Customers : \A i, j \in DOMAIN history[c] :
        i <= j => history[c][i] <= history[c][j]

\* The only reason for a final count to be wrong is that the metrics worker
\* handled an event before the data-store worker had stored it, or a failure.
Drained == \A w \in Workers : unacked[w] = <<>> /\ queue[w] = <<>>

StaleOnlyWhenEarly ==
    \A c \in Customers :
        LET own == {e \in Events : CustomerOf(e) = c}
        IN  /\ own \intersect (early \union faulted[Metrics]) = {}
            /\ TicketsOf(c) \subseteq SettledEvents(Metrics)
            /\ TicketsOf(c) # {}
            => metric[c] = <<Cardinality(TicketsOf(c))>>

\* A volume warning is due: the customer's recorded ticket count was above the
\* threshold (alerts.py:60-71, a strict comparison with a stored value).
WarningsAreDue ==
    \A c \in warned : \E i \in DOMAIN history[c] : history[c][i] > TicketLimit

-----------------------------------------------------------------------------
(* What the repository says of the workers and the code does not do *)

\* backend/workers/metrics.py:3-5: "After each event is ingested the metrics
\* worker recomputes support_tickets_last_30d".
CountsFollowEvents ==
    Drained => \A c \in Customers :
        TicketsOf(c) \subseteq SettledEvents(Metrics) /\ TicketsOf(c) # {}
            => metric[c] = <<Cardinality(TicketsOf(c))>>

=============================================================================
