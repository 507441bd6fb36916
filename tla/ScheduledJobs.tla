---------------------------- MODULE ScheduledJobs ----------------------------
(***************************************************************************)
(* The scheduler's jobs (backend/app/application/jobs) beside the metrics  *)
(* worker (backend/workers/metrics.py).  A job recomputes one metric for   *)
(* every customer in one database session, the worker recomputes the       *)
(* shared metrics of one customer per message; both write the rows of      *)
(* customer_metrics, unique per metric and customer, through               *)
(* SqlAlchemyCustomerMetricRepository.upsert.                              *)
(*                                                                         *)
(* An event reaches the data-store worker, which commits its row, and the  *)
(* metrics worker by two queues: either may be first.                      *)
(*                                                                         *)
(* PostgreSQL runs them READ COMMITTED: a transaction reads what others    *)
(* committed and waits for a row another has written and not committed.    *)
(***************************************************************************)
EXTENDS Naturals, FiniteSets

CONSTANTS Customers,   \* the active customers
          Jobs,        \* one job, and one metric, each
          Recompute,   \* support_tickets_last_30d
          Contact,     \* days_since_last_contact
          Worker,      \* the metrics worker, with a prefetch of one
          None,        \* no row, or nothing written
          Senders,     \* bound of the model: the customers that events arrive of
          MaxEvents    \* bound of the model: how many arrive of each of them

Shared == {Recompute, Contact}   \* the worker's metrics, in this order

ASSUME JobsAssumption ==
    /\ Shared \subseteq Jobs
    /\ Recompute # Contact
    /\ Worker \notin Jobs
    /\ Senders \subseteq Customers
    /\ MaxEvents \in Nat
    /\ None \notin Nat
    /\ Customers # {}

Keys == Jobs \X Customers

Sessions == Jobs \union {Worker}

VARIABLES events,   \* events[c]: how many of c's events are stored
          unstored, \* unstored[c]: how many the data-store worker has still to store
          pending,  \* pending[c]: how many the metrics worker has still to take
          row,      \* row[k]: the events that the committed value of k accounts for
          session,  \* session[s]: the database session of s
          missed    \* the worker's rows that no recount has brought up to date

vars == <<events, unstored, pending, row, session, missed>>

Counts == 0..MaxEvents

Values == Counts \union {None}

Session == [pc    : {"idle", "ready", "counted", "selected", "aborted"},
            left  : SUBSET Keys,       \* the rows it has still to upsert
            key   : Keys,              \* the row it is upserting
            value : Counts,            \* the value it has computed
            seen  : Values,            \* the row as its SELECT found it
            draft : [Keys -> Values]]  \* the rows it wrote in its open transaction

TypeOK ==
    /\ events \in [Customers -> Counts]
    /\ unstored \in [Customers -> Counts]
    /\ pending \in [Customers -> Counts]
    /\ row \in [Keys -> Values]
    /\ session \in [Sessions -> Session]
    /\ missed \subseteq Keys

Nothing == [k \in Keys |-> None]

Idle == [pc |-> "idle", left |-> {}, key |-> CHOOSE k \in Keys : TRUE, value |-> 0,
         seen |-> None, draft |-> Nothing]

\* The seeds give every customer a value of every metric, or are not run.
Init ==
    /\ events = [c \in Customers |-> 0]
    /\ unstored = [c \in Customers |-> 0]
    /\ pending = [c \in Customers |-> 0]
    /\ \E seeded \in {None, 0} : row = [k \in Keys |-> seeded]
    /\ session = [s \in Sessions |-> Idle]
    /\ missed = {}

\* The API publishes an event to both queues.
PublishEvent(c) ==
    /\ c \in Senders
    /\ events[c] + unstored[c] < MaxEvents
    /\ unstored' = [unstored EXCEPT ![c] = @ + 1]
    /\ pending' = [pending EXCEPT ![c] = @ + 1]
    /\ UNCHANGED <<events, row, session, missed>>

\* The worker's rows of c: the shared metrics.
SharedOf(c) == Shared \X {c}

\* The data-store worker commits the event's row; after a failure it never does.
\* A row that the metrics worker has still to count will account for the event.
StoreEvent(c) ==
    /\ unstored[c] > 0
    /\ unstored' = [unstored EXCEPT ![c] = @ - 1]
    /\ events' = [events EXCEPT ![c] = @ + 1]
    /\ missed' = missed \union (SharedOf(c) \ session[Worker].left)
    /\ UNCHANGED <<pending, row, session>>

-----------------------------------------------------------------------------
(* One session *)

Begin(s, keys) ==
    /\ session[s].pc = "idle"
    /\ session' = [session EXCEPT ![s].pc = "ready", ![s].left = keys]

\* A run is skipped while the last one of the same job is still going on.
StartRun(j) ==
    /\ Begin(j, {j} \X Customers)
    /\ UNCHANGED <<events, unstored, pending, row, missed>>

\* Variant: one transaction for the rows of every customer.
TakeMessageOfAll(c) ==
    /\ pending[c] > 0
    /\ Begin(Worker, Shared \X Customers)
    /\ pending' = [pending EXCEPT ![c] = @ - 1]
    /\ missed' = {}
    /\ UNCHANGED <<events, unstored, row>>

TakeMessage(c) ==
    /\ pending[c] > 0
    /\ Begin(Worker, SharedOf(c))
    /\ pending' = [pending EXCEPT ![c] = @ - 1]
    /\ missed' = missed \ SharedOf(c)
    /\ UNCHANGED <<events, unstored, row>>

\* The query for the customers names no order; the worker recounts the tickets
\* first.
Following(s, k) ==
    /\ k \in session[s].left
    /\ s = Worker /\ k[1] = Contact => \A l \in session[s].left : l[1] = Contact

CountEvents(s) ==
    /\ session[s].pc = "ready"
    /\ \E k \in Keys :
         /\ Following(s, k)
         /\ session' = [session EXCEPT ![s].pc = "counted", ![s].key = k,
                                       ![s].left = @ \ {k}, ![s].value = events[k[2]]]
    /\ UNCHANGED <<events, unstored, pending, row, missed>>

SelectRow(s) ==
    /\ session[s].pc = "counted"
    /\ session' = [session EXCEPT ![s].pc = "selected", ![s].seen = row[session[s].key]]
    /\ UNCHANGED <<events, unstored, pending, row, missed>>

\* No other session holds the row locked or is inserting it.
Free(s, k) == \A t \in Sessions \ {s} : session[t].draft[k] = None

Abort(s) == session' = [session EXCEPT ![s].pc = "aborted", ![s].draft = Nothing]

\* The flush writes what differs from the row that was selected: the value, or the
\* note of a seeded row, or an age that the clock has moved on.  An INSERT of a row
\* that is there by now violates the unique key.
Upsert(s) ==
    LET k == session[s].key
        v == session[s].value
    IN  /\ session[s].pc = "selected"
        /\ \/ /\ session[s].seen = v
              /\ session' = [session EXCEPT ![s].pc = "ready"]
           \/ /\ Free(s, k)
              /\ IF session[s].seen = None /\ row[k] # None
                   THEN Abort(s)
                   ELSE session' = [session EXCEPT ![s].pc = "ready", ![s].draft[k] = v]
        /\ UNCHANGED <<events, unstored, pending, row, missed>>

\* A statement fails, and with it the transaction.  A job's loop goes on, but no
\* later statement of its session succeeds; the worker's handler raises.
StatementFails(s) ==
    /\ session[s].pc \in {"ready", "counted", "selected"}
    /\ Abort(s)
    /\ UNCHANGED <<events, unstored, pending, row, missed>>

\* The row of k once s has committed.
Written(s) == [k \in Keys |-> IF session[s].draft[k] = None THEN row[k] ELSE session[s].draft[k]]

Closed(s) == session' = [session EXCEPT ![s] = Idle]

Through(s) ==
    \/ session[s].pc = "ready" /\ session[s].left = {}
    \/ session[s].pc = "aborted"

\* Variant: the session commits when the loop over get_session is left.
CloseSessionCommitted(j) ==
    /\ Through(j)
    /\ Closed(j)
    /\ row' = Written(j)
    /\ UNCHANGED <<events, unstored, pending, missed>>

\* Variant: the suspended generator is kept, and with it the transaction.
CloseSessionNever(j) ==
    /\ Through(j)
    /\ session[j].draft = Nothing
    /\ Closed(j)
    /\ UNCHANGED <<events, unstored, pending, row, missed>>

\* run_* leaves the loop over get_session by a break: the generator is closed
\* where it stands, before its commit, and the session rolls back.
CloseSession(j) ==
    /\ Through(j)
    /\ Closed(j)
    /\ UNCHANGED <<events, unstored, pending, row, missed>>

\* The worker works on a message of c: on the rows it has left, or on the last.
InHand(c) ==
    /\ session[Worker].pc # "idle"
    /\ IF session[Worker].left = {}
         THEN session[Worker].key[2] = c
         ELSE \E k \in session[Worker].left : k[2] = c

\* The worker's loop over get_session runs to its end, and so to the commit; an
\* exception is swallowed after a rollback, and the message acknowledged.
EndMessage ==
    /\ Through(Worker)
    /\ Closed(Worker)
    /\ row' = Written(Worker)
    /\ missed' = IF session[Worker].pc = "aborted"
                   THEN missed \union UNION {SharedOf(c) : c \in {c \in Customers : InHand(c)}}
                   ELSE missed
    /\ UNCHANGED <<events, unstored, pending>>

-----------------------------------------------------------------------------

Step(s) == CountEvents(s) \/ SelectRow(s) \/ Upsert(s)

Next ==
    \/ \E c \in Customers : PublishEvent(c) \/ StoreEvent(c) \/ TakeMessage(c)
    \/ \E j \in Jobs : StartRun(j) \/ CloseSession(j)
    \/ \E s \in Sessions : Step(s) \/ StatementFails(s)
    \/ EndMessage

Spec == Init /\ [][Next]_vars

\* Both event loops keep running, and a flush that waits for a row is the next
\* to get it: PostgreSQL queues those who wait for a lock.
Fairness ==
    /\ \A s \in Sessions : SF_vars(Step(s))
    /\ \A j \in Jobs : WF_vars(CloseSession(j))
    /\ WF_vars(EndMessage)
    /\ WF_vars(\E c \in Customers : TakeMessage(c))

FairSpec == Spec /\ Fairness

-----------------------------------------------------------------------------
(* Properties *)

\* The worker never inserts a row that is there: only a job inserts rows besides
\* it, and what a job inserts is gone before the worker's INSERT stops waiting
\* for it.  on_message would swallow the exception and lose the event's recount
\* (repositories/metric.py:71-95, entrypoint.py:56-65).
WorkerInsertsOnce ==
    LET w == session[Worker]
    IN  w.pc = "selected" /\ w.seen = None => row[w.key] = None

\* Once the worker has handled a customer's messages the shared metrics account
\* for every stored event, whatever jobs began with older counts and are still
\* waiting for the rows - but for a metric that was counted before an event was
\* stored, or whose recount failed (metrics.py:43-47, jobs/*.py, entrypoint.py:56-65).
RecountsLast ==
    \A c \in Customers :
        /\ events[c] > 0
        /\ pending[c] = 0
        /\ ~InHand(c)
        => \A k \in SharedOf(c) \ missed : row[k] = events[c]

\* s is about to write a row that t has written and not committed.
WaitsFor(s, t) ==
    /\ t # s
    /\ session[s].pc = "selected"
    /\ session[t].draft[session[s].key] # None

\* Jobs and worker lock the rows in an order without a cycle: of any sessions at
\* least one waits for none of the others, so that PostgreSQL never has to abort
\* one of them to end a deadlock (jobs/*.py, metrics.py:43-47).
LocksHaveNoCycle ==
    \A group \in (SUBSET Sessions) \ {{}} :
        \E s \in group : \A t \in group : ~WaitsFor(s, t)

\* Every run ends, and every message is taken and ended: no session waits for a
\* row for ever, and none stays open
\* (jobs/*.py: break; entrypoint.py:56-65).
SessionsEnd ==
    /\ \A j \in Jobs : session[j].pc # "idle" ~> session[j].pc = "idle"
    /\ \A c \in Customers :
         pending[c] > 0 ~> pending[c] = 0 /\ session[Worker].pc = "idle"

-----------------------------------------------------------------------------
(* What the repository says of the jobs and the code does not do *)

\* backend/app/application/jobs/metric_recompute.py:3-6: "Iterates over every
\* active (non-deleted) customer, counts their support tickets in the last 30
\* days, upserts the customer_metrics row".
RunsAreKept ==
    [][\A j \in Jobs :
         session[j].pc = "ready" /\ session'[j].pc = "idle" =>
             \A k \in Keys : session[j].draft[k] # None => row'[k] = session[j].draft[k]]_vars

==============================================================================
