----------------------------- MODULE EventQueues -----------------------------
(***************************************************************************)
(* What the fan-out of ingested events promises, with neither the broker's *)
(* acknowledgements nor the worker processes: every subscribed worker gets *)
(* every offered event once, in the order of the offers, and finishes with *)
(* it once.  EventDelivery implements this specification.                  *)
(***************************************************************************)
EXTENDS Sequences

CONSTANTS Events,   \* the event_ids the ingestion endpoint may mint
          Workers   \* one per queue: data_store, metrics, alerts

VARIABLES offered,     \* the events handed to the exchange so far
          subscribed,  \* the workers whose queue is bound to the exchange
          pending,     \* pending[w]: what w still has to finish, oldest first
          done         \* done[w]: what w has finished with, oldest first

vars == <<offered, subscribed, pending, done>>

Init ==
    /\ offered = {}
    /\ subscribed = {}
    /\ pending = [w \in Workers |-> <<>>]
    /\ done = [w \in Workers |-> <<>>]

Subscribe(w) ==
    /\ subscribed' = subscribed \union {w}
    /\ UNCHANGED <<offered, pending, done>>

\* A worker without a queue never hears of the event.
Offer(e) ==
    /\ e \notin offered
    /\ offered' = offered \union {e}
    /\ pending' = [w \in Workers |->
                     IF w \in subscribed THEN Append(pending[w], e) ELSE pending[w]]
    /\ UNCHANGED <<subscribed, done>>

Finish(w) ==
    /\ pending[w] # <<>>
    /\ done' = [done EXCEPT ![w] = Append(@, Head(pending[w]))]
    /\ pending' = [pending EXCEPT ![w] = Tail(@)]
    /\ UNCHANGED <<offered, subscribed>>

\* The messages are transient: a restart of the broker forgets them.
Forget ==
    /\ pending' = [w \in Workers |-> <<>>]
    /\ UNCHANGED <<offered, subscribed, done>>

Next ==
    \/ \E w \in Workers : Subscribe(w) \/ Finish(w)
    \/ \E e \in Events : Offer(e)
    \/ Forget

Spec == Init /\ [][Next]_vars

==============================================================================
