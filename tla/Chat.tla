--------------------------------- MODULE Chat ---------------------------------
(***************************************************************************)
(* The chat endpoint (backend/app/api/routes/chat.py,                      *)
(* application/services/chat.py, infrastructure/repositories/chat.py):     *)
(* the rate limit kept in Redis, the session a message continues or opens, *)
(* the history the agent is given, the exchange stored with its answer and *)
(* the session's message count.                                            *)
(*                                                                         *)
(* A request is one READ COMMITTED transaction, opened when its caller is  *)
(* authenticated.  An exchange is the user's message and the agent's       *)
(* answer, stored by the request that made it: it is named by that         *)
(* request, and a session by the request that opened it.  Requests are     *)
(* numbered as their transactions begin, which is the order of created_at  *)
(* among the messages they store.  What the agent does while it composes   *)
(* its answer is module Agent.                                             *)
(***************************************************************************)
EXTENDS Integers

CONSTANTS Users,      \* users with the permission chat.use
          Limit,      \* _CHAT_RATE_LIMIT
          MaxRequests \* bound: requests to POST /api/chat

ASSUME ChatAssumption ==
    /\ Users # {}
    /\ Limit \in Nat \ {0}
    /\ MaxRequests \in Nat

Requests == 1..MaxRequests

\* The request carries no session_id.
NoSession == 0

VARIABLES counter,   \* counter[u]: the number in Redis of the requests of u, 0 if there is none
          expires,   \* the users whose counter has a time to live
          sessions,  \* the committed sessions
          messages,  \* messages[s]: the committed exchanges of session s
          count,     \* count[s]: the exchanges message_count of session s stands for
          req        \* req[r]: request r

chatVars == <<counter, expires, sessions, messages, count, req>>

Progress == {"new", "begun", "numbered", "admitted", "loaded",
             "counted", "written", "ended", "lost"}

Request == [pc       : Progress,
            user     : Users,
            asked    : Requests \union {NoSession},  \* its session_id
            number   : Nat,                          \* what INCR returned
            seen     : SUBSET Requests,              \* the exchanges of its history
            counted  : SUBSET Requests,              \* the exchanges it counted
            answer   : {"none", "ok", "failed"},     \* what its caller was told
            overlaps : SUBSET Requests]              \* requests for its session, open
                                             \* while it was and not rolled back

TypeOK ==
    /\ counter \in [Users -> Nat]
    /\ expires \subseteq Users
    /\ sessions \subseteq Requests
    /\ messages \in [Requests -> SUBSET Requests]
    /\ count \in [Requests -> SUBSET Requests]
    /\ req \in [Requests -> Request]

-----------------------------------------------------------------------------

Init ==
    /\ counter = [u \in Users |-> 0]
    /\ expires = {}
    /\ sessions = {}
    /\ messages = [s \in Requests |-> {}]
    /\ count = [s \in Requests |-> {}]
    /\ req = [r \in Requests |->
                [pc |-> "new", user |-> CHOOSE u \in Users : TRUE, asked |-> NoSession,
                 number |-> 0, seen |-> {}, counted |-> {},
                 answer |-> "none", overlaps |-> {}]]

Goto(r, pc) == req' = [req EXCEPT ![r].pc = pc]

Over == {"ended", "lost"}

Admit(r) == req' = [req EXCEPT ![r].pc = "admitted", ![r].number = 0]

Open == {r \in Requests : req[r].pc \notin Over \union {"new"}}

\* The session the exchange of r belongs to.
SessionOf(r) == IF req[r].asked = NoSession THEN r ELSE req[r].asked

Owner(s) == req[s].user

\* The request ends without a trace: its transaction is rolled back.
Drop(r, pc, answer) ==
    req' = [q \in Requests |->
              IF q = r THEN [req[r] EXCEPT !.pc = pc, !.answer = answer, !.number = 0, !.seen = {},
                                           !.counted = {}, !.overlaps = {}]
                       ELSE [req[q] EXCEPT !.overlaps = @ \ {r}]]

Refuse(r) == Drop(r, "ended", "failed")

\* get_current_user: the first query begins the transaction.
Begin(r, u, s) ==
    /\ req[r].pc = "new"
    /\ \A q \in 1..(r - 1) : req[q].pc # "new"
    /\ LET beside == {q \in Open : SessionOf(q) = s}
       IN  req' = [q \in Requests |->
                     CASE q = r        -> [req[r] EXCEPT !.pc = "begun", !.user = u, !.asked = s,
                                                         !.overlaps = beside]
                       [] q \in beside -> [req[q] EXCEPT !.overlaps = @ \union {r}]
                       [] OTHER        -> req[q]]
    /\ UNCHANGED <<counter, expires, sessions, messages, count>>

-----------------------------------------------------------------------------
(* _check_chat_rate_limit *)

Increment(r) ==
    LET u == req[r].user
    IN  /\ req[r].pc = "begun"
        /\ counter' = [counter EXCEPT ![u] = @ + 1]
        /\ req' = [req EXCEPT ![r].pc = "numbered", ![r].number = counter[u] + 1]
        /\ UNCHANGED <<expires, sessions, messages, count>>

\* Variant: the time to live is set with the request that uses the limit up.
StartsWindowAtLimit(r) == req[r].number = Limit + 1

StartsWindow(r) == req[r].number = 1

\* EXPIRE follows INCR as a command of its own.
SetExpiry(r) ==
    /\ req[r].pc = "numbered"
    /\ StartsWindow(r)
    /\ expires' = expires \union {req[r].user}
    /\ IF req[r].number > Limit THEN Refuse(r) ELSE Admit(r)
    /\ UNCHANGED <<counter, sessions, messages, count>>

\* Redis fails, or the process ends, between INCR and EXPIRE.
LoseExpiry(r) ==
    /\ req[r].pc = "numbered"
    /\ StartsWindow(r)
    /\ Drop(r, "lost", "failed")
    /\ UNCHANGED <<counter, expires, sessions, messages, count>>

\* Variant: a request that is refused gives its number back.
RefundNumber(r) ==
    /\ req[r].pc = "numbered"
    /\ ~StartsWindow(r)
    /\ IF req[r].number > Limit THEN Refuse(r) ELSE Admit(r)
    /\ counter' = [counter EXCEPT ![req[r].user] = IF req[r].number > Limit THEN @ - 1 ELSE @]
    /\ UNCHANGED <<expires, sessions, messages, count>>

CheckLimit(r) ==
    /\ req[r].pc = "numbered"
    /\ ~StartsWindow(r)
    /\ IF req[r].number > Limit THEN Refuse(r) ELSE Admit(r)
    /\ UNCHANGED <<counter, expires, sessions, messages, count>>

\* The window of u is over: Redis drops the counter.
WindowExpires(u) ==
    /\ u \in expires
    /\ counter' = [counter EXCEPT ![u] = 0]
    /\ expires' = expires \ {u}
    /\ UNCHANGED <<sessions, messages, count, req>>

-----------------------------------------------------------------------------
(* ChatService.process_message *)

\* Variant: any session that exists is continued.
MayContinueAny(r) == req[r].asked \in sessions

MayContinue(r) == req[r].asked \in sessions /\ Owner(req[r].asked) = req[r].user

\* Variant: the newest exchange is cut off.
HistoryButLast(s) == {p \in messages[s] : \E q \in messages[s] : p < q}

\* get_with_messages, sorted by created_at.
History(s) == messages[s]

\* Variant: the new session is committed when it is created.
ResolveCommitted(r) ==
    /\ req[r].pc = "admitted"
    /\ IF req[r].asked # NoSession /\ MayContinue(r)
         THEN req' = [req EXCEPT ![r].pc = "loaded", ![r].seen = History(req[r].asked)]
         ELSE IF req[r].asked = NoSession THEN Goto(r, "loaded") ELSE Refuse(r)
    /\ sessions' = sessions \union {r : q \in {NoSession} \intersect {req[r].asked}}
    /\ UNCHANGED <<counter, expires, messages, count>>

\* _resolve_session and _build_conversation_history.  A new session is flushed:
\* nobody else sees it before the commit.
Resolve(r) ==
    /\ req[r].pc = "admitted"
    /\ CASE req[r].asked = NoSession -> Goto(r, "loaded")
         [] req[r].asked # NoSession /\ MayContinue(r) ->
              req' = [req EXCEPT ![r].pc = "loaded", ![r].seen = History(req[r].asked)]
         [] OTHER -> Refuse(r)
    /\ UNCHANGED <<counter, expires, sessions, messages, count>>

\* Variant: the exchange is added to the count the session has.
AddsToCount(r) == count[SessionOf(r)] \union {r}

\* The SELECT count(*) sees what is committed and the two messages of r itself.
Counts(r) == messages[SessionOf(r)] \union {r}

\* The agent has answered, with the transaction open all the while: add_message,
\* twice, and the count of update_session_metadata.
StoreAndCount(r) ==
    /\ req[r].pc = "loaded"
    /\ req' = [req EXCEPT ![r].pc = "counted", ![r].counted = Counts(r)]
    /\ UNCHANGED <<counter, expires, sessions, messages, count>>

\* Variant: counting locks the session's row in shared mode, so that of two
\* requests that have counted neither can write.
RowUpgradable(s) ==
    \A p, q \in Requests :
       (SessionOf(p) = s /\ SessionOf(q) = s /\ {req[p].pc, req[q].pc} \subseteq {"counted", "written"}) => p = q

RowFree(s) == \A q \in Requests : SessionOf(q) = s => req[q].pc # "written"

\* The UPDATE of message_count waits for another transaction that wrote the row.
WriteCount(r) ==
    /\ req[r].pc = "counted"
    /\ RowFree(SessionOf(r))
    /\ Goto(r, "written")
    /\ UNCHANGED <<counter, expires, sessions, messages, count>>

\* Variant: a count the row has already is not written again.
StoredOnce(r) == IF count[SessionOf(r)] = {} THEN req[r].counted ELSE count[SessionOf(r)]

StoredCount(r) == req[r].counted

Commit(r) ==
    LET s == SessionOf(r)
    IN  /\ req[r].pc = "written"
        /\ sessions' = sessions \union {s}
        /\ messages' = [messages EXCEPT ![s] = @ \union {r}]
        /\ count' = [count EXCEPT ![s] = StoredCount(r)]
        /\ req' = [req EXCEPT ![r].pc = "ended", ![r].counted = {}]
        /\ UNCHANGED <<counter, expires>>

\* The answer is sent when the handler has returned.  The commit belongs to the
\* exit of the dependency get_db, which FastAPI runs before or after it,
\* depending on the version installed.
Answer(r) ==
    /\ req[r].pc \in {"written", "ended"}
    /\ req[r].answer = "none"
    /\ req' = [req EXCEPT ![r].answer = "ok"]
    /\ UNCHANGED <<counter, expires, sessions, messages, count>>

\* Redis, the database or the language model fails: the exception ends the
\* request and rolls its transaction back.
Fail(r) ==
    /\ r \in Open
    /\ ~(req[r].pc = "numbered" /\ StartsWindow(r))
    /\ Drop(r, "ended", IF req[r].answer = "ok" THEN "ok" ELSE "failed")
    /\ UNCHANGED <<counter, expires, sessions, messages, count>>

-----------------------------------------------------------------------------

\* What the server does of itself for a request it has received.
Step(r) ==
    \/ Increment(r) \/ SetExpiry(r) \/ CheckLimit(r)
    \/ Resolve(r) \/ StoreAndCount(r) \/ WriteCount(r)
    \/ Commit(r) \/ Answer(r)

\* The sessions a client may know of: those it was told of, and any other id.
Known == {s \in Requests : req[s].asked = NoSession /\ req[s].pc # "new"}

Arrive(r) == \E u \in Users, s \in Known \union {NoSession} : Begin(r, u, s)

ServerNext ==
    \/ \E r \in Requests : Step(r) \/ LoseExpiry(r) \/ Fail(r)
    \/ \E u \in Users : WindowExpires(u)

Next == ServerNext \/ \E r \in Requests : Arrive(r)

\* The server's tasks are scheduled, and Redis drops what has expired.
Fairness ==
    /\ \A r \in Requests : WF_chatVars(Step(r))
    /\ \A u \in Users : WF_chatVars(WindowExpires(u))

Spec == Init /\ [][Next]_chatVars /\ Fairness

-----------------------------------------------------------------------------

\* Every exchange stored in a session is of the user who opened it
\* (_resolve_session answers 404 to anyone else).
SessionsArePrivate ==
    \A s \in Requests : \A r \in messages[s] : req[r].user = Owner(s)

\* A session is stored with the exchange that opened it or not at all: a failure
\* of the language model rolls the new session back with its message.
NoEmptySession == \A s \in sessions : s \in messages[s]

\* The history is chronological and whole: of two exchanges of a session whose
\* requests did not overlap, the later had the earlier in its history.
HistoryInOrder ==
    \A s \in Requests : \A p, r \in messages[s] :
       (p < r /\ p \notin req[r].overlaps) => p \in req[r].seen

\* What message_count lacks was being stored while it was counted: requests that
\* overlap may leave it behind, nothing else does.
CountMissesOverlapping ==
    \A s \in sessions : \A p \in messages[s] \ count[s] :
       \E r \in count[s] : p \in req[r].overlaps

\* A request that overlapped no other leaves message_count equal to the number
\* of messages, whatever earlier ones made of it.
LoneRequestRepairsCount ==
    [][\A s \in Requests : \A r \in messages'[s] \ messages[s] :
          req[r].overlaps = {} => count'[s] = messages'[s]]_chatVars

\* "Try again in 60 seconds": the counter of a user comes back to zero, unless
\* the request that should have set its time to live was lost before it did.
CounterRunsOut ==
    \A u \in Users :
       counter[u] > 0 ~> \/ counter[u] = 0
                         \/ \E r \in Requests : req[r].user = u /\ req[r].pc = "lost"

\* Requests are answered, and none waits for a row for ever.
RequestsEnd == \A r \in Requests : req[r].pc # "new" ~> req[r].pc \in Over /\ req[r].answer # "none"
=============================================================================
