------------------------------ MODULE ChatScreen ------------------------------
(***************************************************************************)
(* The chat screen of one user over the chat endpoint                      *)
(* (frontend/src/features/chat/chat-container.tsx: chatReducer and the     *)
(* handlers).  The input is disabled while isLoading; "New Conversation",  *)
(* the list of sessions and "Retry" are not, so that what they start can   *)
(* overlap a message under way.                                            *)
(*                                                                         *)
(* A request leaves the browser and reaches the server in one step; its    *)
(* answer comes back in a step of its own, and so does a session's detail. *)
(***************************************************************************)
EXTENDS Chat

CONSTANTS Me,     \* the user at the screen
          Fetches \* bound: the details of sessions on their way at a time

ASSUME ScreenAssumption == Me \in Users

VARIABLES screen,   \* the state of the reducer
          received, \* the requests whose answer the screen has had, or has given up
          fetch,    \* fetch[f]: a GET of a session's detail
          mixed     \* the user acted while an answer was due

screenVars == <<screen, received, fetch, mixed>>

vars == <<chatVars, screenVars>>

Screen == [session : Requests \union {NoSession},  \* sessionId
           view    : SUBSET Requests,              \* the answers in messages
           asked   : BOOLEAN,                      \* messages has one of the user's
           loading : BOOLEAN,                      \* isLoading
           error   : BOOLEAN]

Fetch == [pc : {"idle", "sent", "read"}, session : Requests \union {NoSession}, seen : SUBSET Requests]

ScreenTypeOK ==
    /\ TypeOK
    /\ screen \in Screen
    /\ received \subseteq Requests
    /\ fetch \in [Fetches -> Fetch]
    /\ mixed \in BOOLEAN

initialState == [session |-> NoSession, view |-> {}, asked |-> FALSE, loading |-> FALSE, error |-> FALSE]

Idle == [pc |-> "idle", session |-> NoSession, seen |-> {}]

ScreenInit ==
    /\ Init
    /\ screen = initialState
    /\ received = {}
    /\ fetch = [f \in Fetches |-> Idle]
    /\ mixed = FALSE

\* The messages of the user that have not been answered on the screen.
Waiting == {r \in Requests \ received : req[r].user = Me /\ req[r].pc # "new"}

Fetching == {f \in Fetches : fetch[f].pc # "idle"}

Quiet == Waiting = {} /\ Fetching = {}

-----------------------------------------------------------------------------

\* handleSend, up to its await.
Submit ==
    /\ \E r \in Requests : Begin(r, Me, screen.session)
    /\ screen' = [screen EXCEPT !.asked = TRUE, !.loading = TRUE, !.error = FALSE]
    /\ UNCHANGED <<received, fetch>>

\* The input of chat-input.tsx.
Send == ~screen.loading /\ Submit /\ UNCHANGED mixed

\* handleRetry sends the last message again.
Retry ==
    /\ screen.error
    /\ screen.asked
    /\ Submit
    /\ mixed' = (mixed \/ ~Quiet)

\* Variant: the session of the answer is not taken over.
AnsweredKeepsSession(r) ==
    screen' = [screen EXCEPT !.view = @ \union {r}, !.loading = FALSE]

Answered(r) ==
    screen' = [screen EXCEPT !.session = SessionOf(r), !.view = @ \union {r}, !.loading = FALSE]


Rejected == screen' = [screen EXCEPT !.error = TRUE, !.loading = FALSE]

\* handleSend, after its await.
Receive(r) ==
    /\ r \in Waiting
    /\ req[r].answer # "none"
    /\ received' = received \union {r}
    /\ IF req[r].answer = "ok" THEN Answered(r) ELSE Rejected
    /\ UNCHANGED <<chatVars, fetch, mixed>>

\* The connection fails, whatever the server makes of the request: its exchange may
\* be stored, or still be, while the screen shows a failure.
LoseAnswer(r) ==
    /\ r \in Waiting
    /\ received' = received \union {r}
    /\ Rejected
    /\ UNCHANGED <<chatVars, fetch, mixed>>

\* handleNewSession.
NewSession ==
    /\ screen' = initialState
    /\ mixed' = ~Quiet
    /\ UNCHANGED <<chatVars, received, fetch>>

\* handleSelectSession, up to its await: one of the sessions listed.
Select(f) ==
    /\ fetch[f].pc = "idle"
    /\ \E s \in sessions :
         /\ Owner(s) = Me
         /\ fetch' = [fetch EXCEPT ![f] = [pc |-> "sent", session |-> s, seen |-> {}]]
    /\ screen' = [screen EXCEPT !.loading = TRUE]
    /\ mixed' = (mixed \/ ~Quiet)
    /\ UNCHANGED <<chatVars, received>>

\* get_session reads the committed messages.
ReadSession(f) ==
    /\ fetch[f].pc = "sent"
    /\ fetch' = [fetch EXCEPT ![f].pc = "read", ![f].seen = messages[fetch[f].session]]
    /\ UNCHANGED <<chatVars, screen, received, mixed>>

\* handleSelectSession, after its await.
LoadSession(f) ==
    /\ fetch[f].pc = "read"
    /\ screen' = [screen EXCEPT !.session = fetch[f].session, !.view = fetch[f].seen,
                                !.asked = TRUE, !.loading = FALSE, !.error = FALSE]
    /\ fetch' = [fetch EXCEPT ![f] = Idle]
    /\ mixed' = (mixed /\ (Waiting # {} \/ Fetching # {f}))
    /\ UNCHANGED <<chatVars, received>>

SelectFails(f) ==
    /\ fetch[f].pc # "idle"
    /\ screen' = [screen EXCEPT !.error = TRUE, !.loading = FALSE]
    /\ fetch' = [fetch EXCEPT ![f] = Idle]
    /\ UNCHANGED <<chatVars, received, mixed>>

-----------------------------------------------------------------------------

ScreenNext ==
    \/ ServerNext /\ UNCHANGED screenVars
    \/ Send \/ Retry \/ NewSession
    \/ \E r \in Requests : Receive(r) \/ LoseAnswer(r)
    \/ \E f \in Fetches : Select(f) \/ ReadSession(f) \/ LoadSession(f) \/ SelectFails(f)

\* The server is fair as in Chat, and what it answers reaches the browser or is lost.
ScreenFairness ==
    /\ Fairness
    /\ \A r \in Requests : WF_vars(Receive(r))
    /\ \A f \in Fetches : WF_vars(ReadSession(f)) /\ WF_vars(LoadSession(f))

ScreenSpec == ScreenInit /\ [][ScreenNext]_vars /\ ScreenFairness

-----------------------------------------------------------------------------

\* The answers on the screen belong to the session on the screen, unless the
\* user chose another session, a new one or a retry while an answer was due.
ScreenShowsOneSession ==
    ~mixed => \A r \in screen.view : SessionOf(r) = screen.session


-----------------------------------------------------------------------------
(* What the repository says of the screen and the code does not do *)

\* "New conversation: Button to start fresh session (omit session_id)"
\* (frontend/IMPLEMENTATION_PLAN.md): a new conversation stays without a session
\* until the user sends a message in it or selects another session.
NewConversationStaysFresh ==
    [][screen = initialState /\ screen'.session # NoSession => \E f \in Fetches : LoadSession(f)]_vars
=============================================================================
