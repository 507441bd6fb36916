--------------------------------- MODULE Agent ---------------------------------
(***************************************************************************)
(* How the agent answers the messages of a session (backend/app/agent):    *)
(* the chat service rebuilds the conversation from what is stored; the     *)
(* orchestrator truncates it and asks the language model, which may ask    *)
(* for data; each data request is a conversation of its own between the    *)
(* retriever and the language model, whose tool calls run on the request's *)
(* database transaction; records are attributed by the shape of a result;  *)
(* and the chat service stores the answer in that same transaction, to be  *)
(* sent to the model again with the session's next message.                *)
(*                                                                         *)
(* The language model is external and answers anything its API allows.  A  *)
(* turn of a conversation is its role, whether it has text, and the tool   *)
(* uses and tool results it holds; wording is left out.  What a response   *)
(* holds is decided where the code looks at it.  Messages of one session   *)
(* that overlap are in module Chat; here they come one after the other.    *)
(***************************************************************************)
EXTENDS Integers, Sequences

CONSTANTS Callers,               \* sets of permissions a caller may have
          MaxMessages,           \* MAX_CONVERSATION_MESSAGES
          DataRounds,            \* MAX_DATA_REQUEST_ITERATIONS
          ToolRounds,            \* max_iterations of the retriever
          MaxPairs,              \* bound: exchanges in the session
          MaxBlocks,             \* bound: tool uses in a response
          MaxCalls,              \* bound: tools executed for a message
          MaxRecords             \* bound: records in a list a tool returns

ASSUME AgentAssumption ==
    /\ MaxMessages \in Nat \ {0} /\ MaxMessages % 2 = 0
    /\ {DataRounds, ToolRounds} \subseteq Nat \ {0}
    /\ {MaxPairs, MaxBlocks, MaxCalls, MaxRecords} \subseteq Nat

VARIABLES answers,   \* answers[k]: the answer of the k-th stored exchange has text
          permitted, \* the caller's permissions: read with the account, not again
          swapped,   \* the exchanges whose messages were sorted answer first
          conv,      \* the orchestrator's conversation
          pc,        \* what is under way
          round,     \* responses the orchestrator has had
          blocks,    \* tool uses of its last response that are not yet handled
          uses,      \* those handled by the retriever: assistant_content
          answer,    \* the text that is to be stored is not empty
          search,    \* responses the retriever has had, and tools it has yet to run
          calls,     \* the tools executed, with their results
          sources,   \* the records attributed
          aborted    \* the database transaction has failed

vars == <<answers, permitted, swapped, conv, pc, round, blocks, uses, answer, search, calls,
          sources, aborted>>

\* What a message has from the session, and no step changes while it is answered.
session == <<answers, permitted, swapped>>

-----------------------------------------------------------------------------
(* The tools: what they require, return and are taken to return *)

\* TOOL_PERMISSION_MAP, by which tools are offered (Gate 1).
Offering ==
    [lookup_customer     |-> "customers.read", list_customers    |-> "customers.read",
     get_customer_detail |-> "customers.read", query_events      |-> "events.read",
     get_metric          |-> "metrics.read",   get_metrics_catalog |-> "metrics.catalog.read",
     get_sources_list    |-> "sources.read",   get_source_status |-> "sources.read"]

Tools == DOMAIN Offering

\* Variant: the catalogue asks for the permission to manage it.
CatalogueManaged == [Offering EXCEPT !.get_metrics_catalog = "metrics.catalog.manage"]

\* What the services' require_permission asks for (Gate 2).
Required ==
    [t \in Tools |->
       CASE t \in {"lookup_customer", "list_customers", "get_customer_detail"} -> "customers.read"
         [] t = "query_events"        -> "events.read"
         [] t = "get_metric"          -> "metrics.read"
         [] t = "get_metrics_catalog" -> "metrics.catalog.read"
         [] t \in {"get_sources_list", "get_source_status"} -> "sources.read"]

Singles == {"get_customer_detail", "get_source_status"}

\* The table a tool's records are of.
Table ==
    [t \in Tools |->
       CASE t \in {"lookup_customer", "list_customers", "get_customer_detail"} -> "customers"
         [] t = "query_events" -> "events"
         [] t \in {"get_metric", "get_metrics_catalog"} -> "metrics"
         [] t \in {"get_sources_list", "get_source_status"} -> "sources"]

\* The keys of a tool's result that the attribution looks at.
Keys ==
    [t \in Tools |->
       CASE t \in {"lookup_customer", "list_customers"}   -> {"customers"}
         [] t = "query_events"                            -> {"events"}
         [] t \in {"get_metric", "get_metrics_catalog"}   -> {"metrics"}
         [] t = "get_customer_detail"                     -> {"id", "metrics"}
         [] t = "get_sources_list"                        -> {"sources"}
         [] t = "get_source_status"                       -> {"id"}]

\* The records under a key: the metrics of a customer's detail are never filled.
Listed(call) == IF call.tool \in Singles THEN {} ELSE 1..call.records

\* _extract_sources: the first shape that fits.  A customer's metrics have neither
\* an id nor a metric_key; their record_id is empty, here 0.
Extract(call) ==
    LET keys == Keys[call.tool]
    IN  CASE "customers" \in keys -> {[table |-> "customers", record |-> i] : i \in Listed(call)}
          [] "events" \in keys    -> {[table |-> "events", record |-> i] : i \in Listed(call)}
          [] "metrics" \in keys   -> {[table |-> "metrics",
                                       record |-> IF call.tool = "get_metric" THEN 0 ELSE i] : i \in Listed(call)}
          [] keys = {"id"}        -> {[table |-> "records", record |-> 1]}
          [] OTHER                -> {}

-----------------------------------------------------------------------------
(* Conversations *)

\* exchange: the stored exchange a turn belongs to, 0 for those of the message itself.
Turn == [role : {"user", "assistant"}, text : BOOLEAN, uses : SUBSET Nat, results : SUBSET Nat,
         exchange : Nat]

\* The new message: the API of the server asks for at least one character.
Message == [role |-> "user", text |-> TRUE, uses |-> {}, results |-> {}, exchange |-> 0]

Empty(turn) == ~turn.text /\ turn.uses = {} /\ turn.results = {}

\* What the model's API asks of a conversation: a user's turn first, roles in turn,
\* no turn empty, and the uses of a turn answered by the next.
Valid(c) ==
    /\ c # <<>>
    /\ \A i \in DOMAIN c :
         /\ c[i].role # IF i = 1 THEN "assistant" ELSE c[i - 1].role
         /\ ~Empty(c[i])
         /\ c[i].results = IF i = 1 THEN {} ELSE c[i - 1].uses

\* Variant: the first message is not looked at.
KeepLast(c) == IF Len(c) > MaxMessages THEN SubSeq(c, Len(c) - MaxMessages + 1, Len(c)) ELSE c

\* The sliding window: the last messages, without a first that is not a user's.
Truncate(c) ==
    LET last == SubSeq(c, Len(c) - MaxMessages + 1, Len(c))
    IN  IF Len(c) <= MaxMessages THEN c
        ELSE IF last[1].role # "user" THEN Tail(last) ELSE last

-----------------------------------------------------------------------------

Result == [tool : Tools \union {"unknown"}, records : 0..(MaxRecords + 1),
           error : {"none", "refused", "FORBIDDEN", "INTERNAL_ERROR"}]

TypeOK ==
    /\ answers \in Seq(BOOLEAN)
    /\ permitted \in Callers
    /\ swapped \subseteq 1..Len(answers)
    /\ conv \in Seq(Turn)
    /\ pc \in {"idle", "asking", "handling", "searching", "executing", "storing"}
    /\ round \in 0..DataRounds
    /\ search.round \in 0..ToolRounds
    /\ blocks \in 0..MaxBlocks
    /\ uses \subseteq 1..MaxBlocks
    /\ answer \in BOOLEAN
    /\ search.tools \in 0..MaxBlocks
    /\ calls \in Seq(Result)
    /\ sources \subseteq [call : 1..Len(calls), table : {"customers", "events", "metrics", "records"},
                          record : 0..MaxRecords + 1]
    /\ aborted \in BOOLEAN

NoSearch == [round |-> 0, tools |-> 0]

\* The two messages of an exchange have equal times, so that the sort leaves them as
\* they were fetched: those in sw are the wrong way round.  Every message is sent
\* with the text it was stored with, an empty one too.
History(sw) ==
    [i \in 1..(2 * Len(answers)) |->
       LET k    == (i + 1) \div 2
           role == IF (i % 2 = 1) # (k \in sw) THEN "user" ELSE "assistant"
       IN  [role |-> role, text |-> role = "user" \/ answers[k], uses |-> {}, results |-> {},
            exchange |-> k]]

\* Nothing of a message is left when it has been dealt with but what is stored.
Rest ==
    /\ conv' = <<>>
    /\ pc' = "idle"
    /\ round' = 0
    /\ blocks' = 0
    /\ uses' = {}
    /\ answer' = FALSE
    /\ search' = NoSearch
    /\ calls' = <<>>
    /\ sources' = {}
    /\ aborted' = FALSE

Init ==
    /\ answers = <<>>
    /\ permitted \in Callers
    /\ swapped = {}
    /\ conv = <<>>
    /\ pc = "idle"
    /\ round = 0
    /\ blocks = 0
    /\ uses = {}
    /\ answer = FALSE
    /\ search = NoSearch
    /\ calls = <<>>
    /\ sources = {}
    /\ aborted = FALSE

\* ChatService loads the history, and the orchestrator cuts it to its window.
Ask ==
    /\ pc = "idle"
    /\ Len(answers) < MaxPairs
    /\ permitted' \in Callers
    /\ swapped' \in SUBSET (1..Len(answers))
    /\ conv' = Truncate(Append(History(swapped'), Message))
    /\ pc' = "asking"
    /\ UNCHANGED <<answers, round, blocks, uses, answer, search, calls, sources, aborted>>

Offered == {t \in Tools : Offering[t] \in permitted}

\* A response without tool uses is the answer, an empty one if it has no text block;
\* the API lets the model use tools only when it was given some.
Respond ==
    /\ pc = "asking"
    /\ round < DataRounds
    /\ Valid(conv)
    /\ round' = round + 1
    /\ blocks' \in IF Offered = {} THEN {0} ELSE 0..MaxBlocks
    /\ IF blocks' = 0 THEN pc' = "storing" /\ answer' \in BOOLEAN
                      ELSE pc' = "handling" /\ UNCHANGED answer
    /\ UNCHANGED <<session, conv, uses, search, calls, sources, aborted>>

\* The fallback message.
GiveUp ==
    /\ pc = "asking"
    /\ round = DataRounds
    /\ pc' = "storing"
    /\ answer' = TRUE
    /\ UNCHANGED <<session, conv, round, blocks, uses, search, calls, sources, aborted>>

\* A tool use that is not request_data.
SkipUnexpected ==
    /\ pc = "handling"
    /\ blocks > 0
    /\ blocks' = blocks - 1
    /\ UNCHANGED <<session, conv, pc, round, uses, answer, search, calls, sources, aborted>>

Delegate ==
    /\ pc = "handling"
    /\ blocks > 0
    /\ pc' = "searching"
    /\ UNCHANGED <<session, conv, round, blocks, uses, answer, search, calls, sources, aborted>>

\* The response is handled, and both of its turns are appended.  It may have had
\* text too, and have stopped for end_turn: its text is then the answer.
FinishRound ==
    /\ pc = "handling"
    /\ blocks = 0
    /\ answer' \in BOOLEAN
    /\ conv' = conv \o <<[role |-> "assistant", text |-> answer', uses |-> uses, results |-> {}, exchange |-> 0],
                         [role |-> "user", text |-> FALSE, uses |-> {}, results |-> uses, exchange |-> 0]>>
    /\ pc' \in {"asking", "storing"}
    /\ uses' = {}
    /\ UNCHANGED <<session, round, blocks, search, calls, sources, aborted>>

-----------------------------------------------------------------------------
(* RetrieverAgent.fetch_data and execute_tool.  The retriever's conversation  *)
(* has a result for every use, whatever the result is: it is left out.        *)

\* The data request is answered with what was found.
EndSearch ==
    /\ pc' = "handling"
    /\ uses' = uses \union {blocks}
    /\ blocks' = blocks - 1
    /\ search' = NoSearch

\* The retriever asks the model which tools to run, if any.
ChooseTools ==
    /\ pc = "searching"
    /\ search.round < ToolRounds
    /\ \/ EndSearch
       \/ \E n \in 1..MaxBlocks :
            /\ Len(calls) + n <= MaxCalls
            /\ pc' = "executing"
            /\ search' = [round |-> search.round + 1, tools |-> n]
            /\ UNCHANGED <<blocks, uses>>
    /\ UNCHANGED <<session, conv, round, answer, calls, sources, aborted>>

\* Variant: the records of the last result replace those of the others.
AttributeLast(call) ==
    {[call |-> Len(calls) + 1, table |-> s.table, record |-> s.record] :
       s \in IF call.error = "none" THEN Extract(call) ELSE {}}

Attribute(call) ==
    sources \union {[call |-> Len(calls) + 1, table |-> s.table, record |-> s.record] :
                      s \in IF call.error = "none" THEN Extract(call) ELSE {}}

\* The result of a tool is kept and attributed.
Return(t, error, records) ==
    LET call == [tool |-> t, records |-> records, error |-> error]
    IN  /\ pc = "executing"
        /\ search.tools > 0
        /\ calls' = Append(calls, call)
        /\ sources' = Attribute(call)
        /\ search' = [search EXCEPT !.tools = @ - 1]
        /\ UNCHANGED <<session, conv, pc, round, blocks, uses, answer>>

Allowed(t) == Required[t] \in permitted

\* UNKNOWN_TOOL; INVALID_INPUT, before the service is called; NOT_FOUND.  A source
\* is looked up by its name before the permission is.
RefuseTool ==
    /\ \E t \in Singles \union {"query_events", "get_metric", "unknown"} : Return(t, "refused", 0)
    /\ UNCHANGED aborted

ForbidTool ==
    /\ \E t \in Tools : ~Allowed(t) /\ Return(t, "FORBIDDEN", 0)
    /\ UNCHANGED aborted

ReturnRecords ==
    /\ ~aborted
    /\ \E t \in Tools : /\ Allowed(t)
                        /\ \E n \in IF t \in Singles THEN {1} ELSE 0..MaxRecords : Return(t, "none", n)
    /\ UNCHANGED aborted

\* The tools whose input is parsed before the permission is looked at.
Parsing == Singles \union {"list_customers", "query_events", "get_metric"}

\* An exception becomes INTERNAL_ERROR; one of the database leaves its transaction
\* failed, where every later statement fails too.
BreakTool ==
    \E t \in Tools, failed \in BOOLEAN :
       /\ Allowed(t) \/ t = "get_source_status" \/ (t \in Parsing /\ ~failed)
       /\ Return(t, "INTERNAL_ERROR", 0)
       /\ aborted' = (aborted \/ failed)

\* All tools of the response have run; it may have stopped for end_turn.
FinishTools ==
    /\ pc = "executing"
    /\ search.tools = 0
    /\ \/ EndSearch
       \/ search.round < ToolRounds /\ pc' = "searching" /\ UNCHANGED <<blocks, uses, search>>
    /\ UNCHANGED <<session, conv, round, answer, calls, sources, aborted>>

-----------------------------------------------------------------------------

\* LLMUnavailableError, of any call to the model: the transaction is rolled back.
FailModel ==
    /\ pc \in {"asking", "searching"}
    /\ Rest
    /\ UNCHANGED session

\* ChatService stores the exchange: add_message fails in a failed transaction.
Store ==
    /\ pc = "storing"
    /\ Rest
    /\ answers' = IF aborted THEN answers ELSE Append(answers, answer)
    /\ UNCHANGED <<permitted, swapped>>

Next ==
    \/ Ask \/ Respond \/ GiveUp \/ SkipUnexpected \/ Delegate \/ FinishRound
    \/ ChooseTools \/ RefuseTool \/ ForbidTool \/ ReturnRecords \/ BreakTool \/ FinishTools
    \/ FailModel \/ Store

Spec == Init /\ [][Next]_vars

-----------------------------------------------------------------------------

\* A turn the sort may have put on the wrong side of the one it was stored with.
Moved(turn) == turn.exchange \in swapped

\* A turn follows one of its own role, or is an assistant's that comes first, only
\* where a stored pair was swapped; a stored turn is empty only where the answer was
\* stored without text; and the uses of a turn are always answered by the next.
TurnsFit ==
    \A i \in DOMAIN conv :
       /\ \/ conv[i].role # IF i = 1 THEN "assistant" ELSE conv[i - 1].role
          \/ Moved(conv[i])
          \/ i > 1 /\ Moved(conv[i - 1])
       /\ Empty(conv[i]) => \/ conv[i].exchange = 0 /\ i > 1
                            \/ conv[i].exchange # 0 /\ conv[i].role = "assistant" /\ ~answers[conv[i].exchange]
       /\ conv[i].results = IF i = 1 THEN {} ELSE conv[i - 1].uses

Kept(k) == {conv[i].role : i \in {j \in DOMAIN conv : conv[j].exchange = k}}

\* With one message of an exchange the window holds those of all later ones and,
\* unless the two were swapped, the other one.
WindowIsWhole ==
    \A i \in DOMAIN conv : \A k \in conv[i].exchange..Len(answers) :
       \/ conv[i].exchange = 0
       \/ Kept(k) = {"user", "assistant"}
       \/ k = conv[i].exchange /\ Moved(conv[i])

\* What is wrong with a conversation was wrong in what is stored, or in what the
\* model itself has just said: the window and the rounds of data requests add no
\* turn out of order, no unanswered use and no half of an exchange.
ConversationsAreValid == TurnsFit /\ WindowIsWhole

\* A tool that is offered is never forbidden, and one that returned records was
\* offered: the map of Gate 1 and the services of Gate 2 agree.
GatesAgree ==
    \A i \in DOMAIN calls :
       /\ calls[i].error = "FORBIDDEN" => calls[i].tool \notin Offered
       /\ calls[i].error = "none" => calls[i].tool \in Offered

ListTools == {"lookup_customer", "list_customers", "query_events", "get_metrics_catalog"}

\* The records of a tool that lists customers, events or the catalogue are
\* attributed, all of them and under their table, and nothing else is for its call.
ListsAreAttributed ==
    \A i \in DOMAIN calls :
       LET attributed == {s \in sources : s.call = i}
       IN  /\ calls[i].error # "none" => attributed = {}
           /\ (calls[i].error = "none" /\ calls[i].tool \in ListTools) =>
                attributed = {[call |-> i, table |-> Table[calls[i].tool], record |-> n] :
                                n \in 1..calls[i].records}

-----------------------------------------------------------------------------
(* What the repository says of the agent and the code does not do *)

\* AB-4 (contracts/v1/behavior/agent-rules.yaml): every record the agent was given
\* is among the sources, with its table and its id.
SourcesAttributed ==
    \A i \in DOMAIN calls : calls[i].error = "none" =>
       \A n \in 1..calls[i].records : [call |-> i, table |-> Table[calls[i].tool], record |-> n] \in sources
=============================================================================
