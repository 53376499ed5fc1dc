--------------------------- MODULE QuestionWorkflow ---------------------------
(***************************************************************************)
(* POST /api/questions: any number of questions in the one event loop of   *)
(* the backend (app/api/query.py, app/services/agent_service.py), each a   *)
(* pipeline of three LLM calls and the gates between them, then one query  *)
(* through MCPClientManager.  The task of a question suspends only at an   *)
(* LLM call or inside the manager; "stage" is where it is suspended.       *)
(*                                                                         *)
(* The questions share the manager (composed from McpClientManager, a      *)
(* question being its call) and the LLM client (llm_client.py), whose SDK  *)
(* instance the first call builds from the settings found at that moment.  *)
(***************************************************************************)
EXTENDS Integers

CONSTANTS
    Requests,             \* the questions; a question is its correlation id
    NoCall,               \* the free lock of the manager
    OtherIds, Blank,      \* see DemoScope
    MaximumReturnedRows,  \* agent_service.MAXIMUM_RETURNED_ROWS and its mirrors
    LlmIntents,           \* the intents that the LLM may answer
    LlmPlans,             \* the plans that the LLM may answer
    LlmSqls,              \* the SQL that generate_sql may return, see SqlGuardrail
    Numerals, ValueOf, OtherCase,
    MatchingRows          \* numbers of rows that a query may match

VARIABLES
    stage,       \* [Requests -> Stages]
    response,    \* [Requests -> Responses \cup {NoResponse}]
    sql,         \* [Requests -> LlmSqls \cup {NoSql}]: what generate_sql returned
    llmClient,   \* the AsyncOpenAI instance exists
    configured,  \* environment and .env hold valid LLM settings
    state, outcome, lock, waiters, unavailable, server, reply, serverUp

managerVars == <<state, outcome, lock, waiters, unavailable, server, reply, serverUp>>
llmVars == <<llmClient, configured>>
vars == <<stage, response, sql, llmVars, managerVars>>

Manager == INSTANCE McpClientManager WITH Calls <- Requests
Scope == INSTANCE DemoScope
Guardrail == INSTANCE SqlGuardrail

NoSql == [none |-> TRUE]

ASSUME WorkflowAssumption ==
    /\ NoCall \notin Requests
    /\ LlmIntents \subseteq Scope!RawIntents
    /\ \A p \in LlmPlans : p \in Scope!Plans
    /\ NoSql \notin LlmSqls
    /\ MaximumReturnedRows \in Nat \ {0}
    /\ MatchingRows \subseteq Nat

Stages == {"idle", "intent", "plan", "sql", "execute", "replied"}

Codes == {"none", "clarification_required", "invalid_request",
          "intent_contract_violation", "metadata_not_found", "query_plan_invalid",
          "sql_rejected", "llm_unavailable", "mcp_execution_failed", "internal_error"}

(* "reason" is the internal one of LLMUnavailableError, "at" the stage in  *)
(* which the question ended; neither is part of the HTTP response.         *)
Responses ==
    [status: {"completed", "clarification_required", "rejected", "failed"},
     code: Codes,
     reason: {"none", "configuration_error", "call_failed"},
     at: Stages,
     row_count: 0..MaximumReturnedRows,
     truncated: BOOLEAN]

NoResponse == [status |-> "none"]

-----------------------------------------------------------------------------
Init ==
    /\ stage = [r \in Requests |-> "idle"]
    /\ response = [r \in Requests |-> NoResponse]
    /\ sql = [r \in Requests |-> NoSql]
    /\ llmClient = FALSE
    /\ configured \in BOOLEAN
    /\ Manager!Init

(* The outcome of handle_question is the HTTP response.                    *)
Reply(r, resp) ==
    /\ stage' = [stage EXCEPT ![r] = "replied"]
    /\ response' = [response EXCEPT ![r] = resp]

ReplyWithout(r, status, code, reason) ==
    Reply(r, [status |-> status, code |-> code, reason |-> reason, at |-> stage[r],
              row_count |-> 0, truncated |-> FALSE])

Rejected(r, code) == ReplyWithout(r, "rejected", code, "none")
Failed(r, code) == ReplyWithout(r, "failed", code, "none")
LlmUnavailable(r, reason) == ReplyWithout(r, "failed", "llm_unavailable", reason)

(* Mutant of AskLlm: the settings are validated for every call.            *)
AskLlmRevalidates(r, next) ==
    IF configured
    THEN /\ stage' = [stage EXCEPT ![r] = next]
         /\ llmClient' = TRUE
         /\ UNCHANGED response
    ELSE LlmUnavailable(r, "configuration_error") /\ UNCHANGED llmClient

(* A call of the LLM client up to its first suspension: _ensure_client     *)
(* reuses the instance or builds it, and fails while the settings are not  *)
(* valid, which it reads anew each time.                                   *)
AskLlm(r, next) ==
    IF llmClient \/ configured
    THEN /\ stage' = [stage EXCEPT ![r] = next]
         /\ llmClient' = TRUE
         /\ UNCHANGED response
    ELSE LlmUnavailable(r, "configuration_error") /\ UNCHANGED llmClient

-----------------------------------------------------------------------------
(* ask_question with a valid body: on to generate_runtime_intent.          *)
Ask(r) ==
    /\ stage[r] = "idle"
    /\ AskLlm(r, "intent")
    /\ UNCHANGED <<sql, configured, managerVars>>

(* validation_exception_handler.                                           *)
AskInvalid(r) ==
    /\ stage[r] = "idle"
    /\ Rejected(r, "invalid_request")
    /\ UNCHANGED <<sql, llmVars, managerVars>>

AwaitsLlm(r) == stage[r] \in {"intent", "plan", "sql"}

(* Mutant of LlmFails: the internal reason becomes the public code.        *)
LlmFailsWithReason(r) ==
    /\ AwaitsLlm(r)
    /\ Failed(r, "call_failed")
    /\ UNCHANGED <<sql, llmVars, managerVars>>

(* Mutant of LlmFails: complete_text, which asks for the SQL, goes without *)
(* the timeout of complete_json.                                           *)
LlmFailsInJsonMode(r) ==
    /\ stage[r] \in {"intent", "plan"}
    /\ LlmUnavailable(r, "call_failed")
    /\ UNCHANGED <<sql, llmVars, managerVars>>

(* LLMUnavailableError: the 20 seconds are over, the provider limits the   *)
(* rate or fails, or the answer is empty.  The instance is kept.           *)
LlmFails(r) ==
    /\ AwaitsLlm(r)
    /\ LlmUnavailable(r, "call_failed")
    /\ UNCHANGED <<sql, llmVars, managerVars>>

(* An answer without choices raises what handle_question alone catches.    *)
LlmBreaks(r) ==
    /\ AwaitsLlm(r)
    /\ Failed(r, "internal_error")
    /\ UNCHANGED <<sql, llmVars, managerVars>>

(* generate_runtime_intent got an answer that is not JSON, or an intent;   *)
(* then clarification, retrieval and the start of generate_query_plan.     *)
IntentNotJson(r) ==
    /\ stage[r] = "intent"
    /\ Rejected(r, "intent_contract_violation")
    /\ UNCHANGED <<sql, llmVars, managerVars>>

IntentAnswered(r) ==
    /\ stage[r] = "intent"
    /\ \E i \in LlmIntents :
          \/ /\ ~Scope!IntentContract(i)
             /\ Rejected(r, "intent_contract_violation")
             /\ UNCHANGED llmClient
          \/ /\ Scope!IntentContract(i) /\ i.requires_clarification
             /\ ReplyWithout(r, "clarification_required", "clarification_required", "none")
             /\ UNCHANGED llmClient
          \/ /\ Scope!IntentContract(i) /\ ~i.requires_clarification
             /\ ~Scope!Retrieves(i)
             /\ Rejected(r, "metadata_not_found")
             /\ UNCHANGED llmClient
          \/ /\ Scope!IntentContract(i) /\ ~i.requires_clarification
             /\ Scope!Retrieves(i)
             /\ AskLlm(r, "plan")
    /\ UNCHANGED <<sql, configured, managerVars>>

(* generate_query_plan got an answer that is not JSON, or a plan; then     *)
(* plan_validator and the start of generate_sql.                           *)
PlanNotJson(r) ==
    /\ stage[r] = "plan"
    /\ Rejected(r, "query_plan_invalid")
    /\ UNCHANGED <<sql, llmVars, managerVars>>

PlanAnswered(r) ==
    /\ stage[r] = "plan"
    /\ \E p \in LlmPlans :
          \/ /\ ~Scope!PlanAccepted(p)
             /\ Rejected(r, "query_plan_invalid")
             /\ UNCHANGED llmClient
          \/ Scope!PlanAccepted(p) /\ AskLlm(r, "sql")
    /\ UNCHANGED <<sql, configured, managerVars>>

(* The SQL that sql_guardrail.validate lets through, and the rows it then  *)
(* asks for.  The plan and its limit play no part.                         *)
AcceptedSqls == {s \in LlmSqls : Guardrail!GuardrailAccepts(s)}
RowsAskedFor(s) == Guardrail!TopOf(Guardrail!Canonical(Guardrail!Cleaned(s.tokens)))

(* How _handle_question ends on what execute_readonly_query returned or    *)
(* raised.  The executor has fetched one row more than the maximum, at     *)
(* most, to see whether it must truncate.                                  *)
ExecutionEnds(r) ==
    LET o == outcome'[r] IN
    \/ /\ o = "result"
       /\ \E n \in MatchingRows :
             LET top == RowsAskedFor(sql[r])
                 available == IF n <= top THEN n ELSE top
                 more == available > MaximumReturnedRows
             IN  Reply(r, [status |-> "completed", code |-> "none", reason |-> "none",
                           at |-> "execute",
                           row_count |-> IF more THEN MaximumReturnedRows ELSE available,
                           truncated |-> more])
    \/ /\ o \in Manager!TransportErrors \cup Manager!ToolErrors
       /\ Failed(r, "mcp_execution_failed")
    \/ o = "unclassified" /\ Failed(r, "internal_error")

(* Mutant of SqlAnswered: the guardrail looks at the SQL after it is sent. *)
SqlAnsweredSendsFirst(r) ==
    /\ stage[r] = "sql"
    /\ \E s \in LlmSqls :
          /\ sql' = [sql EXCEPT ![r] = s]
          /\ Manager!Invoke(r)
          /\ IF s \in AcceptedSqls
             THEN stage' = [stage EXCEPT ![r] = "execute"] /\ UNCHANGED response
             ELSE Rejected(r, "sql_rejected")
    /\ UNCHANGED llmVars

(* generate_sql got a text; then the guardrail and the start of            *)
(* execute_readonly_query, which the manager may refuse at once.           *)
SqlAnswered(r) ==
    /\ stage[r] = "sql"
    /\ \E s \in LlmSqls :
          /\ sql' = [sql EXCEPT ![r] = s]
          /\ \/ /\ s \notin AcceptedSqls
                /\ Rejected(r, "sql_rejected")
                /\ UNCHANGED managerVars
             \/ /\ s \in AcceptedSqls
                /\ Manager!Invoke(r)
                /\ IF state'[r] = "done"
                   THEN ExecutionEnds(r)
                   ELSE stage' = [stage EXCEPT ![r] = "execute"] /\ UNCHANGED response
    /\ UNCHANGED llmVars

(* A step of the manager for the question: when its call ends, the         *)
(* question is answered in the same step.                                  *)
GoOn(r) ==
    /\ stage[r] = "execute"
    /\ IF state'[r] = "done" THEN ExecutionEnds(r) ELSE UNCHANGED <<stage, response>>
    /\ UNCHANGED <<sql, llmVars>>

LockAcquired(r) == Manager!Acquire(r) /\ GoOn(r)
ToolReturned(r) == Manager!Return(r) /\ GoOn(r)
CallTimedOut(r) == Manager!CallTimeout(r) /\ GoOn(r)
ConnectionLost(r) == Manager!ConnectionClosed(r) /\ GoOn(r)

(* External: the MCP server, and the operator who edits the settings.      *)
ServerStep ==
    /\ Manager!ServerExit \/ \E r \in Requests : Manager!ServerStep(r)
    /\ UNCHANGED <<stage, response, sql, llmVars>>

EditSettings ==
    /\ configured' = ~configured
    /\ UNCHANGED <<stage, response, sql, llmClient, managerVars>>

Step(r) ==
    \/ Ask(r) \/ AskInvalid(r) \/ LlmFails(r) \/ LlmBreaks(r)
    \/ IntentNotJson(r) \/ IntentAnswered(r)
    \/ PlanNotJson(r) \/ PlanAnswered(r) \/ SqlAnswered(r)
    \/ LockAcquired(r) \/ ToolReturned(r) \/ CallTimedOut(r) \/ ConnectionLost(r)

Next ==
    \/ \E r \in Requests : Step(r)
    \/ ServerStep
    \/ EditSettings

Spec == Init /\ [][Next]_vars

(* Only timers and the ready queue of the event loop are fair: neither the *)
(* LLM nor the MCP server has to answer, and nobody has to ask.            *)
Fairness ==
    \A r \in Requests :
        WF_vars(LlmFails(r)) /\ WF_vars(LockAcquired(r)) /\ WF_vars(CallTimedOut(r))

FairSpec == Spec /\ Fairness

-----------------------------------------------------------------------------
(* Every variable has its type.                                            *)
TypeOK ==
    /\ stage \in [Requests -> Stages]
    /\ response \in [Requests -> Responses \cup {NoResponse}]
    /\ sql \in [Requests -> LlmSqls \cup {NoSql}]
    /\ llmClient \in BOOLEAN /\ configured \in BOOLEAN
    /\ Manager!TypeOK

Answered(r) == response[r] # NoResponse

(* The answer tells what happened to the target database: completed means  *)
(* that the server executed this question's query to the end, and          *)
(* clarification_required, rejected and llm_unavailable that it never got  *)
(* one.  mcp_execution_failed leaves it open.                              *)
ResponseTellsServer ==
    \A r \in Requests : Answered(r) =>
        /\ response[r].status = "completed" =>
              server[r] = "finished" /\ reply[r] = "valid" /\ sql[r] \in AcceptedSqls
        /\ \/ response[r].status \in {"clarification_required", "rejected"}
           \/ response[r].code = "llm_unavailable"
           => server[r] = "none"

(* A question whose first LLM call passed never fails on the settings,     *)
(* however often they are edited while it waits.                           *)
ConfigurationSettledAtStart ==
    \A r \in Requests :
        Answered(r) => (response[r].reason = "configuration_error" => response[r].at = "idle")

(* Three constants of 100 rows in three files cooperate: the TOP bound of  *)
(* the guardrail keeps a completed answer from ever being truncated by     *)
(* the maximum that the executor is given.                                 *)
NeverTruncated ==
    \A r \in Requests :
        response[r].status = "completed" =>
            ~response[r].truncated /\ response[r].row_count <= RowsAskedFor(sql[r])

(* Once the manager is unavailable no question completes any more, though  *)
(* the process stays up: only a restart helps.                             *)
NoCompletionAfterLoss ==
    [][unavailable => \A r \in Requests :
          Answered(r)' /\ response'[r].status = "completed" => Answered(r)]_vars

(* Every question is answered, whether the LLM and the MCP server answer   *)
(* or hang.                                                                *)
EveryQuestionAnswered ==
    \A r \in Requests : stage[r] # "idle" ~> stage[r] = "replied"
=============================================================================
