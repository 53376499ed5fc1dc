------------------------ MODULE QuestionWorkflowProofs ------------------------
(***************************************************************************)
(* Proofs about QuestionWorkflow, for any number of questions and any      *)
(* answers of the LLM.  What the manager promises is taken from its own    *)
(* proofs, through the instance that maps its calls to the questions.      *)
(***************************************************************************)
EXTENDS QuestionWorkflow, Sequences, TLAPS

ManagerProofs == INSTANCE McpClientManagerProofs WITH Calls <- Requests

(* What has happened to a question before each of its suspensions, and     *)
(* what its answer then tells.                                             *)
BeforeExecution == {"idle", "intent", "plan", "sql"}

Tells(r) ==
    /\ response[r].status = "completed" =>
          /\ server[r] = "finished" /\ reply[r] = "valid"
          /\ sql[r] \in AcceptedSqls
          /\ ~response[r].truncated /\ response[r].row_count <= RowsAskedFor(sql[r])
    /\ \/ response[r].status \in {"clarification_required", "rejected"}
       \/ response[r].code = "llm_unavailable"
       => state[r] = "idle"
    /\ response[r].reason = "configuration_error" => response[r].at = "idle"

QuestionInv(r) ==
    /\ stage[r] \in BeforeExecution => state[r] = "idle"
    /\ stage[r] \in {"intent", "plan", "sql"} => llmClient
    /\ stage[r] = "execute" => state[r] \in {"waiting", "calling"} /\ sql[r] \in AcceptedSqls
    /\ IF stage[r] = "replied"
       THEN response[r] \in Responses /\ Tells(r)
       ELSE response[r] = NoResponse

WorkflowTypeOK ==
    /\ stage \in [Requests -> Stages]
    /\ response \in [Requests -> Responses \cup {NoResponse}]
    /\ sql \in [Requests -> LlmSqls \cup {NoSql}]
    /\ llmClient \in BOOLEAN /\ configured \in BOOLEAN

(* The inductive invariant of the composition.                             *)
WorkflowInv ==
    /\ WorkflowTypeOK
    /\ ManagerProofs!SerialInv
    /\ \A r \in Requests : QuestionInv(r)

-----------------------------------------------------------------------------
(* What the workflow needs to know of the manager.                         *)

(* "No call" is not the request of a question.                             *)
LEMMA NoCallIsNoRequest == NoCall \notin Requests
  BY WorkflowAssumption

(* A step of the manager for question r, as its proofs know it.            *)
LEMMA ManagerStepIsClientStep ==
    ASSUME NEW r \in Requests,
           \/ Manager!Invoke(r) \/ Manager!Acquire(r) \/ Manager!Return(r)
           \/ Manager!CallTimeout(r) \/ Manager!ConnectionClosed(r)
    PROVE  ManagerProofs!ClientStep(r)
  BY DEF Manager!Invoke, Manager!InvokeRefused, Manager!InvokeAcquires, Manager!InvokeWaits,
         Manager!Acquire, Manager!Return, Manager!CallTimeout, Manager!ConnectionClosed,
         Manager!BeginCall, Manager!EndCall, Manager!serverVars, Manager!ParseResult,
         ManagerProofs!ClientStep,
         ManagerProofs!Invoke, ManagerProofs!InvokeRefused, ManagerProofs!InvokeAcquires,
         ManagerProofs!InvokeWaits, ManagerProofs!Acquire, ManagerProofs!Return,
         ManagerProofs!CallTimeout, ManagerProofs!ConnectionClosed,
         ManagerProofs!BeginCall, ManagerProofs!EndCall, ManagerProofs!serverVars,
         ManagerProofs!ParseResult

(* It keeps the manager's invariant, moves no other call, and returns a    *)
(* result only when the server has given a valid answer.                   *)
LEMMA ManagerStepFrame ==
    ASSUME ManagerProofs!SerialInv, NEW r \in Requests,
           \/ Manager!Invoke(r) \/ Manager!Acquire(r) \/ Manager!Return(r)
           \/ Manager!CallTimeout(r) \/ Manager!ConnectionClosed(r)
    PROVE  /\ ManagerProofs!SerialInv'
           /\ \A d \in Requests \ {r} : state'[d] = state[d]
           /\ state'[r] \in {"waiting", "calling", "done"}
           /\ \A d \in Requests : server[d] = "finished" =>
                 server'[d] = "finished" /\ reply'[d] = reply[d]
           /\ outcome'[r] = "result" => server'[r] = "finished" /\ reply'[r] = "valid"
  <1> USE DEF ManagerProofs!SerialInv
  <1>1. ManagerProofs!SerialInv'
    BY NoCallIsNoRequest, ManagerStepIsClientStep, ManagerProofs!StepSerialInv
       DEF ManagerProofs!Next
  <1>2. reply' = reply
    BY DEF Manager!Invoke, Manager!InvokeRefused, Manager!InvokeAcquires, Manager!InvokeWaits,
           Manager!Acquire, Manager!Return, Manager!CallTimeout, Manager!ConnectionClosed,
           Manager!BeginCall, Manager!serverVars
  <1>3. /\ \A d \in Requests \ {r} : state'[d] = state[d]
        /\ state'[r] \in {"waiting", "calling", "done"}
    BY DEF Manager!Invoke, Manager!InvokeRefused, Manager!InvokeAcquires, Manager!InvokeWaits,
           Manager!Acquire, Manager!Return, Manager!CallTimeout, Manager!ConnectionClosed,
           Manager!BeginCall, Manager!EndCall, ManagerProofs!TypeOK
  <1>4. /\ Manager!Invoke(r) => state[r] = "idle"
        /\ Manager!Acquire(r) => state[r] = "waiting"
        /\ Manager!Return(r) \/ Manager!CallTimeout(r) \/ Manager!ConnectionClosed(r)
              => state[r] = "calling"
    <2>1. ASSUME Manager!Acquire(r)
          PROVE  state[r] = "waiting"
      <3>1. waiters \in Seq(Requests) /\ waiters # <<>> /\ r = Head(waiters)
        BY <2>1 DEF Manager!Acquire, ManagerProofs!TypeOK
      <3>2. r = waiters[1] /\ 1 \in 1..Len(waiters)
        BY <3>1, NoCallIsNoRequest, ManagerProofs!QueueHeadTail
      <3> QED BY <3>2 DEF ManagerProofs!QueueInv
    <2> QED BY <2>1 DEF Manager!Invoke, Manager!Return, Manager!CallTimeout,
                        Manager!ConnectionClosed
  <1>5. \A d \in Requests : server[d] = "finished" => server'[d] = "finished"
    BY <1>4
    DEF Manager!Invoke, Manager!InvokeRefused, Manager!InvokeAcquires, Manager!InvokeWaits,
        Manager!Acquire, Manager!Return, Manager!CallTimeout, Manager!ConnectionClosed,
        Manager!BeginCall, Manager!serverVars, ManagerProofs!TypeOK, ManagerProofs!RequestInv
  <1>6. ASSUME outcome'[r] = "result"
        PROVE  server'[r] = "finished" /\ reply[r] = "valid"
    <2>1. outcome[r] = "none"
      BY <1>4 DEF ManagerProofs!RequestInv
    <2>2. Manager!Return(r)
      BY <1>6, <2>1
      DEF Manager!Invoke, Manager!InvokeRefused, Manager!InvokeAcquires, Manager!InvokeWaits,
          Manager!Acquire, Manager!CallTimeout, Manager!ConnectionClosed,
          Manager!BeginCall, Manager!EndCall, ManagerProofs!TypeOK
    <2>3. reply[r] \in ManagerProofs!Replies /\ Manager!ParseResult(reply[r]) = "result"
      BY <1>6, <2>2 DEF Manager!Return, Manager!EndCall, ManagerProofs!TypeOK,
                        ManagerProofs!RequestInv
    <2>4. reply[r] = "valid"
      BY <2>3 DEF Manager!ParseResult, ManagerProofs!Replies
    <2> QED BY <2>2, <2>4 DEF Manager!Return, ManagerProofs!TypeOK
  <1> QED BY <1>1, <1>2, <1>3, <1>5, <1>6

(* The server and its end move no task and take back nothing finished.     *)
LEMMA ServerStepFrame ==
    ASSUME ManagerProofs!SerialInv,
           Manager!ServerExit \/ \E r \in Requests : Manager!ServerStep(r)
    PROVE  /\ ManagerProofs!SerialInv'
           /\ state' = state
           /\ \A d \in Requests : server[d] = "finished" =>
                 server'[d] = "finished" /\ reply'[d] = reply[d]
  <1>1. ManagerProofs!ServerExit \/ \E r \in Requests : ManagerProofs!ServerStep(r)
    BY DEF Manager!ServerExit, Manager!ServerStep, Manager!ServerStart, Manager!ServerAnswer,
           Manager!DropLateAnswer, Manager!AtServer, Manager!clientVars, Manager!Replies,
           ManagerProofs!ServerExit, ManagerProofs!ServerStep, ManagerProofs!ServerStart,
           ManagerProofs!ServerAnswer, ManagerProofs!DropLateAnswer, ManagerProofs!AtServer,
           ManagerProofs!clientVars, ManagerProofs!Replies
  <1>2. ManagerProofs!SerialInv'
    BY <1>1, NoCallIsNoRequest, ManagerProofs!ServerKeeps
  <1> QED
    BY <1>1, <1>2
    DEF ManagerProofs!ServerExit, ManagerProofs!ServerStep, ManagerProofs!ServerStart,
        ManagerProofs!ServerAnswer, ManagerProofs!DropLateAnswer, ManagerProofs!AtServer,
        ManagerProofs!clientVars, ManagerProofs!SerialInv, ManagerProofs!TypeOK

-----------------------------------------------------------------------------
(* The steps of a question.                                                *)

(* Nothing that a question's invariant depends on has changed.             *)
Untouched(d) ==
    /\ stage'[d] = stage[d] /\ response'[d] = response[d] /\ sql'[d] = sql[d]
    /\ state'[d] = state[d]
    /\ server[d] = "finished" => server'[d] = "finished" /\ reply'[d] = reply[d]
    /\ llmClient => llmClient'

(* What leaves a question alone keeps what is known of it.                 *)
LEMMA UntouchedKeeps ==
    ASSUME NEW d \in Requests, QuestionInv(d), Untouched(d)
    PROVE  QuestionInv(d)'
  BY DEF QuestionInv, Tells, Untouched, BeforeExecution, AcceptedSqls, RowsAskedFor

(* Init establishes the invariant.                                         *)
LEMMA InitWorkflowInv == Init => WorkflowInv
  <1> SUFFICES ASSUME Init
               PROVE  WorkflowInv
    OBVIOUS
  <1>1. ManagerProofs!SerialInv
    <2>1. ManagerProofs!Init
      BY DEF Init, Manager!Init, ManagerProofs!Init
    <2> QED BY <2>1, NoCallIsNoRequest, ManagerProofs!InitSerialInv
  <1>2. WorkflowTypeOK
    BY DEF Init, WorkflowTypeOK, Stages
  <1>3. \A r \in Requests : QuestionInv(r)
    BY DEF Init, Manager!Init, QuestionInv
  <1> QED BY <1>1, <1>2, <1>3 DEF WorkflowInv

(* A gate or a failed LLM call answers a question before its execution.    *)
LEMMA ReplyKeeps ==
    ASSUME WorkflowInv, NEW r \in Requests, NEW resp \in Responses,
           stage[r] \in BeforeExecution, Reply(r, resp),
           resp.status # "completed",
           resp.reason = "configuration_error" => resp.at = "idle",
           sql' \in [Requests -> LlmSqls \cup {NoSql}],
           \A d \in Requests \ {r} : sql'[d] = sql[d],
           UNCHANGED <<llmVars, managerVars>>
    PROVE  WorkflowInv'
  <1> USE DEF llmVars, managerVars
  <1>1. WorkflowTypeOK'
    BY DEF WorkflowInv, WorkflowTypeOK, Reply, Stages
  <1>2. ManagerProofs!SerialInv'
    BY DEF WorkflowInv, ManagerProofs!SerialInv, ManagerProofs!TypeOK,
           ManagerProofs!QueueInv, ManagerProofs!LockInv, ManagerProofs!RequestInv,
           ManagerProofs!OutcomeTellsServer, ManagerProofs!OneDiscovery, ManagerProofs!AtServer
  <1>3. \A d \in Requests \ {r} : QuestionInv(d)'
    <2> SUFFICES ASSUME NEW d \in Requests \ {r}
                 PROVE  QuestionInv(d)'
      OBVIOUS
    <2>1. Untouched(d)
      BY DEF Untouched, Reply, WorkflowInv, WorkflowTypeOK
    <2> QED BY <2>1, UntouchedKeeps DEF WorkflowInv
  <1>4. QuestionInv(r)'
    BY DEF WorkflowInv, WorkflowTypeOK, QuestionInv, Tells, Reply, BeforeExecution
  <1> QED BY <1>1, <1>2, <1>3, <1>4 DEF WorkflowInv

(* The answers that carry no rows.                                         *)
LEMMA ReplyWithoutType ==
    ASSUME NEW r, stage[r] \in Stages,
           NEW status \in {"clarification_required", "rejected", "failed"},
           NEW code \in Codes,
           NEW reason \in {"none", "configuration_error", "call_failed"},
           ReplyWithout(r, status, code, reason)
    PROVE  \E resp \in Responses :
              /\ Reply(r, resp)
              /\ resp.status = status /\ resp.reason = reason /\ resp.at = stage[r]
              /\ resp.code = code
  <1> DEFINE resp == [status |-> status, code |-> code, reason |-> reason, at |-> stage[r],
                      row_count |-> 0, truncated |-> FALSE]
  <1>1. 0 \in 0..MaximumReturnedRows
    BY WorkflowAssumption
  <1>2. resp \in Responses
    BY <1>1 DEF Responses
  <1>3. Reply(r, resp)
    BY DEF ReplyWithout
  <1> QED BY <1>2, <1>3

(* The outcome of a gate.                                                  *)
LEMMA ReplyWithoutKeeps ==
    ASSUME WorkflowInv, NEW r \in Requests,
           stage[r] \in BeforeExecution,
           NEW status \in {"clarification_required", "rejected", "failed"},
           NEW code \in Codes,
           NEW reason \in {"none", "configuration_error", "call_failed"},
           ReplyWithout(r, status, code, reason),
           reason = "configuration_error" => stage[r] = "idle",
           sql' \in [Requests -> LlmSqls \cup {NoSql}],
           \A d \in Requests \ {r} : sql'[d] = sql[d],
           UNCHANGED <<llmVars, managerVars>>
    PROVE  WorkflowInv'
  <1>1. PICK resp \in Responses :
              /\ Reply(r, resp)
              /\ resp.status = status /\ resp.reason = reason /\ resp.at = stage[r]
    BY ReplyWithoutType DEF WorkflowInv, WorkflowTypeOK
  <1> QED BY <1>1, ReplyKeeps

(* A call of the LLM: an instance that exists is used whatever the         *)
(* settings are, so only the first stage can fail on them.                 *)
LEMMA AskLlmKeeps ==
    ASSUME WorkflowInv, NEW r \in Requests,
           stage[r] \in BeforeExecution,
           NEW next \in {"intent", "plan", "sql"}, AskLlm(r, next),
           UNCHANGED <<sql, configured, managerVars>>
    PROVE  WorkflowInv'
  <1>0. sql \in [Requests -> LlmSqls \cup {NoSql}]
    BY DEF WorkflowInv, WorkflowTypeOK
  <1>1. CASE llmClient \/ configured
    <2> USE <1>1 DEF AskLlm, managerVars
    <2>1. WorkflowTypeOK'
      BY DEF WorkflowInv, WorkflowTypeOK, Stages
    <2>2. ManagerProofs!SerialInv'
      BY DEF WorkflowInv, ManagerProofs!SerialInv, ManagerProofs!TypeOK,
             ManagerProofs!QueueInv, ManagerProofs!LockInv, ManagerProofs!RequestInv,
             ManagerProofs!OutcomeTellsServer, ManagerProofs!OneDiscovery,
             ManagerProofs!AtServer
    <2>3. \A d \in Requests \ {r} : QuestionInv(d)'
      <3> SUFFICES ASSUME NEW d \in Requests \ {r}
                   PROVE  QuestionInv(d)'
        OBVIOUS
      <3>1. Untouched(d)
        BY DEF Untouched, WorkflowInv, WorkflowTypeOK
      <3> QED BY <3>1, UntouchedKeeps DEF WorkflowInv
    <2>4. QuestionInv(r)'
      BY DEF WorkflowInv, WorkflowTypeOK, QuestionInv, BeforeExecution
    <2> QED BY <2>1, <2>2, <2>3, <2>4 DEF WorkflowInv
  <1>2. CASE ~(llmClient \/ configured)
    <2>1. stage[r] = "idle"
      BY <1>2 DEF WorkflowInv, QuestionInv, BeforeExecution
    <2>2. ReplyWithout(r, "failed", "llm_unavailable", "configuration_error")
      BY <1>2 DEF AskLlm, LlmUnavailable
    <2>3. UNCHANGED <<llmVars, managerVars>>
      BY <1>2 DEF AskLlm, llmVars
    <2> QED BY <1>0, <2>1, <2>2, <2>3, ReplyWithoutKeeps DEF Codes
  <1> QED BY <1>1, <1>2

(* The steps before the guardrail.                                         *)
LEMMA GateStepKeeps ==
    ASSUME WorkflowInv, NEW r \in Requests,
           \/ Ask(r) \/ AskInvalid(r) \/ LlmFails(r) \/ LlmBreaks(r)
           \/ IntentNotJson(r) \/ IntentAnswered(r)
           \/ PlanNotJson(r) \/ PlanAnswered(r)
    PROVE  WorkflowInv'
  <1>0. /\ sql \in [Requests -> LlmSqls \cup {NoSql}]
        /\ stage[r] \in BeforeExecution
    BY DEF WorkflowInv, WorkflowTypeOK, BeforeExecution, Ask, AskInvalid, LlmFails, LlmBreaks,
           AwaitsLlm, IntentNotJson, IntentAnswered, PlanNotJson, PlanAnswered
  <1>1. CASE Ask(r)
    BY <1>0, <1>1, AskLlmKeeps DEF Ask
  <1>2. CASE AskInvalid(r)
    BY <1>0, <1>2, ReplyWithoutKeeps DEF AskInvalid, Rejected, Codes
  <1>3. CASE LlmFails(r)
    BY <1>0, <1>3, ReplyWithoutKeeps DEF LlmFails, LlmUnavailable, Codes
  <1>4. CASE LlmBreaks(r)
    BY <1>0, <1>4, ReplyWithoutKeeps DEF LlmBreaks, Failed, Codes
  <1>5. CASE IntentNotJson(r)
    BY <1>0, <1>5, ReplyWithoutKeeps DEF IntentNotJson, Rejected, Codes
  <1>6. CASE IntentAnswered(r)
    <2>1. UNCHANGED <<sql, configured, managerVars>>
      BY <1>6 DEF IntentAnswered
    <2>2. CASE AskLlm(r, "plan")
      BY <1>0, <2>1, <2>2, AskLlmKeeps
    <2>3. CASE Rejected(r, "intent_contract_violation") /\ UNCHANGED llmClient
      BY <1>0, <2>1, <2>3, ReplyWithoutKeeps DEF Rejected, Codes, llmVars
    <2>4. CASE Rejected(r, "metadata_not_found") /\ UNCHANGED llmClient
      BY <1>0, <2>1, <2>4, ReplyWithoutKeeps DEF Rejected, Codes, llmVars
    <2>5. CASE /\ ReplyWithout(r, "clarification_required", "clarification_required", "none")
               /\ UNCHANGED llmClient
      BY <1>0, <2>1, <2>5, ReplyWithoutKeeps DEF Codes, llmVars
    <2> QED BY <1>6, <2>2, <2>3, <2>4, <2>5 DEF IntentAnswered
  <1>7. CASE PlanNotJson(r)
    BY <1>0, <1>7, ReplyWithoutKeeps DEF PlanNotJson, Rejected, Codes
  <1>8. CASE PlanAnswered(r)
    <2>1. UNCHANGED <<sql, configured, managerVars>>
      BY <1>8 DEF PlanAnswered
    <2>2. CASE AskLlm(r, "sql")
      BY <1>0, <2>1, <2>2, AskLlmKeeps
    <2>3. CASE Rejected(r, "query_plan_invalid") /\ UNCHANGED llmClient
      BY <1>0, <2>1, <2>3, ReplyWithoutKeeps DEF Rejected, Codes, llmVars
    <2> QED BY <1>8, <2>2, <2>3 DEF PlanAnswered
  <1> QED BY <1>1, <1>2, <1>3, <1>4, <1>5, <1>6, <1>7, <1>8

(* The guardrail bounds the rows that accepted SQL asks for.               *)
LEMMA AcceptedAsksForFew ==
    ASSUME NEW s \in AcceptedSqls
    PROVE  RowsAskedFor(s) \in 1..MaximumReturnedRows
  BY DEF AcceptedSqls, RowsAskedFor, Guardrail!GuardrailAccepts, Guardrail!TopIsBounded

(* The end of an execution: the answer says what the call returned, and    *)
(* with accepted SQL there is nothing to truncate.                         *)
LEMMA ExecutionEndsReplies ==
    ASSUME NEW r \in Requests, ExecutionEnds(r), stage[r] \in Stages,
           outcome'[r] = "result" => sql[r] \in AcceptedSqls
    PROVE  \E resp \in Responses :
              /\ Reply(r, resp)
              /\ resp.status = "completed" =>
                    /\ outcome'[r] = "result"
                    /\ ~resp.truncated /\ resp.row_count <= RowsAskedFor(sql[r])
              /\ resp.status \in {"completed", "failed"} /\ resp.code # "llm_unavailable"
              /\ resp.reason = "none"
  <1>1. CASE outcome'[r] = "result"
    <2>1. PICK n \in MatchingRows :
              LET top == RowsAskedFor(sql[r])
                  available == IF n <= top THEN n ELSE top
                  more == available > MaximumReturnedRows
              IN  Reply(r, [status |-> "completed", code |-> "none", reason |-> "none",
                            at |-> "execute",
                            row_count |-> IF more THEN MaximumReturnedRows ELSE available,
                            truncated |-> more])
      BY <1>1 DEF ExecutionEnds, Manager!TransportErrors, Manager!Abandoned, Manager!ToolErrors
    <2> DEFINE top == RowsAskedFor(sql[r])
               available == IF n <= top THEN n ELSE top
               more == available > MaximumReturnedRows
               resp == [status |-> "completed", code |-> "none", reason |-> "none",
                        at |-> "execute", row_count |-> available, truncated |-> FALSE]
    <2>2. top \in 1..MaximumReturnedRows /\ n \in Nat /\ MaximumReturnedRows \in Nat
      BY <1>1, AcceptedAsksForFew, WorkflowAssumption
    <2>3. /\ available \in 0..MaximumReturnedRows /\ available <= top
          /\ more = FALSE
      BY <2>2
    <2>4. Reply(r, resp)
      <3>1. Reply(r, [status |-> "completed", code |-> "none", reason |-> "none",
                      at |-> "execute",
                      row_count |-> IF more THEN MaximumReturnedRows ELSE available,
                      truncated |-> more])
        BY <2>1
      <3> HIDE DEF more, available
      <3> QED BY <3>1, <2>3
    <2>5. resp \in Responses
      BY <2>3 DEF Responses, Codes, Stages
    <2> QED BY <1>1, <2>3, <2>4, <2>5
  <1>2. CASE outcome'[r] # "result"
    <2>1. PICK code \in {"mcp_execution_failed", "internal_error"} :
              ReplyWithout(r, "failed", code, "none")
      BY <1>2 DEF ExecutionEnds, Failed
    <2> QED BY <2>1, ReplyWithoutType DEF Codes
  <1> QED BY <1>1, <1>2

(* A step of the manager for a question whose SQL was accepted: the call   *)
(* is under way, or it has ended and the question is answered.             *)
LEMMA ExecutionKeeps ==
    ASSUME WorkflowInv, NEW r \in Requests,
           stage[r] \in {"sql", "execute"},
           \/ Manager!Invoke(r) \/ Manager!Acquire(r) \/ Manager!Return(r)
           \/ Manager!CallTimeout(r) \/ Manager!ConnectionClosed(r),
           sql' \in [Requests -> LlmSqls \cup {NoSql}],
           \A d \in Requests \ {r} : sql'[d] = sql[d],
           sql'[r] \in AcceptedSqls,
           outcome'[r] = "result" => sql'[r] = sql[r],
           IF state'[r] = "done"
           THEN ExecutionEnds(r)
           ELSE stage' = [stage EXCEPT ![r] = "execute"] /\ UNCHANGED response,
           UNCHANGED llmVars
    PROVE  WorkflowInv'
  <1> USE DEF llmVars
  <1>1. /\ ManagerProofs!SerialInv'
        /\ \A d \in Requests \ {r} : state'[d] = state[d]
        /\ state'[r] \in {"waiting", "calling", "done"}
        /\ \A d \in Requests : server[d] = "finished" =>
              server'[d] = "finished" /\ reply'[d] = reply[d]
        /\ outcome'[r] = "result" => server'[r] = "finished" /\ reply'[r] = "valid"
    BY ManagerStepFrame DEF WorkflowInv
  <1>2. ASSUME /\ \A d \in Requests \ {r} : stage'[d] = stage[d] /\ response'[d] = response[d]
               /\ WorkflowTypeOK' /\ QuestionInv(r)'
        PROVE  WorkflowInv'
    <2> SUFFICES ASSUME NEW d \in Requests \ {r}
                 PROVE  QuestionInv(d)'
      BY <1>1, <1>2 DEF WorkflowInv
    <2>1. Untouched(d)
      BY <1>1, <1>2 DEF Untouched
    <2> QED BY <2>1, UntouchedKeeps DEF WorkflowInv
  <1>3. CASE state'[r] # "done"
    <2>1. /\ \A d \in Requests \ {r} : stage'[d] = stage[d] /\ response'[d] = response[d]
          /\ WorkflowTypeOK'
      BY <1>3 DEF WorkflowInv, WorkflowTypeOK, Stages
    <2>2. QuestionInv(r)'
      BY <1>1, <1>3 DEF WorkflowInv, WorkflowTypeOK, QuestionInv, BeforeExecution, AcceptedSqls
    <2> QED BY <1>2, <2>1, <2>2
  <1>4. CASE state'[r] = "done"
    <2>1. PICK resp \in Responses :
              /\ Reply(r, resp)
              /\ resp.status = "completed" =>
                    /\ outcome'[r] = "result"
                    /\ ~resp.truncated /\ resp.row_count <= RowsAskedFor(sql[r])
              /\ resp.status \in {"completed", "failed"} /\ resp.code # "llm_unavailable"
              /\ resp.reason = "none"
      BY <1>4, ExecutionEndsReplies DEF WorkflowInv, WorkflowTypeOK
    <2>2. /\ \A d \in Requests \ {r} : stage'[d] = stage[d] /\ response'[d] = response[d]
          /\ WorkflowTypeOK'
          /\ stage'[r] = "replied" /\ response'[r] = resp
      BY <2>1 DEF WorkflowInv, WorkflowTypeOK, Reply, Stages
    <2>3. Tells(r)'
      <3>1. CASE resp.status = "completed"
        BY <1>1, <2>1, <2>2, <3>1 DEF Tells, AcceptedSqls, RowsAskedFor
      <3>2. CASE resp.status = "failed"
        BY <2>1, <2>2, <3>2 DEF Tells
      <3> QED BY <2>1, <3>1, <3>2
    <2>4. QuestionInv(r)'
      BY <2>2, <2>3 DEF QuestionInv, BeforeExecution
    <2> QED BY <1>2, <2>2, <2>4
  <1> QED BY <1>3, <1>4

(* The guardrail refuses the SQL, or its execution starts.                 *)
LEMMA SqlAnsweredKeeps ==
    ASSUME WorkflowInv, NEW r \in Requests, SqlAnswered(r)
    PROVE  WorkflowInv'
  <1>1. PICK s \in LlmSqls :
          /\ sql' = [sql EXCEPT ![r] = s]
          /\ \/ /\ s \notin AcceptedSqls
                /\ Rejected(r, "sql_rejected")
                /\ UNCHANGED managerVars
             \/ /\ s \in AcceptedSqls
                /\ Manager!Invoke(r)
                /\ IF state'[r] = "done"
                   THEN ExecutionEnds(r)
                   ELSE stage' = [stage EXCEPT ![r] = "execute"] /\ UNCHANGED response
    BY DEF SqlAnswered
  <1>2. /\ stage[r] = "sql" /\ UNCHANGED llmVars
        /\ sql' \in [Requests -> LlmSqls \cup {NoSql}]
        /\ \A d \in Requests \ {r} : sql'[d] = sql[d]
        /\ sql'[r] = s
    BY <1>1 DEF SqlAnswered, WorkflowInv, WorkflowTypeOK
  <1>3. CASE s \notin AcceptedSqls
    BY <1>1, <1>2, <1>3, ReplyWithoutKeeps DEF Rejected, Codes, BeforeExecution
  <1>4. CASE s \in AcceptedSqls
    <2>1. outcome[r] = "none"
      BY <1>2 DEF WorkflowInv, QuestionInv, BeforeExecution, ManagerProofs!SerialInv,
                  ManagerProofs!RequestInv
    <2>2. outcome'[r] # "result"
      BY <1>1, <1>4, <2>1
      DEF Manager!Invoke, Manager!InvokeRefused, Manager!InvokeAcquires, Manager!InvokeWaits,
          Manager!BeginCall, Manager!EndCall, WorkflowInv, ManagerProofs!SerialInv,
          ManagerProofs!TypeOK
    <2> QED BY <1>1, <1>2, <1>4, <2>2, ExecutionKeeps
  <1> QED BY <1>3, <1>4

(* The question goes on in the manager.                                    *)
LEMMA GoOnKeeps ==
    ASSUME WorkflowInv, NEW r \in Requests,
           \/ LockAcquired(r) \/ ToolReturned(r) \/ CallTimedOut(r) \/ ConnectionLost(r)
    PROVE  WorkflowInv'
  <1>1. /\ GoOn(r)
        /\ \/ Manager!Acquire(r) \/ Manager!Return(r)
           \/ Manager!CallTimeout(r) \/ Manager!ConnectionClosed(r)
    BY DEF LockAcquired, ToolReturned, CallTimedOut, ConnectionLost
  <1>2. /\ stage[r] = "execute" /\ UNCHANGED llmVars /\ sql' = sql
        /\ sql \in [Requests -> LlmSqls \cup {NoSql}] /\ sql[r] \in AcceptedSqls
    BY <1>1 DEF GoOn, WorkflowInv, WorkflowTypeOK, QuestionInv
  <1>3. IF state'[r] = "done"
        THEN ExecutionEnds(r)
        ELSE stage' = [stage EXCEPT ![r] = "execute"] /\ UNCHANGED response
    BY <1>1, <1>2 DEF GoOn, WorkflowInv, WorkflowTypeOK
  <1> QED BY <1>1, <1>2, <1>3, ExecutionKeeps

(* Steps that are nobody's question: the server's, and of the settings.    *)
LEMMA EnvironmentKeeps ==
    ASSUME WorkflowInv, ServerStep \/ EditSettings
    PROVE  WorkflowInv'
  <1>1. /\ ManagerProofs!SerialInv'
        /\ state' = state
        /\ \A d \in Requests : server[d] = "finished" =>
              server'[d] = "finished" /\ reply'[d] = reply[d]
    <2>1. CASE ServerStep
      BY <2>1, ServerStepFrame DEF ServerStep, WorkflowInv
    <2>2. CASE EditSettings
      BY <2>2 DEF EditSettings, managerVars, WorkflowInv, ManagerProofs!SerialInv,
                  ManagerProofs!TypeOK, ManagerProofs!QueueInv, ManagerProofs!LockInv,
                  ManagerProofs!RequestInv, ManagerProofs!OutcomeTellsServer,
                  ManagerProofs!OneDiscovery, ManagerProofs!AtServer
    <2> QED BY <2>1, <2>2
  <1>2. WorkflowTypeOK' /\ UNCHANGED <<stage, response, sql, llmClient>>
    BY DEF WorkflowInv, WorkflowTypeOK, ServerStep, EditSettings, llmVars
  <1>3. ASSUME NEW d \in Requests
        PROVE  QuestionInv(d)'
    <2>1. Untouched(d)
      BY <1>1, <1>2 DEF Untouched
    <2> QED BY <2>1, UntouchedKeeps DEF WorkflowInv
  <1> QED BY <1>1, <1>2, <1>3 DEF WorkflowInv

(* Every step keeps the invariant.                                         *)
LEMMA StepWorkflowInv == WorkflowInv /\ [Next]_vars => WorkflowInv'
  <1> SUFFICES ASSUME WorkflowInv, [Next]_vars
               PROVE  WorkflowInv'
    OBVIOUS
  <1>1. ASSUME NEW r \in Requests, Step(r)
        PROVE  WorkflowInv'
    BY <1>1, GateStepKeeps, SqlAnsweredKeeps, GoOnKeeps DEF Step
  <1>2. CASE UNCHANGED vars
    <2>1. /\ WorkflowTypeOK' /\ \A d \in Requests : Untouched(d)
      BY <1>2 DEF vars, llmVars, managerVars, WorkflowInv, WorkflowTypeOK, Untouched
    <2>2. ManagerProofs!SerialInv'
      BY <1>2 DEF vars, managerVars, WorkflowInv, ManagerProofs!SerialInv,
                  ManagerProofs!TypeOK, ManagerProofs!QueueInv, ManagerProofs!LockInv,
                  ManagerProofs!RequestInv, ManagerProofs!OutcomeTellsServer,
                  ManagerProofs!OneDiscovery, ManagerProofs!AtServer
    <2> QED BY <2>1, <2>2, UntouchedKeeps DEF WorkflowInv
  <1> QED BY <1>1, <1>2, EnvironmentKeeps DEF Next

(* The inductive invariant holds in every reachable state.                 *)
THEOREM WorkflowInvariant == Spec => []WorkflowInv
  BY InitWorkflowInv, StepWorkflowInv, PTL DEF Spec

(* Every variable of the workflow and of the manager keeps its type.       *)
THEOREM WorkflowTypeCorrect == Spec => []TypeOK
  <1>1. WorkflowInv => TypeOK
    BY DEF WorkflowInv, WorkflowTypeOK, TypeOK, ManagerProofs!SerialInv, ManagerProofs!TypeOK,
           ManagerProofs!CallStates, ManagerProofs!Outcomes, ManagerProofs!TransportErrors,
           ManagerProofs!ToolErrors, ManagerProofs!Abandoned, ManagerProofs!ServerStates,
           ManagerProofs!Replies, Manager!TypeOK, Manager!CallStates, Manager!Outcomes,
           Manager!TransportErrors, Manager!ToolErrors, Manager!Abandoned,
           Manager!ServerStates, Manager!Replies
  <1> QED BY <1>1, WorkflowInvariant, PTL

(* The answer of every question tells what happened to the database.       *)
THEOREM ResponsesAreTruthful == Spec => []ResponseTellsServer
  <1>1. WorkflowInv => ResponseTellsServer
    <2> SUFFICES ASSUME WorkflowInv, NEW r \in Requests, Answered(r)
                 PROVE  /\ response[r].status = "completed" =>
                              /\ server[r] = "finished" /\ reply[r] = "valid"
                              /\ sql[r] \in AcceptedSqls
                        /\ \/ response[r].status \in {"clarification_required", "rejected"}
                           \/ response[r].code = "llm_unavailable"
                           => server[r] = "none"
      BY DEF ResponseTellsServer
    <2>1. Tells(r)
      BY DEF WorkflowInv, QuestionInv, Answered
    <2>2. state[r] = "idle" => server[r] = "none"
      BY DEF WorkflowInv, ManagerProofs!SerialInv, ManagerProofs!RequestInv
    <2> QED BY <2>1, <2>2 DEF Tells
  <1> QED BY <1>1, WorkflowInvariant, PTL

(* After its first LLM call no question fails on the settings.             *)
THEOREM ConfigurationIsSettled == Spec => []ConfigurationSettledAtStart
  <1>1. WorkflowInv => ConfigurationSettledAtStart
    BY DEF WorkflowInv, QuestionInv, Answered, Tells, ConfigurationSettledAtStart
  <1> QED BY <1>1, WorkflowInvariant, PTL

(* No completed answer is truncated, whatever SQL the LLM writes and       *)
(* however many rows match.                                                *)
THEOREM NothingIsTruncated == Spec => []NeverTruncated
  <1>1. WorkflowInv => NeverTruncated
    <2> SUFFICES ASSUME WorkflowInv, NEW r \in Requests, response[r].status = "completed"
                 PROVE  ~response[r].truncated /\ response[r].row_count <= RowsAskedFor(sql[r])
      BY DEF NeverTruncated
    <2>1. response[r] # NoResponse
      BY DEF NoResponse
    <2> QED BY <2>1 DEF WorkflowInv, QuestionInv, Tells
  <1> QED BY <1>1, WorkflowInvariant, PTL

(* A gate never completes a question.                                      *)
LEMMA GateStepCompletesNothing ==
    ASSUME WorkflowInv, NEW r \in Requests, NEW q \in Requests,
           \/ Ask(q) \/ AskInvalid(q) \/ LlmFails(q) \/ LlmBreaks(q)
           \/ IntentNotJson(q) \/ IntentAnswered(q)
           \/ PlanNotJson(q) \/ PlanAnswered(q),
           response'[r].status = "completed"
    PROVE  response'[r] = response[r]
  <1>1. \/ UNCHANGED response
        \/ \E status \in {"clarification_required", "rejected", "failed"},
              code \in Codes, reason \in {"none", "configuration_error", "call_failed"} :
                 ReplyWithout(q, status, code, reason)
    BY DEF Ask, AskInvalid, LlmFails, LlmBreaks, IntentNotJson, IntentAnswered, PlanNotJson,
           PlanAnswered, AskLlm, LlmUnavailable, Rejected, Failed, Codes
  <1>2. ASSUME NEW status \in {"clarification_required", "rejected", "failed"},
               NEW code, NEW reason, ReplyWithout(q, status, code, reason)
        PROVE  response'[r] = response[r]
    <2>1. r = q => response'[r].status = status
      BY <1>2 DEF ReplyWithout, Reply, WorkflowInv, WorkflowTypeOK
    <2>2. r # q => response'[r] = response[r]
      BY <1>2 DEF ReplyWithout, Reply, WorkflowInv, WorkflowTypeOK
    <2> QED BY <2>1, <2>2
  <1> QED BY <1>1, <1>2

(* An execution completes its question only by a result, for which the     *)
(* call was still under way.                                               *)
LEMMA ExecutionCompletesAwaited ==
    ASSUME WorkflowInv, NEW r \in Requests, NEW q \in Requests,
           \/ SqlAnswered(q) \/ LockAcquired(q) \/ ToolReturned(q)
           \/ CallTimedOut(q) \/ ConnectionLost(q),
           response'[r].status = "completed", response'[r] # response[r]
    PROVE  r = q /\ state[r] = "calling"
  <1>0. /\ stage[q] \in {"sql", "execute"}
        /\ outcome[q] = "none"
    BY NoCallIsNoRequest
    DEF SqlAnswered, LockAcquired, ToolReturned, CallTimedOut, ConnectionLost, GoOn,
        WorkflowInv, QuestionInv, BeforeExecution, ManagerProofs!SerialInv,
        ManagerProofs!RequestInv
  <1>1. ASSUME NEW resp, Reply(q, resp)
        PROVE  r = q /\ response'[r] = resp
    BY <1>1 DEF Reply, WorkflowInv, WorkflowTypeOK
  <1>2. ~Rejected(q, "sql_rejected")
    BY <1>1 DEF Rejected, ReplyWithout
  <1>3. ExecutionEnds(q)
    BY <1>2 DEF SqlAnswered, LockAcquired, ToolReturned, CallTimedOut, ConnectionLost, GoOn
  <1>4. outcome'[q] = "result" /\ r = q
    <2>1. CASE ~(outcome'[q] = "result")
      BY <1>1, <1>3, <2>1 DEF ExecutionEnds, Failed, ReplyWithout
    <2>2. CASE outcome'[q] = "result"
      BY <1>1, <1>3, <2>2 DEF ExecutionEnds, Failed, ReplyWithout
    <2> QED BY <2>1, <2>2
  <1>5. Manager!Return(q)
    BY <1>0, <1>2, <1>4
    DEF SqlAnswered, LockAcquired, ToolReturned, CallTimedOut, ConnectionLost,
        Manager!Invoke, Manager!InvokeRefused, Manager!InvokeAcquires, Manager!InvokeWaits,
        Manager!Acquire, Manager!CallTimeout, Manager!ConnectionClosed, Manager!BeginCall,
        Manager!EndCall, WorkflowInv, ManagerProofs!SerialInv, ManagerProofs!TypeOK
  <1> QED BY <1>4, <1>5 DEF Manager!Return

(* Once the session is given up, no question completes any more: a call    *)
(* that is still awaited would hold the lock.                              *)
THEOREM LossIsFinal == Spec => NoCompletionAfterLoss
  <1> DEFINE NoneCompletes ==
          unavailable => \A r \in Requests :
              Answered(r)' /\ response'[r].status = "completed" => Answered(r)
  <1>1. WorkflowInv /\ [Next]_vars => [NoneCompletes]_vars
    <2> SUFFICES ASSUME WorkflowInv, Next, unavailable, NEW r \in Requests,
                        Answered(r)', response'[r].status = "completed", ~Answered(r)
                 PROVE  FALSE
      OBVIOUS
    <2>1. response'[r] # response[r]
      BY DEF Answered
    <2>2. ~(ServerStep \/ EditSettings)
      BY <2>1 DEF ServerStep, EditSettings
    <2>3. state[r] = "calling"
      BY <2>1, <2>2, GateStepCompletesNothing, ExecutionCompletesAwaited DEF Next, Step
    <2> QED BY <2>3, NoCallIsNoRequest
            DEF WorkflowInv, ManagerProofs!SerialInv, ManagerProofs!LockInv
  <1> QED BY <1>1, WorkflowInvariant, PTL DEF Spec, NoCompletionAfterLoss

-----------------------------------------------------------------------------
(* What the questions do to the manager.                                   *)

(* A step of a question is one step of its call, or none.                  *)
LEMMA QuestionStepIsManagerStep ==
    ASSUME NEW r \in Requests, Step(r)
    PROVE  ManagerProofs!ClientStep(r) \/ UNCHANGED managerVars
  <1>1. CASE UNCHANGED managerVars
    BY <1>1
  <1>2. CASE \/ Manager!Invoke(r) \/ Manager!Acquire(r) \/ Manager!Return(r)
             \/ Manager!CallTimeout(r) \/ Manager!ConnectionClosed(r)
    BY <1>2, ManagerStepIsClientStep
  <1> QED BY <1>1, <1>2 DEF Step, Ask, AskInvalid, LlmFails, LlmBreaks, IntentNotJson,
             IntentAnswered, PlanNotJson, PlanAnswered, SqlAnswered, LockAcquired,
             ToolReturned, CallTimedOut, ConnectionLost

(* However the questions interleave, and however the LLM answers them,     *)
(* their tasks use MCPClientManager as it may be used: each makes at most  *)
(* one call, and between the gates of agent_service nothing else touches   *)
(* the manager.  All that is proved of it therefore holds in the backend.  *)
THEOREM WorkflowImplementsManager == Spec => ManagerProofs!Spec
  <1>1. Init => ManagerProofs!Init
    BY DEF Init, Manager!Init, ManagerProofs!Init
  <1>2. [Next]_vars => [ManagerProofs!Next]_ManagerProofs!vars
    <2> SUFFICES ASSUME [Next]_vars
                 PROVE  ManagerProofs!Next \/ UNCHANGED managerVars
      BY DEF managerVars, ManagerProofs!vars, ManagerProofs!clientVars, ManagerProofs!serverVars
    <2>1. ASSUME NEW r \in Requests, Step(r)
          PROVE  ManagerProofs!Next \/ UNCHANGED managerVars
      BY <2>1, QuestionStepIsManagerStep DEF ManagerProofs!Next
    <2>2. CASE ServerStep
      BY <2>2 DEF ServerStep, ManagerProofs!Next,
           Manager!ServerExit, Manager!ServerStep, Manager!ServerStart, Manager!ServerAnswer,
           Manager!DropLateAnswer, Manager!AtServer, Manager!clientVars, Manager!Replies,
           ManagerProofs!ServerExit, ManagerProofs!ServerStep, ManagerProofs!ServerStart,
           ManagerProofs!ServerAnswer, ManagerProofs!DropLateAnswer, ManagerProofs!AtServer,
           ManagerProofs!clientVars, ManagerProofs!Replies
    <2>3. CASE EditSettings
      BY <2>3 DEF EditSettings
    <2>4. CASE UNCHANGED vars
      BY <2>4 DEF vars
    <2> QED BY <2>1, <2>2, <2>3, <2>4 DEF Next
  <1> QED BY <1>1, <1>2, PTL DEF Spec, ManagerProofs!Spec

(* Seen from the questions, the MCP session is the serial, fail-stop       *)
(* channel of ToolChannel: one tool call in flight, and after a loss       *)
(* nothing but refusals.                                                   *)
THEOREM WorkflowImplementsToolChannel == Spec => ManagerProofs!ImplementsToolChannel
  BY WorkflowImplementsManager, NoCallIsNoRequest, ManagerProofs!ManagerImplementsToolChannel, PTL
=============================================================================
