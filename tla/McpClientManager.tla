-------------------------- MODULE McpClientManager --------------------------
(***************************************************************************)
(* MCPClientManager (app/mcp/client_manager.py): the only way the backend  *)
(* reaches the MCP server subprocess.  Every request handler is a task of  *)
(* one asyncio loop, so the code between two awaits is one atomic action.  *)
(*                                                                         *)
(* A call is one invocation of inspect_schema or execute_readonly_query;   *)
(* both run the same _call_tool and _parse_result, so a call is known by   *)
(* its identity alone (in the code, by its correlation id).                *)
(*                                                                         *)
(* The MCP SDK session, the stdio pipes and the server subprocess are      *)
(* external: the server starts every request it reads at once, each tool   *)
(* in a worker thread of its own (mcp_server/tools), and goes on executing *)
(* a request whose caller has given up.                                    *)
(***************************************************************************)
EXTENDS Naturals, Sequences

CONSTANTS Calls,   \* the tool calls the request handlers make
          NoCall   \* the lock's holder while it is free

ASSUME NoCallAssumption == NoCall \notin Calls

VARIABLES
    state,        \* [Calls -> CallStates]: where the calling task is
    outcome,      \* [Calls -> Outcomes]: what the call returned or raised
    lock,         \* holder of self._lock
    waiters,      \* tasks queued on self._lock, oldest first
    unavailable,  \* self._unavailable
    server,       \* [Calls -> ServerStates]: the request, seen from the server
    reply,        \* [Calls -> Replies \cup {"none"}]: the server's answer
    serverUp      \* the subprocess runs and its pipes are open

clientVars == <<state, outcome, lock, waiters, unavailable>>
serverVars == <<server, reply, serverUp>>
vars == <<clientVars, serverVars>>

CallStates == {"idle", "waiting", "calling", "done"}

(* "none": not received; "sent": in the pipe; "running": in a tool thread; *)
(* "answered": its answer is in the pipe; "finished": nothing is left.     *)
ServerStates == {"none", "sent", "running", "answered", "finished"}

(* What the session can hand back: a JSON-RPC error, a result that the SDK *)
(* itself refuses, an isError result with or without one of the            *)
(* _TIMEOUT_SAFE_PHRASES, a result without structuredContent or that the   *)
(* pydantic model refuses, a result that conforms.                         *)
Replies == {"rpc_error", "sdk_refuses", "error_timeout", "error_other",
            "malformed", "valid"}

(* The request may or may not have been executed.                          *)
Abandoned == {"call_timeout", "connection_closed"}
TransportErrors == {"unavailable"} \cup Abandoned
ToolErrors == {"tool_protocol_error", "tool_timeout", "tool_error",
               "invalid_result_contract"}

(* "unclassified" is an exception that no except clause of the manager     *)
(* names and that propagates as it is.                                     *)
Outcomes == {"none", "result", "unclassified"} \cup TransportErrors \cup ToolErrors

-----------------------------------------------------------------------------
(* Mutant of ParseResult: the mapping of one reply is missing.             *)
ParseResultKeepsText(r) ==
    IF r = "error_other" THEN "error_other" ELSE "result"

(* The except clauses of _call_tool that concern an answer, then           *)
(* _parse_result with _classify_tool_error.                                *)
ParseResult(r) ==
    [rpc_error     |-> "tool_protocol_error",
     sdk_refuses   |-> "unclassified",
     error_timeout |-> "tool_timeout",
     error_other   |-> "tool_error",
     malformed     |-> "invalid_result_contract",
     valid         |-> "result"][r]

Init ==
    /\ state = [c \in Calls |-> "idle"]
    /\ outcome = [c \in Calls |-> "none"]
    /\ lock = NoCall
    /\ waiters = <<>>
    /\ unavailable = FALSE
    /\ server = [c \in Calls |-> "none"]
    /\ reply = [c \in Calls |-> "none"]
    /\ serverUp = TRUE

(* The call ends with outcome o: it returns or raises to the handler.      *)
EndCall(c, o) ==
    /\ state' = [state EXCEPT ![c] = "done"]
    /\ outcome' = [outcome EXCEPT ![c] = o]

(* Holding the lock and past both checks: session.call_tool writes the     *)
(* request and the task awaits the answer.  A request written to a dead    *)
(* server reaches nobody.                                                  *)
BeginCall(c) ==
    /\ state' = [state EXCEPT ![c] = "calling"]
    /\ lock' = c
    /\ server' = IF serverUp THEN [server EXCEPT ![c] = "sent"] ELSE server
    /\ UNCHANGED <<outcome, unavailable, reply, serverUp>>

(* _call_tool up to its first suspension.  asyncio.Lock lets a task in at  *)
(* once only when the lock is free and nobody queues for it.               *)
InvokeRefused(c) ==
    /\ unavailable
    /\ EndCall(c, "unavailable")
    /\ UNCHANGED <<lock, waiters, unavailable, serverVars>>

InvokeAcquires(c) ==
    /\ ~unavailable
    /\ lock = NoCall /\ waiters = <<>>
    /\ BeginCall(c)
    /\ UNCHANGED waiters

InvokeWaits(c) ==
    /\ ~unavailable
    /\ lock # NoCall \/ waiters # <<>>
    /\ state' = [state EXCEPT ![c] = "waiting"]
    /\ waiters' = Append(waiters, c)
    /\ UNCHANGED <<outcome, lock, unavailable, serverVars>>

Invoke(c) ==
    /\ state[c] = "idle"
    /\ InvokeRefused(c) \/ InvokeAcquires(c) \/ InvokeWaits(c)

(* Mutant of Acquire: the second look at the flag is missing.              *)
AcquireWithoutRecheck(c) ==
    /\ lock = NoCall
    /\ waiters # <<>> /\ c = Head(waiters)
    /\ waiters' = Tail(waiters)
    /\ BeginCall(c)

(* Mutant of Acquire: the task that is refused keeps the lock.             *)
AcquireKeepsLock(c) ==
    /\ lock = NoCall
    /\ waiters # <<>> /\ c = Head(waiters)
    /\ waiters' = Tail(waiters)
    /\ \/ /\ unavailable
          /\ EndCall(c, "unavailable")
          /\ lock' = c
          /\ UNCHANGED <<unavailable, serverVars>>
       \/ /\ ~unavailable
          /\ BeginCall(c)

(* The oldest waiter wakes up holding the lock and checks the flag again:  *)
(* it may have been set while the task was queued.                         *)
Acquire(c) ==
    /\ lock = NoCall
    /\ waiters # <<>> /\ c = Head(waiters)
    /\ waiters' = Tail(waiters)
    /\ \/ /\ unavailable
          /\ EndCall(c, "unavailable")
          /\ UNCHANGED <<lock, unavailable, serverVars>>
       \/ /\ ~unavailable
          /\ BeginCall(c)

(* The answer arrived before the timer: the lock is released, the result   *)
(* is parsed.  No await lies between the two.                              *)
Return(c) ==
    /\ state[c] = "calling" /\ server[c] = "answered"
    /\ EndCall(c, ParseResult(reply[c]))
    /\ lock' = NoCall
    /\ server' = [server EXCEPT ![c] = "finished"]
    /\ UNCHANGED <<waiters, unavailable, reply, serverUp>>

(* Mutant of CallTimeout: the session stays in use after a timeout.        *)
CallTimeoutKeepsSession(c) ==
    /\ state[c] = "calling"
    /\ EndCall(c, "call_timeout")
    /\ lock' = NoCall
    /\ UNCHANGED <<waiters, unavailable, serverVars>>

(* Mutant of CallTimeout: reported like a timeout that the tool reports.   *)
CallTimeoutAsToolTimeout(c) ==
    /\ state[c] = "calling"
    /\ EndCall(c, "tool_timeout")
    /\ unavailable' = TRUE
    /\ lock' = NoCall
    /\ UNCHANGED <<waiters, serverVars>>

(* wait_for's timer.  It may fire although the answer is already there: a  *)
(* task that is cancelled before it resumes loses what it was woken for.   *)
CallTimeout(c) ==
    /\ state[c] = "calling"
    /\ EndCall(c, "call_timeout")
    /\ unavailable' = TRUE
    /\ lock' = NoCall
    /\ UNCHANGED <<waiters, serverVars>>

(* Mutant of ConnectionClosed: the flag is forgotten.                      *)
ConnectionClosedUnnoticed(c) ==
    /\ state[c] = "calling"
    /\ ~serverUp /\ server[c] # "answered"
    /\ EndCall(c, "connection_closed")
    /\ lock' = NoCall
    /\ UNCHANGED <<waiters, unavailable, serverVars>>

(* CONNECTION_CLOSED from the session, or a closed stream or pipe.  An     *)
(* answer still in the pipe is read before the end of the stream.          *)
ConnectionClosed(c) ==
    /\ state[c] = "calling"
    /\ ~serverUp /\ server[c] # "answered"
    /\ EndCall(c, "connection_closed")
    /\ unavailable' = TRUE
    /\ lock' = NoCall
    /\ UNCHANGED <<waiters, serverVars>>

-----------------------------------------------------------------------------
(* The server subprocess and the SDK's receive loop.                       *)

ServerStart(c) ==
    /\ serverUp /\ server[c] = "sent"
    /\ server' = [server EXCEPT ![c] = "running"]
    /\ UNCHANGED <<clientVars, reply, serverUp>>

ServerAnswer(c) ==
    /\ serverUp /\ server[c] = "running"
    /\ server' = [server EXCEPT ![c] = "answered"]
    /\ \E r \in Replies : reply' = [reply EXCEPT ![c] = r]
    /\ UNCHANGED <<clientVars, serverUp>>

(* An answer whose request id nobody waits for any more is dropped.        *)
DropLateAnswer(c) ==
    /\ state[c] = "done" /\ server[c] = "answered"
    /\ server' = [server EXCEPT ![c] = "finished"]
    /\ UNCHANGED <<clientVars, reply, serverUp>>

AtServer(c) == server[c] \in {"sent", "running"}

(* The subprocess dies with its unfinished work.                           *)
ServerExit ==
    /\ serverUp
    /\ serverUp' = FALSE
    /\ server' = [c \in Calls |-> IF AtServer(c) THEN "finished" ELSE server[c]]
    /\ UNCHANGED <<clientVars, reply>>

Terminating ==
    /\ \A c \in Calls : state[c] = "done"
    /\ UNCHANGED vars

ClientStep(c) ==
    Invoke(c) \/ Acquire(c) \/ Return(c) \/ CallTimeout(c) \/ ConnectionClosed(c)

ServerStep(c) == ServerStart(c) \/ ServerAnswer(c) \/ DropLateAnswer(c)

Next ==
    \/ \E c \in Calls : ClientStep(c) \/ ServerStep(c)
    \/ ServerExit
    \/ Terminating

Spec == Init /\ [][Next]_vars

(* The event loop runs every ready task and fires every due timer; nothing *)
(* is assumed of the server, which may hang, nor of who asks a question.   *)
Fairness ==
    \A c \in Calls : WF_vars(Acquire(c)) /\ WF_vars(CallTimeout(c))

FairSpec == Spec /\ Fairness
-----------------------------------------------------------------------------
(* Every variable has its type.                                            *)
TypeOK ==
    /\ state \in [Calls -> CallStates]
    /\ outcome \in [Calls -> Outcomes]
    /\ lock \in Calls \cup {NoCall}
    /\ waiters \in Seq(Calls)
    /\ unavailable \in BOOLEAN
    /\ server \in [Calls -> ServerStates]
    /\ reply \in [Calls -> Replies \cup {"none"}]
    /\ serverUp \in BOOLEAN

(* At most one tool call is at the server at any time.  The server would   *)
(* run two at once and does not stop the one whose caller timed out, so    *)
(* this rests on the lock, on the flag that every abandoned call sets and  *)
(* on the second check of it in _call_tool.                                *)
ServerSerial ==
    \A c, d \in Calls : AtServer(c) /\ AtServer(d) => c = d

(* What a call reports is true of the server: MCPTransportError            *)
(* "unavailable" means that the request was never sent, and a result or an *)
(* error of the tool that the server is done with it.  Only call_timeout   *)
(* and connection_closed leave it open.                                    *)
OutcomeTellsServer ==
    \A c \in Calls :
        /\ outcome[c] = "unavailable" => server[c] = "none"
        /\ outcome[c] \in {"result", "unclassified"} \cup ToolErrors
              => server[c] = "finished"

(* One call finds the session broken, after up to                          *)
(* MCP_CALL_TIMEOUT_SECONDS; every call after it, the queued ones          *)
(* included, is refused at once.                                           *)
OneDiscovery ==
    \A c, d \in Calls :
        /\ outcome[c] \in Abandoned
        /\ outcome[d] \in Abandoned
        => c = d

(* Every call ends, whatever the server does: the handler that awaits      *)
(* _call_tool is never stuck behind a hanging tool or behind the lock.     *)
EveryCallEnds == \A c \in Calls : state[c] # "idle" ~> state[c] = "done"

(* A call that waits for a dead server makes the manager unavailable.      *)
DeathIsNoticed ==
    \A c \in Calls :
        state[c] = "calling" /\ ~serverUp /\ server[c] # "answered" ~> unavailable
-----------------------------------------------------------------------------
(* The manager as a ToolChannel.                                           *)
AnswerOf(o) ==
    IF o = "none" THEN "none"
    ELSE IF o = "unavailable" THEN "refused"
    ELSE IF o \in Abandoned THEN "unknown"
    ELSE "settled"

InFlight == {c \in Calls : state[c] = "calling" \/ AtServer(c)}

Channel == INSTANCE ToolChannel
    WITH inFlight <- InFlight,
         broken   <- unavailable,
         answer   <- [c \in Calls |-> AnswerOf(outcome[c])]

(* MCPClientManager implements the serial, fail-stop channel.              *)
ImplementsToolChannel == Channel!Spec

-----------------------------------------------------------------------------
(* The inductive invariant behind the theorems of McpClientManagerProofs.  *)
(* The queue holds the waiting tasks, each once.                           *)
QueueInv ==
    /\ \A i \in 1..Len(waiters) : state[waiters[i]] = "waiting"
    /\ \A i, j \in 1..Len(waiters) : waiters[i] = waiters[j] => i = j

(* The lock is held by the one task that awaits an answer, and by nobody   *)
(* once the manager is unavailable.                                        *)
LockInv ==
    /\ \A c \in Calls : state[c] = "calling" <=> lock = c
    /\ unavailable => lock = NoCall

(* A request is at the server only while it is awaited or if its caller    *)
(* gave up, and then the flag is set.                                      *)
RequestInv ==
    \A c \in Calls :
        /\ outcome[c] = "none" <=> state[c] # "done"
        /\ state[c] \in {"idle", "waiting"} => server[c] = "none"
        /\ AtServer(c) /\ state[c] = "done" => outcome[c] \in Abandoned
        /\ outcome[c] \in Abandoned => unavailable
        /\ server[c] = "answered" => reply[c] \in Replies

SerialInv ==
    TypeOK /\ QueueInv /\ LockInv /\ RequestInv /\ OutcomeTellsServer /\ OneDiscovery
=============================================================================
