---------------------------- MODULE ToolExecution ----------------------------
(***************************************************************************)
(* What happens behind a request of McpClientManager, and how long it      *)
(* takes: the tools of the MCP server (mcp_server/tools), the executor     *)
(* (readonly_query_executor.py) and the connection to the target database  *)
(* (mcp_server/db.py), against the timer of the call.                      *)
(*                                                                         *)
(* Every step of the manager is conjoined with what the server and the     *)
(* clocks do in it, so that a behaviour of TimedSpec is one of the         *)
(* manager's Spec.  Time is counted in seconds; Tick is refused while a    *)
(* timer is due.  The driver, the database and the network are external:   *)
(* a connect or a statement takes any time up to its limit.                *)
(***************************************************************************)
EXTENDS McpClientManager, FiniteSets

CONSTANTS
    Requests,         \* the arguments calls are made with
    CallLimit,        \* MCP_CALL_TIMEOUT_SECONDS
    ConnectLimit,     \* CONNECT_TIMEOUT_SECONDS
    InspectionLimit,  \* SCHEMA_INSPECTION_TIMEOUT_SECONDS
    MaxQueryTimeout,  \* MAX_QUERY_TIMEOUT_SECONDS
    MaxReturnedRows,  \* MAX_MAXIMUM_RETURNED_ROWS
    Latency,          \* the longest a pipe or a thread keeps a request or an answer
    MaxRows           \* a statement finds at most this many rows

Tools == {"inspect_schema", "execute_readonly_query"}

(* select: the SQL passes _validate_sql.  inspect_schema ignores all but   *)
(* the tool.                                                               *)
RequestType == [tool : Tools, timeout : Nat, rows : Nat, select : BOOLEAN]

ASSUME TimingAssumption ==
    /\ Requests \subseteq RequestType
    /\ {CallLimit, ConnectLimit, InspectionLimit, MaxQueryTimeout,
        MaxReturnedRows, Latency, MaxRows} \subseteq Nat

VARIABLES
    request,     \* [Calls -> Requests]: the arguments of the call
    thread,      \* [Calls -> ThreadStates]: the worker thread of the tool
    statement,   \* [Calls -> 0..4]: the statement the thread executes
    connection,  \* [Calls -> BOOLEAN]: the thread's connection is open
    ending,      \* [Calls -> Endings]: how the work of the thread ended
    page,        \* [Calls -> Pages]: the rows found and returned
    age,         \* [Calls -> Nat]: seconds since the request in flight was written
    busy         \* [Calls -> Nat]: seconds the request spent where it is now

threadVars == <<thread, statement, connection, ending, page>>
timedVars == <<vars, request, threadVars, age, busy>>

ThreadStates == {"none", "connecting", "querying", "closing", "ended"}

(* What pyodbc.Error a statement raises: the driver's own timer, another   *)
(* SQLSTATE of a timeout, an error whose message has the word timeout, any *)
(* other.                                                                  *)
DriverErrors == {"HYT00", "HYT01", "says_timeout", "other"}
Endings == {"none", "refused", "no_connection", "rows"} \cup DriverErrors

Pages == [found : 0..MaxRows, count : 0..MaxRows, truncated : BOOLEAN]
NoPage == [found |-> 0, count |-> 0, truncated |-> FALSE]

-----------------------------------------------------------------------------
(* _validate_input and _validate_sql; inspect_schema validates nothing.    *)
ValidInput(r) ==
    \/ r.tool = "inspect_schema"
    \/ /\ 1 <= r.timeout /\ r.timeout <= MaxQueryTimeout
       /\ 1 <= r.rows /\ r.rows <= MaxReturnedRows
       /\ r.select

(* One statement, or the four catalog queries, each with connection.timeout *)
(* as its limit.                                                           *)
Statements(r) == IF r.tool = "inspect_schema" THEN 4 ELSE 1
StatementLimit(r) == IF r.tool = "inspect_schema" THEN InspectionLimit ELSE r.timeout

(* Mutant of IsTimeoutError: only the words of the message count.          *)
IsTimeoutErrorByWords(e) == e = "says_timeout"

IsTimeoutError(e) == e \in {"HYT00", "HYT01", "says_timeout"}

(* The message of the exception that leaves the tool.                      *)
Message(r, e) ==
    IF e \in DriverErrors /\ IsTimeoutError(e)
    THEN IF r.tool = "inspect_schema" THEN "Schema inspection timeout exceeded"
                                      ELSE "DB query timeout exceeded"
    ELSE "another message"

(* _TIMEOUT_SAFE_PHRASES of the manager.                                   *)
SafePhrases == {"DB query timeout exceeded", "Schema inspection timeout exceeded"}

(* What the manager reads: the tool's dict or its exception, as FastMCP    *)
(* renders them.                                                           *)
ReplyOf(r, e) ==
    IF e = "rows" THEN "valid"
    ELSE IF Message(r, e) \in SafePhrases THEN "error_timeout" ELSE "error_other"

Lesser(m, n) == IF m <= n THEN m ELSE n

(* Mutant of PageOf: one row fewer is fetched.                             *)
PageOfFetchExact(r, n) ==
    LET raw == Lesser(n, r.rows)
    IN  [found |-> n, count |-> Lesser(raw, r.rows), truncated |-> raw > r.rows]

(* execute asks for one row more than it returns; inspect_schema fetches   *)
(* all.                                                                    *)
PageOf(r, n) ==
    LET raw == Lesser(n, r.rows + 1)
    IN  IF r.tool = "inspect_schema"
        THEN [found |-> n, count |-> n, truncated |-> FALSE]
        ELSE [found |-> n, count |-> Lesser(raw, r.rows), truncated |-> raw > r.rows]

-----------------------------------------------------------------------------
(* Mutant of StayLimit: get_connection passes no timeout.                  *)
StayLimitWithoutLoginTimeout(c) ==
    IF thread[c] = "connecting" THEN CallLimit
    ELSE IF thread[c] = "querying" THEN StatementLimit(request[c])
    ELSE Latency

(* Mutant of StayLimit: connection.timeout is not set.                     *)
StayLimitWithoutQueryTimeout(c) ==
    IF thread[c] = "connecting" THEN ConnectLimit
    ELSE IF thread[c] = "querying" THEN CallLimit
    ELSE Latency

(* The longest a request stays where it is; the timers that enforce it are *)
(* pyodbc's login timeout and the query timeout of the connection.         *)
StayLimit(c) ==
    IF thread[c] = "connecting" THEN ConnectLimit
    ELSE IF thread[c] = "querying" THEN StatementLimit(request[c])
    ELSE Latency

TimedInit ==
    /\ Init
    /\ request \in [Calls -> Requests]
    /\ thread = [c \in Calls |-> "none"]
    /\ statement = [c \in Calls |-> 0]
    /\ connection = [c \in Calls |-> FALSE]
    /\ ending = [c \in Calls |-> "none"]
    /\ page = [c \in Calls |-> NoPage]
    /\ age = [c \in Calls |-> 0]
    /\ busy = [c \in Calls |-> 0]

(* The age of a request counts while it is in flight.                      *)
SameTime == age' = [c \in Calls |-> IF c \in InFlight' THEN age[c] ELSE 0]

(* The manager's side: its task and its lock, no thread moves.             *)
BackendStep(c) ==
    /\ Invoke(c) \/ Acquire(c) \/ Return(c) \/ ConnectionClosed(c) \/ DropLateAnswer(c)
    /\ UNCHANGED <<threadVars, busy>>

(* wait_for's timer, set when the request is written.                      *)
TimerFires(c) ==
    /\ age[c] = CallLimit
    /\ CallTimeout(c)
    /\ UNCHANGED <<threadVars, busy>>

(* The server reads the request and runs the tool in a thread, which       *)
(* validates its input and begins to connect.                              *)
StartTool(c) ==
    /\ ServerStart(c)
    /\ \/ /\ ValidInput(request[c])
          /\ thread' = [thread EXCEPT ![c] = "connecting"]
          /\ UNCHANGED ending
       \/ /\ ~ValidInput(request[c])
          /\ thread' = [thread EXCEPT ![c] = "ended"]
          /\ ending' = [ending EXCEPT ![c] = "refused"]
    /\ busy' = [busy EXCEPT ![c] = 0]
    /\ UNCHANGED <<statement, connection, page>>

(* Thread c goes on to state t.                                            *)
Goes(c, t) ==
    /\ thread' = [thread EXCEPT ![c] = t]
    /\ busy' = [busy EXCEPT ![c] = 0]

(* get_connection.                                                         *)
Connect(c) ==
    /\ thread[c] = "connecting"
    /\ Goes(c, "querying")
    /\ connection' = [connection EXCEPT ![c] = TRUE]
    /\ statement' = [statement EXCEPT ![c] = 1]
    /\ UNCHANGED <<ending, page>>

(* Mutant of ConnectFails: the driver's error leaves get_connection.       *)
ConnectFailsUnwrapped(c) ==
    /\ thread[c] = "connecting"
    /\ Goes(c, "ended")
    /\ ending' = [ending EXCEPT ![c] = "08001"]
    /\ UNCHANGED <<statement, connection, page>>

(* ConnectionError, its login timeout included, or TARGET_DB_ settings     *)
(* that no longer validate: they are read anew for each connection.        *)
ConnectFails(c) ==
    /\ thread[c] = "connecting"
    /\ Goes(c, "ended")
    /\ ending' = [ending EXCEPT ![c] = "no_connection"]
    /\ UNCHANGED <<statement, connection, page>>

(* A statement is executed and its rows are fetched.                       *)
NextStatement(c) ==
    /\ thread[c] = "querying" /\ statement[c] < Statements(request[c])
    /\ Goes(c, "querying")
    /\ statement' = [statement EXCEPT ![c] = @ + 1]
    /\ UNCHANGED <<connection, ending, page>>

LastStatement(c) ==
    /\ thread[c] = "querying" /\ statement[c] = Statements(request[c])
    /\ Goes(c, "closing")
    /\ ending' = [ending EXCEPT ![c] = "rows"]
    /\ \E n \in 0..MaxRows : page' = [page EXCEPT ![c] = PageOf(request[c], n)]
    /\ UNCHANGED <<statement, connection>>

(* Mutant of StatementRaises: the finally clause is missing.               *)
StatementRaisesLeaking(c) ==
    /\ thread[c] = "querying"
    /\ \E e \in DriverErrors :
        /\ e = "HYT00" => busy[c] = StatementLimit(request[c])
        /\ ending' = [ending EXCEPT ![c] = e]
    /\ Goes(c, "ended")
    /\ UNCHANGED <<statement, connection, page>>

(* The driver's timer ends a statement at its limit; any other error may   *)
(* end it before.                                                          *)
StatementRaises(c) ==
    /\ thread[c] = "querying"
    /\ \E e \in DriverErrors :
        /\ e = "HYT00" => busy[c] = StatementLimit(request[c])
        /\ ending' = [ending EXCEPT ![c] = e]
    /\ Goes(c, "closing")
    /\ UNCHANGED <<statement, connection, page>>

(* finally: connection.close().                                            *)
CloseConnection(c) ==
    /\ thread[c] = "closing"
    /\ thread' = [thread EXCEPT ![c] = "ended"]
    /\ connection' = [connection EXCEPT ![c] = FALSE]
    /\ UNCHANGED <<statement, ending, page, busy>>

ThreadStep(c) ==
    /\ \/ Connect(c) \/ ConnectFails(c)
       \/ NextStatement(c) \/ LastStatement(c) \/ StatementRaises(c)
       \/ CloseConnection(c)
    /\ UNCHANGED vars

(* The thread is over: the server writes its answer.                       *)
AnswerTool(c) ==
    /\ thread[c] = "ended"
    /\ ServerAnswer(c)
    /\ reply'[c] = ReplyOf(request[c], ending[c])
    /\ Goes(c, "none")
    /\ UNCHANGED <<statement, connection, ending, page>>

(* The threads and their connections end with the process.                 *)
ServerDies ==
    /\ ServerExit
    /\ thread' = [c \in Calls |-> "none"]
    /\ connection' = [c \in Calls |-> FALSE]
    /\ busy' = [c \in Calls |-> 0]
    /\ UNCHANGED <<statement, ending, page>>

(* A second passes, unless a timer is due or an answer can be read.        *)
Tick ==
    /\ InFlight # {}
    /\ \A c \in Calls :
        /\ AtServer(c) => busy[c] < StayLimit(c)
        /\ state[c] = "calling" => age[c] < CallLimit /\ server[c] # "answered"
    /\ age' = [c \in Calls |-> IF c \in InFlight THEN age[c] + 1 ELSE 0]
    /\ busy' = [c \in Calls |-> IF AtServer(c) THEN busy[c] + 1 ELSE 0]
    /\ UNCHANGED <<vars, threadVars, request>>

CallStep(c) ==
    BackendStep(c) \/ TimerFires(c) \/ StartTool(c) \/ ThreadStep(c) \/ AnswerTool(c)

TimedNext ==
    \/ /\ (\E c \in Calls : CallStep(c)) \/ ServerDies
       /\ SameTime
       /\ UNCHANGED request
    \/ Tick
    \/ Terminating /\ UNCHANGED timedVars

TimedSpec == TimedInit /\ [][TimedNext]_timedVars
-----------------------------------------------------------------------------
(* The variables of the tool and of the clocks have their types.           *)
TimedTypeOK ==
    /\ request \in [Calls -> Requests]
    /\ thread \in [Calls -> ThreadStates]
    /\ statement \in [Calls -> 0..4]
    /\ connection \in [Calls -> BOOLEAN]
    /\ ending \in [Calls -> Endings]
    /\ page \in [Calls -> Pages]
    /\ age \in [Calls -> Nat]
    /\ busy \in [Calls -> Nat]

(* The longest a request with arguments r is at the server.                *)
WorkLimit(r) == 2 * Latency + ConnectLimit + Statements(r) * StatementLimit(r)

(* A tool thread ends on its own: nobody can stop it, the manager's timer  *)
(* only abandons it, so the login timeout and the timeout of each          *)
(* statement are what bounds it (db.get_connection, connection.timeout).   *)
ToolsEndInTime == \A c \in Calls : AtServer(c) => age[c] <= WorkLimit(request[c])

(* A slow database is reported as such and costs one question only: when   *)
(* the connect and the statements leave room below the timeout of the      *)
(* call, the manager's timer fires only if the server is dead, and never   *)
(* closes the session over a query that is merely slow.                    *)
SlowDatabaseKeepsSession ==
    \A c \in Calls :
        outcome[c] = "call_timeout" /\ WorkLimit(request[c]) < CallLimit => ~serverUp

(* The target database serves at most one connection of the server, and    *)
(* none when no tool runs: every way out of a tool closes its own.         *)
ConnectionsReturned ==
    /\ Cardinality({c \in Calls : connection[c]}) <= 1
    /\ \A c \in Calls : connection[c] => AtServer(c)

(* The backend hears of a statement that the driver cut off as a timeout   *)
(* of the tool, whichever tool it was, and never hears of one otherwise:   *)
(* the two processes agree on what a timeout is through the SQLSTATE, the  *)
(* message of the tool and the phrases of the manager.                     *)
TimeoutIsReported ==
    \A c \in Calls :
        /\ ending[c] = "HYT00" => outcome[c] \in {"none", "tool_timeout"} \cup Abandoned
        /\ outcome[c] = "tool_timeout" => ending[c] \in DriverErrors \ {"other"}

(* A result says truncated exactly when it leaves rows out.                *)
TruncationIsExact ==
    \A c \in Calls :
        outcome[c] = "result" => (page[c].truncated <=> page[c].count < page[c].found)

(* What docs/features/0003-mcp-readonly-data-access/plan.md says of the    *)
(* limits: the timeout of the database leaves room to answer before the    *)
(* timeout of the call, so that the call's fires for a dead server only.   *)
DatabaseTimeoutAnswersFirst ==
    \A c \in Calls : outcome[c] = "call_timeout" => ~serverUp
=============================================================================
