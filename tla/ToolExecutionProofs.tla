------------------------- MODULE ToolExecutionProofs -------------------------
(***************************************************************************)
(* Proofs about ToolExecution, for any calls, any arguments and any values *)
(* of the timeouts.  The steps of TimedSpec are steps of the manager, so   *)
(* SerialInv of McpClientManagerProofs holds; StageInv, AgeInv and         *)
(* EndingInv say where a request is, how long it can have been under way   *)
(* and how it ended.                                                       *)
(***************************************************************************)
EXTENDS ToolExecution, McpClientManagerProofs, FiniteSetTheorems

-----------------------------------------------------------------------------
(* TimedSpec only adds to the manager's Spec.                              *)
LEMMA TimedStepIsManagerStep == [TimedNext]_timedVars => [Next]_vars
  <1> SUFFICES ASSUME [TimedNext]_timedVars
               PROVE  [Next]_vars
    OBVIOUS
  <1>1. CASE UNCHANGED timedVars
    BY <1>1 DEF timedVars
  <1>2. CASE Tick
    BY <1>2 DEF Tick
  <1>3. CASE ServerDies
    BY <1>3 DEF ServerDies, Next
  <1>4. ASSUME NEW c \in Calls, CallStep(c)
        PROVE  [Next]_vars
    <2>1. CASE BackendStep(c)
      BY <1>4, <2>1 DEF BackendStep, Next, ClientStep, ServerStep
    <2>2. CASE TimerFires(c)
      BY <1>4, <2>2 DEF TimerFires, Next, ClientStep
    <2>3. CASE StartTool(c)
      BY <1>4, <2>3 DEF StartTool, Next, ServerStep
    <2>4. CASE ThreadStep(c)
      BY <2>4 DEF ThreadStep
    <2>5. CASE AnswerTool(c)
      BY <1>4, <2>5 DEF AnswerTool, Next, ServerStep
    <2> QED BY <1>4, <2>1, <2>2, <2>3, <2>4, <2>5 DEF CallStep
  <1> QED BY <1>1, <1>2, <1>3, <1>4 DEF TimedNext, Terminating

(* The tools with their threads and clocks are an implementation of what   *)
(* the manager assumes of its server, for any limits: every behaviour of   *)
(* theirs is one of MCPClientManager, so it keeps what is proved of it.    *)
THEOREM TimedImplementsManager == TimedSpec => Spec
  BY TimedStepIsManagerStep, PTL DEF TimedSpec, TimedInit, Spec

(* Hence the backend sees a serial, fail-stop channel also when tools take *)
(* time and answers race the timeouts.                                     *)
THEOREM TimedImplementsToolChannel == TimedSpec => ImplementsToolChannel
  BY TimedImplementsManager, ManagerImplementsToolChannel, PTL

-----------------------------------------------------------------------------
(* A request with these arguments executes one statement or four, each     *)
(* with a limit.                                                           *)
LEMMA StatementFacts ==
    ASSUME NEW r \in Requests
    PROVE  Statements(r) \in {1, 4} /\ StatementLimit(r) \in Nat
  BY TimingAssumption DEF Statements, StatementLimit, RequestType

(* Time for up to four statements adds up.                                 *)
LEMMA Products ==
    ASSUME NEW L \in Nat
    PROVE  /\ \A s \in 0..4 : s * L \in Nat
           /\ \A s \in 1..4 : s * L = (s - 1) * L + L
           /\ \A s, n \in 0..4 : s <= n => s * L <= n * L
  <1>1. \A s \in 0..4 : s = 0 \/ s = 1 \/ s = 2 \/ s = 3 \/ s = 4
    OBVIOUS
  <1>2. /\ 0 * L = 0 /\ 1 * L = L /\ 2 * L = L + L
        /\ 3 * L = L + L + L /\ 4 * L = L + L + L + L
    OBVIOUS
  <1> QED BY <1>1, <1>2

(* The answer of a tool says error_timeout exactly when the driver         *)
(* reported a timeout, for both tools.                                     *)
LEMMA ReplyFacts ==
    ASSUME NEW r \in Requests, NEW e \in Endings
    PROVE  /\ ReplyOf(r, e) \in Replies
           /\ ReplyOf(r, e) = "valid" <=> e = "rows"
           /\ ReplyOf(r, e) = "error_timeout" <=> e \in DriverErrors \ {"other"}
           /\ ParseResult(ReplyOf(r, e)) = "result" <=> e = "rows"
           /\ ParseResult(ReplyOf(r, e)) = "tool_timeout"
                <=> e \in DriverErrors \ {"other"}
  <1>1. /\ ReplyOf(r, e) \in {"valid", "error_timeout", "error_other"}
        /\ ReplyOf(r, e) = "valid" <=> e = "rows"
        /\ ReplyOf(r, e) = "error_timeout" <=> e \in DriverErrors \ {"other"}
    BY DEF ReplyOf, Message, SafePhrases, IsTimeoutError, DriverErrors, Endings
  <1> QED BY <1>1 DEF ParseResult, Replies

(* A page says truncated exactly when it leaves rows out.                  *)
LEMMA PageFacts ==
    ASSUME NEW r \in Requests, NEW n \in 0..MaxRows
    PROVE  /\ PageOf(r, n) \in Pages
           /\ PageOf(r, n).truncated <=> PageOf(r, n).count < PageOf(r, n).found
  <1> DEFINE raw == Lesser(n, r.rows + 1)
             cut == [found |-> n, count |-> Lesser(raw, r.rows), truncated |-> raw > r.rows]
             all == [found |-> n, count |-> n, truncated |-> FALSE]
  <1>1. r.rows \in Nat /\ MaxRows \in Nat
    BY TimingAssumption DEF RequestType
  <1>2. cut.truncated <=> cut.count < cut.found
    <2>1. raw > r.rows <=> Lesser(raw, r.rows) < n
      BY <1>1 DEF Lesser
    <2>2. cut.truncated = (raw > r.rows) /\ cut.count = Lesser(raw, r.rows) /\ cut.found = n
      BY Zenon
    <2> HIDE DEF cut, raw
    <2> QED BY <2>1, <2>2, Zenon
  <1>3. Lesser(raw, r.rows) \in 0..MaxRows
    BY <1>1 DEF Lesser
  <1>4. cut \in Pages /\ all \in Pages
    BY <1>1, <1>3 DEF Pages
  <1>5. PageOf(r, n) = cut \/ PageOf(r, n) = all
    BY DEF PageOf
  <1>6. ~ all.truncated /\ ~ (all.count < all.found)
    BY <1>1
  <1> QED BY <1>2, <1>4, <1>5, <1>6

-----------------------------------------------------------------------------
(* Thread, connection and request move together, and nothing stays longer  *)
(* than its limit.                                                         *)
Stage(c) ==
    /\ thread[c] # "none" <=> server[c] = "running"
    /\ thread[c] = "querying" => statement[c] \in 1..Statements(request[c])
    /\ connection[c] => thread[c] \in {"querying", "closing"}
    /\ IF AtServer(c) THEN busy[c] <= StayLimit(c) ELSE busy[c] = 0
    /\ state[c] = "calling" /\ server[c] \in {"none", "finished"} => ~serverUp

(* The limits of what request c has behind it.                             *)
Spent(c) ==
    IF thread[c] = "none" THEN 0
    ELSE IF thread[c] = "connecting" THEN Latency
    ELSE IF thread[c] = "querying"
         THEN Latency + ConnectLimit + (statement[c] - 1) * StatementLimit(request[c])
    ELSE Latency + ConnectLimit + Statements(request[c]) * StatementLimit(request[c])

Timing(c) ==
    /\ ~(state[c] = "calling" \/ AtServer(c)) => age[c] = 0
    /\ AtServer(c) => age[c] <= Spent(c) + busy[c]
    /\ state[c] = "calling" /\ server[c] = "answered" => age[c] <= WorkLimit(request[c])
    /\ outcome[c] = "call_timeout" /\ WorkLimit(request[c]) < CallLimit => ~serverUp

(* The answer and the outcome are those of the way the work ended.         *)
Ending(c) ==
    /\ server[c] \in {"none", "sent"} \/ thread[c] \in {"connecting", "querying"}
          => ending[c] = "none"
    /\ thread[c] \in {"closing", "ended"} \/ server[c] = "answered"
          => ending[c] # "none"
    /\ server[c] = "answered" => reply[c] = ReplyOf(request[c], ending[c])
    /\ outcome[c] \notin {"none"} \cup TransportErrors
          => server[c] = "finished" /\ ending[c] # "none"
             /\ outcome[c] = ParseResult(ReplyOf(request[c], ending[c]))
    /\ ending[c] = "rows" => \E n \in 0..MaxRows : page[c] = PageOf(request[c], n)

TimedInv == TimedTypeOK /\ \A c \in Calls : Stage(c) /\ Timing(c) /\ Ending(c)

(* What Stage, Timing and Ending read of call d does not change.           *)
Same(d) ==
    /\ state'[d] = state[d] /\ server'[d] = server[d] /\ outcome'[d] = outcome[d]
    /\ reply'[d] = reply[d] /\ request'[d] = request[d] /\ thread'[d] = thread[d]
    /\ statement'[d] = statement[d] /\ connection'[d] = connection[d]
    /\ ending'[d] = ending[d] /\ page'[d] = page[d]
    /\ busy'[d] = busy[d] /\ age'[d] = age[d]

(* What leaves a call alone keeps what is known of it.                     *)
LEMMA SameKeeps ==
    ASSUME NEW d \in Calls, Same(d), serverUp' => serverUp,
           Stage(d), Timing(d), Ending(d)
    PROVE  (Stage(d) /\ Timing(d) /\ Ending(d))'
  <1>1. Stage(d)'
    BY DEF Same, Stage, AtServer, StayLimit
  <1>2. Timing(d)'
    BY DEF Same, Timing, AtServer, Spent
  <1>3. Ending(d)'
    BY DEF Same, Ending
  <1> QED BY <1>1, <1>2, <1>3

(* A step of call c leaves the other calls alone.                          *)
LEMMA StepFrame ==
    ASSUME SerialInv, TimedInv, NEW c \in Calls, CallStep(c), SameTime, UNCHANGED request,
           NEW d \in Calls, d # c
    PROVE  Same(d) /\ serverUp' = serverUp
  <1> USE DEF SerialInv, TypeOK, TimedInv, TimedTypeOK
  <1>1. CASE BackendStep(c)
    <2>1. UNCHANGED <<threadVars, busy, reply, serverUp>>
      BY <1>1 DEF BackendStep, Invoke, InvokeRefused, InvokeAcquires, InvokeWaits, Acquire,
                  BeginCall, Return, ConnectionClosed, DropLateAnswer, serverVars, clientVars
    <2>2. state'[d] = state[d] /\ server'[d] = server[d] /\ outcome'[d] = outcome[d]
      BY <1>1 DEF BackendStep, Invoke, InvokeRefused, InvokeAcquires, InvokeWaits, Acquire,
                  BeginCall, Return, ConnectionClosed, DropLateAnswer, EndCall, serverVars,
                  clientVars
    <2>3. age'[d] = age[d]
      BY <2>2 DEF SameTime, InFlight, AtServer, Timing
    <2> QED BY <2>1, <2>2, <2>3 DEF Same, threadVars
  <1>2. CASE TimerFires(c)
    <2>1. UNCHANGED <<threadVars, busy, reply, server, serverUp>>
          /\ state'[d] = state[d] /\ outcome'[d] = outcome[d]
      BY <1>2 DEF TimerFires, CallTimeout, EndCall, serverVars
    <2>2. age'[d] = age[d]
      BY <2>1 DEF SameTime, InFlight, AtServer, Timing
    <2> QED BY <2>1, <2>2 DEF Same, threadVars
  <1>3. CASE StartTool(c)
    <2>1. /\ UNCHANGED <<state, outcome, statement, connection, page, reply, serverUp>>
          /\ server'[d] = server[d] /\ thread'[d] = thread[d]
          /\ busy'[d] = busy[d] /\ ending'[d] = ending[d]
      BY <1>3 DEF StartTool, ServerStart, clientVars
    <2>2. age'[d] = age[d]
      BY <2>1 DEF SameTime, InFlight, AtServer, Timing
    <2> QED BY <2>1, <2>2 DEF Same
  <1>4. CASE ThreadStep(c)
    <2>1. UNCHANGED vars
      BY <1>4 DEF ThreadStep
    <2>2. /\ thread'[d] = thread[d] /\ statement'[d] = statement[d]
          /\ connection'[d] = connection[d] /\ ending'[d] = ending[d]
          /\ page'[d] = page[d] /\ busy'[d] = busy[d]
      BY <1>4 DEF ThreadStep, Connect, ConnectFails, NextStatement, LastStatement,
                  StatementRaises, CloseConnection, Goes
    <2>3. age'[d] = age[d]
      BY <2>1 DEF SameTime, InFlight, AtServer, Timing, vars, clientVars, serverVars
    <2> QED BY <2>1, <2>2, <2>3 DEF Same, vars, clientVars, serverVars
  <1>5. CASE AnswerTool(c)
    <2>1. /\ UNCHANGED <<state, outcome, statement, connection, ending, page, serverUp>>
          /\ server'[d] = server[d] /\ thread'[d] = thread[d]
          /\ busy'[d] = busy[d] /\ reply'[d] = reply[d]
      BY <1>5 DEF AnswerTool, ServerAnswer, Goes, clientVars
    <2>2. age'[d] = age[d]
      BY <2>1 DEF SameTime, InFlight, AtServer, Timing
    <2> QED BY <2>1, <2>2 DEF Same
  <1> QED BY <1>1, <1>2, <1>3, <1>4, <1>5 DEF CallStep

-----------------------------------------------------------------------------
(* The types.                                                              *)
LEMMA ThreadStepTypes ==
    ASSUME TimedTypeOK, NEW c \in Calls, ThreadStep(c)
    PROVE  /\ thread' \in [Calls -> ThreadStates] /\ statement' \in [Calls -> 0..4]
           /\ connection' \in [Calls -> BOOLEAN] /\ ending' \in [Calls -> Endings]
           /\ page' \in [Calls -> Pages] /\ busy' \in [Calls -> Nat]
  <1> USE DEF TimedTypeOK
  <1>0. request[c] \in Requests /\ statement[c] \in 0..4
    OBVIOUS
  <1>1. CASE Connect(c)
    BY <1>1 DEF Connect, Goes, ThreadStates
  <1>2. CASE ConnectFails(c)
    BY <1>2 DEF ConnectFails, Goes, ThreadStates, Endings
  <1>3. CASE NextStatement(c)
    <2>1. statement[c] + 1 \in 0..4
      BY <1>0, <1>3, StatementFacts DEF NextStatement
    <2> QED BY <1>3, <2>1 DEF NextStatement, Goes, ThreadStates
  <1>4. CASE LastStatement(c)
    <2>1. PICK n \in 0..MaxRows : page' = [page EXCEPT ![c] = PageOf(request[c], n)]
      BY <1>4 DEF LastStatement
    <2>2. PageOf(request[c], n) \in Pages
      BY <1>0, PageFacts
    <2> QED BY <1>4, <2>1, <2>2 DEF LastStatement, Goes, ThreadStates, Endings
  <1>5. CASE StatementRaises(c)
    BY <1>5 DEF StatementRaises, Goes, ThreadStates, Endings
  <1>6. CASE CloseConnection(c)
    BY <1>6 DEF CloseConnection, ThreadStates
  <1> QED BY <1>1, <1>2, <1>3, <1>4, <1>5, <1>6 DEF ThreadStep

(* Each timed step keeps the types.                                        *)
LEMMA TypesKept == TimedTypeOK /\ [TimedNext]_timedVars => TimedTypeOK'
  <1> SUFFICES ASSUME TimedTypeOK, [TimedNext]_timedVars
               PROVE  TimedTypeOK'
    OBVIOUS
  <1>1. CASE UNCHANGED timedVars
    BY <1>1 DEF timedVars, threadVars, TimedTypeOK
  <1>2. CASE Tick
    BY <1>2 DEF Tick, threadVars, TimedTypeOK
  <1>3. ASSUME SameTime PROVE age' \in [Calls -> Nat]
    BY <1>3 DEF SameTime, TimedTypeOK
  <1>4. CASE ServerDies /\ SameTime /\ UNCHANGED request
    BY <1>3, <1>4 DEF ServerDies, TimedTypeOK, ThreadStates
  <1>5. ASSUME NEW c \in Calls, CallStep(c), SameTime, UNCHANGED request
        PROVE  TimedTypeOK'
    <2> USE <1>3, <1>5
    <2>1. CASE BackendStep(c) \/ TimerFires(c)
      BY <2>1 DEF BackendStep, TimerFires, threadVars, TimedTypeOK
    <2>2. CASE StartTool(c)
      BY <2>2 DEF StartTool, TimedTypeOK, ThreadStates, Endings
    <2>3. CASE ThreadStep(c)
      BY <2>3, ThreadStepTypes DEF TimedTypeOK
    <2>4. CASE AnswerTool(c)
      BY <2>4 DEF AnswerTool, Goes, TimedTypeOK, ThreadStates
    <2> QED BY <2>1, <2>2, <2>3, <2>4 DEF CallStep
  <1> QED BY <1>1, <1>2, <1>4, <1>5 DEF TimedNext

-----------------------------------------------------------------------------
(* Nothing has happened.                                                   *)
LEMMA InitTimedInv == TimedInit => TimedInv
  <1> SUFFICES ASSUME TimedInit
               PROVE  TimedInv
    OBVIOUS
  <1>0. MaxRows \in Nat
    BY TimingAssumption
  <1>1. TimedTypeOK
    BY <1>0 DEF TimedInit, TimedTypeOK, ThreadStates, Endings, Pages, NoPage
  <1>2. ASSUME NEW c \in Calls
        PROVE  Stage(c) /\ Timing(c) /\ Ending(c)
    BY DEF TimedInit, Init, Stage, Timing, Ending, AtServer, TransportErrors
  <1> QED BY <1>1, <1>2 DEF TimedInv

(* What a request may still take is a number.                              *)
LEMMA WorkLimitType ==
    ASSUME NEW r \in Requests
    PROVE  /\ WorkLimit(r) \in Nat
           /\ Statements(r) * StatementLimit(r) \in Nat
           /\ {Latency, ConnectLimit, CallLimit} \subseteq Nat
  <1>1. Statements(r) \in 0..4 /\ StatementLimit(r) \in Nat
    BY StatementFacts
  <1>2. Statements(r) * StatementLimit(r) \in Nat
    BY <1>1, Products
  <1> QED BY <1>2, TimingAssumption DEF WorkLimit

(* What a request has behind it and the stay that is left stay below the   *)
(* limit of the whole.                                                     *)
LEMMA SpentLeavesWork ==
    ASSUME TimedInv, NEW c \in Calls, AtServer(c)
    PROVE  /\ Spent(c) \in Nat
           /\ Spent(c) + StayLimit(c) <= WorkLimit(request[c])
           /\ age[c] <= WorkLimit(request[c])
  <1> DEFINE r == request[c]
             s == statement[c]
             n == Statements(r)
             L == StatementLimit(r)
  <1>0. /\ r \in Requests /\ n \in {1, 4} /\ L \in Nat /\ n * L \in Nat
        /\ Latency \in Nat /\ ConnectLimit \in Nat
    BY StatementFacts, WorkLimitType DEF TimedInv, TimedTypeOK
  <1>1. Spent(c) \in Nat /\ StayLimit(c) \in Nat /\ Spent(c) + StayLimit(c) <= WorkLimit(r)
    <2>0. WorkLimit(r) = 2 * Latency + ConnectLimit + n * L
      BY DEF WorkLimit
    <2>1. CASE thread[c] = "querying"
      <3>1. s \in 1..4 /\ s <= n /\ s - 1 \in 0..4
        BY <1>0, <2>1 DEF TimedInv, Stage
      <3>2. Spent(c) = Latency + ConnectLimit + (s - 1) * L /\ StayLimit(c) = L
        BY <2>1 DEF Spent, StayLimit
      <3> HIDE DEF r, s, n, L
      <3>3. (s - 1) * L \in Nat /\ s * L = (s - 1) * L + L /\ s * L <= n * L
        <4>1. s \in 0..4 /\ n \in 0..4
          BY <1>0, <3>1
        <4> QED BY <1>0, <3>1, <4>1, Products
      <3> QED BY <1>0, <2>0, <3>2, <3>3
    <2>2. CASE thread[c] # "querying"
      <3>1. /\ Spent(c) \in {0, Latency, Latency + ConnectLimit + n * L}
            /\ StayLimit(c) = IF thread[c] = "connecting" THEN ConnectLimit ELSE Latency
            /\ thread[c] = "connecting" => Spent(c) = Latency
        BY <2>2 DEF Spent, StayLimit
      <3> HIDE DEF r, s, n, L
      <3> QED BY <1>0, <2>0, <3>1
    <2> QED BY <2>1, <2>2
  <1>2. age[c] <= Spent(c) + busy[c] /\ busy[c] <= StayLimit(c)
        /\ age[c] \in Nat /\ busy[c] \in Nat /\ WorkLimit(r) \in Nat
    BY <1>0, WorkLimitType DEF TimedInv, TimedTypeOK, Stage, Timing
  <1> HIDE DEF r
  <1> QED BY <1>1, <1>2 DEF r

(* The steps of the backend.                                               *)
LEMMA BackendStepKeeps ==
    ASSUME SerialInv, TimedInv, NEW c \in Calls, BackendStep(c), SameTime,
           UNCHANGED request
    PROVE  (Stage(c) /\ Timing(c) /\ Ending(c))'
  <1> USE DEF SerialInv, TypeOK, TimedInv, TimedTypeOK, threadVars
  <1>0. /\ UNCHANGED <<request, thread, statement, connection, ending, page, busy>>
        /\ age'[c] = IF (state[c] = "calling" \/ AtServer(c))' THEN age[c] ELSE 0
    BY DEF BackendStep, SameTime, InFlight
  <1>1. CASE BeginCall(c) /\ state[c] \in {"idle", "waiting"}
    <2>1. /\ server[c] = "none" /\ outcome[c] = "none" /\ outcome'[c] = "none"
          /\ state'[c] = "calling" /\ reply' = reply /\ serverUp' = serverUp
          /\ server'[c] = IF serverUp THEN "sent" ELSE "none"
      BY <1>1 DEF BeginCall, RequestInv, CallStates
    <2>2. /\ age[c] = 0 /\ age'[c] = 0 /\ busy[c] = 0
          /\ ending[c] = "none" /\ thread[c] = "none"
      BY <1>0, <1>1, <2>1 DEF Timing, Ending, Stage, AtServer
    <2>3. Stage(c)'
      <3>1. Latency \in Nat
        BY TimingAssumption
      <3>2. ~connection[c] /\ thread'[c] = "none" /\ busy'[c] = 0 /\ StayLimit(c)' = Latency
        BY <1>0, <2>2 DEF Stage, StayLimit
      <3>3. CASE serverUp
        BY <1>0, <2>1, <3>1, <3>2, <3>3 DEF Stage, AtServer
      <3>4. CASE ~serverUp
        BY <1>0, <2>1, <3>1, <3>2, <3>4 DEF Stage, AtServer
      <3> QED BY <3>3, <3>4
    <2>4. Timing(c)'
      BY <1>0, <2>1, <2>2 DEF Timing, AtServer, Spent
    <2>5. Ending(c)'
      BY <1>0, <2>1, <2>2 DEF Ending
    <2> QED BY <2>3, <2>4, <2>5
  <1>2. CASE /\ state[c] \in {"idle", "waiting"} /\ state'[c] \in {"waiting", "done"}
             /\ outcome'[c] \in {"none", "unavailable"} /\ UNCHANGED serverVars
    <2>1. server[c] = "none" /\ outcome[c] = "none"
      BY <1>2 DEF RequestInv
    <2>2. age[c] = 0 /\ age'[c] = 0
      BY <1>0, <1>2, <2>1 DEF Timing, AtServer, serverVars
    <2>3. Stage(c)'
      BY <1>0, <1>2, <2>1 DEF Stage, AtServer, serverVars
    <2>4. Timing(c)'
      BY <1>0, <1>2, <2>1, <2>2 DEF Timing, AtServer, serverVars
    <2>5. Ending(c)'
      BY <1>0, <1>2, <2>1 DEF Ending, TransportErrors, serverVars
    <2> QED BY <2>3, <2>4, <2>5
  <1>3. CASE Return(c)
    <2>1. /\ server[c] = "answered" /\ server'[c] = "finished"
          /\ state'[c] = "done" /\ serverUp' = serverUp
          /\ outcome'[c] = ParseResult(reply[c]) /\ reply' = reply
      BY <1>3 DEF Return, EndCall
    <2>2. /\ ending[c] # "none" /\ reply[c] = ReplyOf(request[c], ending[c])
          /\ thread[c] = "none" /\ reply[c] \in Replies
      BY <2>1 DEF Ending, Stage, RequestInv
    <2>3. outcome'[c] \in {"result", "unclassified"} \cup ToolErrors
      BY <2>1, <2>2, ParseResultType
    <2>4. Stage(c)'
      BY <1>0, <2>1, <2>2 DEF Stage, AtServer
    <2>5. Timing(c)'
      BY <1>0, <2>1, <2>3 DEF Timing, AtServer, ToolErrors
    <2>6. Ending(c)'
      BY <1>0, <2>1, <2>2 DEF Ending
    <2> QED BY <2>4, <2>5, <2>6
  <1>4. CASE ConnectionClosed(c)
    <2>1. /\ UNCHANGED serverVars /\ ~serverUp /\ state'[c] = "done"
          /\ outcome'[c] = "connection_closed" /\ state[c] = "calling"
      BY <1>4 DEF ConnectionClosed, EndCall
    <2>2. Stage(c)'
      BY <1>0, <2>1 DEF Stage, AtServer, StayLimit, serverVars
    <2>3. Timing(c)'
      BY <1>0, <2>1 DEF Timing, AtServer, Spent, serverVars
    <2>4. Ending(c)'
      BY <1>0, <2>1 DEF Ending, TransportErrors, Abandoned, serverVars
    <2> QED BY <2>2, <2>3, <2>4
  <1>5. CASE DropLateAnswer(c)
    <2>1. /\ server[c] = "answered" /\ server'[c] = "finished" /\ state[c] = "done"
          /\ UNCHANGED <<state, outcome, reply, serverUp>>
      BY <1>5 DEF DropLateAnswer, clientVars
    <2>2. outcome[c] \in {"none"} \cup TransportErrors
      BY <2>1 DEF Ending
    <2>3. Stage(c)'
      BY <1>0, <2>1 DEF Stage, AtServer
    <2>4. Timing(c)'
      BY <1>0, <2>1 DEF Timing, AtServer
    <2>5. Ending(c)'
      BY <1>0, <2>1, <2>2 DEF Ending, Stage
    <2> QED BY <2>3, <2>4, <2>5
  <1>6. CASE Acquire(c)
    <2>1. state[c] = "waiting" /\ outcome[c] = "none"
      BY <1>6, QueueHeadTail DEF Acquire, QueueInv, RequestInv
    <2> QED BY <1>1, <1>2, <1>6, <2>1 DEF Acquire, EndCall
  <1>7. CASE Invoke(c)
    <2>1. state[c] = "idle" /\ outcome[c] = "none"
      BY <1>7 DEF Invoke, RequestInv
    <2> QED BY <1>1, <1>2, <1>7, <2>1
            DEF Invoke, InvokeRefused, InvokeAcquires, InvokeWaits, EndCall
  <1> QED BY <1>3, <1>4, <1>5, <1>6, <1>7 DEF BackendStep

(* The timer: with room left, it finds a dead server.                      *)
LEMMA TimerFiresKeeps ==
    ASSUME SerialInv, TimedInv, NEW c \in Calls, TimerFires(c), SameTime,
           UNCHANGED request
    PROVE  (Stage(c) /\ Timing(c) /\ Ending(c))'
  <1> USE DEF SerialInv, TypeOK, TimedInv, TimedTypeOK, threadVars
  <1>0. /\ UNCHANGED <<request, thread, statement, connection, ending, page, busy>>
        /\ UNCHANGED serverVars /\ age[c] = CallLimit
        /\ state[c] = "calling" /\ state'[c] = "done" /\ outcome'[c] = "call_timeout"
        /\ age'[c] = IF AtServer(c) THEN age[c] ELSE 0
    BY DEF TimerFires, CallTimeout, EndCall, SameTime, InFlight, AtServer, serverVars
  <1>1. Stage(c)'
    BY <1>0 DEF Stage, AtServer, StayLimit, serverVars
  <1>2. WorkLimit(request[c]) < CallLimit => ~serverUp
    <2>1. CASE AtServer(c)
      BY <1>0, <2>1, SpentLeavesWork, WorkLimitType
    <2>2. CASE server[c] = "answered"
      BY <1>0, <2>2, WorkLimitType DEF Timing
    <2>3. CASE server[c] \in {"none", "finished"}
      BY <1>0, <2>3 DEF Stage
    <2> QED BY <2>1, <2>2, <2>3 DEF AtServer, ServerStates
  <1>3. Timing(c)'
    BY <1>0, <1>2 DEF Timing, AtServer, Spent, WorkLimit, serverVars
  <1>4. Ending(c)'
    BY <1>0 DEF Ending, TransportErrors, Abandoned, serverVars
  <1> QED BY <1>1, <1>3, <1>4

(* The request is read and its input is validated.                         *)
LEMMA StartToolKeeps ==
    ASSUME SerialInv, TimedInv, NEW c \in Calls, StartTool(c), SameTime,
           UNCHANGED request
    PROVE  (Stage(c) /\ Timing(c) /\ Ending(c))'
  <1> USE DEF SerialInv, TypeOK, TimedInv, TimedTypeOK
  <1>1. /\ server[c] = "sent" /\ server'[c] = "running" /\ UNCHANGED clientVars
        /\ UNCHANGED <<request, reply, serverUp, statement, connection, page>>
        /\ busy'[c] = 0 /\ age'[c] = age[c]
        /\ \/ thread'[c] = "connecting" /\ ending'[c] = ending[c]
           \/ thread'[c] = "ended" /\ ending'[c] = "refused"
    BY DEF StartTool, ServerStart, SameTime, InFlight, AtServer
  <1>2. /\ thread[c] = "none" /\ ending[c] = "none" /\ ~connection[c]
        /\ age[c] <= Latency /\ outcome[c] \in {"none"} \cup TransportErrors
    <2>1. thread[c] = "none" /\ ~connection[c]
      BY <1>1 DEF Stage
    <2>2. age[c] <= 0 + busy[c] /\ busy[c] <= Latency /\ Latency \in Nat
      BY <1>1, <2>1, TimingAssumption DEF Stage, Timing, AtServer, StayLimit, Spent
    <2>3. ending[c] = "none" /\ outcome[c] \in {"none"} \cup TransportErrors
      BY <1>1 DEF Ending
    <2> QED BY <2>1, <2>2, <2>3
  <1>3. /\ Latency \in Nat /\ ConnectLimit \in Nat
        /\ Statements(request[c]) * StatementLimit(request[c]) \in Nat
    BY WorkLimitType
  <1>4. Stage(c)'
    BY <1>1, <1>2, <1>3 DEF Stage, AtServer, StayLimit, clientVars
  <1>5. Timing(c)'
    <2>1. Spent(c)' \in {Latency, Latency + ConnectLimit
                                  + Statements(request[c]) * StatementLimit(request[c])}
      BY <1>1 DEF Spent
    <2>2. age[c] <= Spent(c)' + 0
      BY <1>2, <1>3, <2>1
    <2> QED BY <1>1, <2>2 DEF Timing, AtServer, WorkLimit, clientVars
  <1>6. Ending(c)'
    BY <1>1, <1>2 DEF Ending, clientVars
  <1> QED BY <1>4, <1>5, <1>6

(* The thread works: what it has behind it grows by at most the limit of   *)
(* what it has just done.                                                  *)
LEMMA ThreadStepKeeps ==
    ASSUME SerialInv, TimedInv, NEW c \in Calls, ThreadStep(c), SameTime,
           UNCHANGED request
    PROVE  (Stage(c) /\ Timing(c) /\ Ending(c))'
  <1> DEFINE n == Statements(request[c])
             L == StatementLimit(request[c])
  <1> USE DEF SerialInv, TypeOK, TimedInv, TimedTypeOK
  <1>1. /\ UNCHANGED vars /\ UNCHANGED request /\ thread[c] # "none"
        /\ server[c] = "running" /\ age'[c] = age[c]
    BY DEF ThreadStep, Connect, ConnectFails, NextStatement, LastStatement, StatementRaises,
           CloseConnection, Stage, SameTime, InFlight, AtServer, vars, clientVars, serverVars
  <1>2. /\ outcome[c] \in {"none"} \cup TransportErrors
        /\ thread[c] \in {"connecting", "querying"} => ending[c] = "none"
    BY <1>1 DEF Ending
  <1>3. /\ request[c] \in Requests /\ n \in {1, 4} /\ L \in Nat /\ n * L \in Nat
        /\ Latency \in Nat /\ ConnectLimit \in Nat /\ age[c] \in Nat /\ busy[c] \in Nat
    BY StatementFacts, WorkLimitType
  <1>4. age[c] <= Spent(c) + busy[c] /\ busy[c] <= StayLimit(c)
    BY <1>1 DEF Stage, Timing, AtServer
  <1>5. ASSUME NEW t \in {"querying", "closing", "ended"}, thread'[c] = t,
               t = "querying" => statement'[c] \in 1..n,
               connection'[c] => t \in {"querying", "closing"},
               busy'[c] <= StayLimit(c)', age[c] <= Spent(c)' + busy'[c],
               ending'[c] = "none" <=> t = "querying",
               ending'[c] = "rows" => \E k \in 0..MaxRows : page'[c] = PageOf(request[c], k)
        PROVE  (Stage(c) /\ Timing(c) /\ Ending(c))'
    <2>1. Stage(c)'
      BY <1>1, <1>5 DEF Stage, AtServer, Statements, vars, clientVars, serverVars
    <2>2. Timing(c)'
      BY <1>1, <1>2, <1>5 DEF Timing, AtServer, WorkLimit, vars, clientVars, serverVars
    <2>3. Ending(c)'
      BY <1>1, <1>2, <1>5 DEF Ending, vars, clientVars, serverVars
    <2> QED BY <2>1, <2>2, <2>3
  <1>6. CASE thread[c] = "connecting"
    <2>1. age[c] <= Latency + ConnectLimit /\ ~connection[c]
      <3>1. ~connection[c]
        BY <1>6 DEF Stage
      <3>2. Spent(c) = Latency /\ StayLimit(c) = ConnectLimit
        BY <1>6 DEF Spent, StayLimit
      <3> QED BY <1>3, <1>4, <3>1, <3>2
    <2>2. CASE Connect(c)
      <3>1. /\ thread'[c] = "querying" /\ statement'[c] = 1 /\ busy'[c] = 0
            /\ connection'[c] = TRUE /\ ending'[c] = ending[c]
        BY <2>2 DEF Connect, Goes
      <3>2. Spent(c)' = Latency + ConnectLimit + (1 - 1) * L /\ StayLimit(c)' = L
        BY <1>1, <3>1 DEF Spent, StayLimit
      <3>3. (1 - 1) * L = 0
        BY <1>3
      <3> HIDE DEF n, L
      <3> QED BY <1>2, <1>3, <1>5, <1>6, <2>1, <3>1, <3>2, <3>3
    <2>3. CASE ConnectFails(c)
      <3>1. /\ thread'[c] = "ended" /\ busy'[c] = 0 /\ ending'[c] = "no_connection"
            /\ connection'[c] = connection[c]
        BY <2>3 DEF ConnectFails, Goes
      <3>2. Spent(c)' = Latency + ConnectLimit + n * L /\ StayLimit(c)' = Latency
        BY <1>1, <3>1 DEF Spent, StayLimit
      <3> HIDE DEF n, L
      <3> QED BY <1>3, <1>5, <2>1, <3>1, <3>2
    <2> QED BY <1>6, <2>2, <2>3 DEF ThreadStep, NextStatement, LastStatement,
                                    StatementRaises, CloseConnection
  <1>7. CASE thread[c] = "querying"
    <2>1. NextStatement(c) \/ LastStatement(c) \/ StatementRaises(c)
      BY <1>7 DEF ThreadStep, Connect, ConnectFails, CloseConnection
    <2>2. statement[c] \in 1..4 /\ statement[c] <= n
      BY <1>3, <1>7 DEF Stage
    <2>3. /\ statement[c] * L \in Nat /\ statement[c] * L <= n * L
          /\ age[c] <= Latency + ConnectLimit + statement[c] * L
      <3>1. Spent(c) = Latency + ConnectLimit + (statement[c] - 1) * L /\ StayLimit(c) = L
        BY <1>7 DEF Spent, StayLimit
      <3>2. statement[c] \in 0..4 /\ n \in 0..4 /\ statement[c] - 1 \in 0..4
        BY <1>3, <2>2
      <3> HIDE DEF n, L
      <3>3. /\ statement[c] * L \in Nat /\ (statement[c] - 1) * L \in Nat
            /\ statement[c] * L = (statement[c] - 1) * L + L
            /\ statement[c] * L <= n * L
        BY <1>3, <2>2, <3>2, Products
      <3> QED BY <1>3, <1>4, <3>1, <3>3
    <2>4. CASE NextStatement(c)
      <3>1. /\ thread'[c] = "querying" /\ statement'[c] = statement[c] + 1
            /\ statement[c] < n /\ busy'[c] = 0
            /\ UNCHANGED <<connection, ending>>
        BY <2>4 DEF NextStatement, Goes
      <3>2. /\ Spent(c)' = Latency + ConnectLimit + (statement'[c] - 1) * L
            /\ StayLimit(c)' = L
        BY <1>1, <3>1 DEF Spent, StayLimit
      <3>3. statement'[c] - 1 = statement[c] /\ statement'[c] \in 1..n
        BY <1>3, <2>2, <3>1
      <3> HIDE DEF n, L
      <3> QED BY <1>2, <1>3, <1>5, <1>7, <2>3, <3>1, <3>2, <3>3
    <2>5. CASE LastStatement(c) \/ StatementRaises(c)
      <3>1. /\ thread'[c] = "closing" /\ busy'[c] = 0 /\ ending'[c] # "none"
            /\ ending'[c] = "rows" => \E k \in 0..MaxRows : page'[c] = PageOf(request[c], k)
        BY <2>5 DEF LastStatement, StatementRaises, Goes, DriverErrors
      <3>2. Spent(c)' = Latency + ConnectLimit + n * L /\ StayLimit(c)' = Latency
        BY <1>1, <3>1 DEF Spent, StayLimit
      <3> HIDE DEF n, L
      <3> QED BY <1>3, <1>5, <2>3, <3>1, <3>2
    <2> QED BY <2>1, <2>4, <2>5
  <1>8. CASE CloseConnection(c)
    <2>1. /\ thread[c] = "closing" /\ thread'[c] = "ended" /\ ~connection'[c]
          /\ UNCHANGED <<statement, ending, page, busy>>
      BY <1>8 DEF CloseConnection
    <2>2. Spent(c)' = Spent(c) /\ StayLimit(c)' = StayLimit(c)
      BY <1>1, <2>1 DEF Spent, StayLimit
    <2>3. ending[c] # "none" /\ (ending[c] = "rows" => \E k \in 0..MaxRows : page[c] = PageOf(request[c], k))
      BY <2>1 DEF Ending
    <2> QED BY <1>4, <1>5, <2>1, <2>2, <2>3
  <1> QED BY <1>6, <1>7, <1>8 DEF ThreadStep, Connect, ConnectFails, NextStatement,
                                  LastStatement, StatementRaises

(* The answer is that of the thread.                                       *)
LEMMA AnswerToolKeeps ==
    ASSUME SerialInv, TimedInv, NEW c \in Calls, AnswerTool(c), SameTime,
           UNCHANGED request
    PROVE  (Stage(c) /\ Timing(c) /\ Ending(c))'
  <1> USE DEF SerialInv, TypeOK, TimedInv, TimedTypeOK
  <1>1. /\ server[c] = "running" /\ server'[c] = "answered" /\ UNCHANGED clientVars
        /\ UNCHANGED <<request, serverUp, statement, connection, ending, page>>
        /\ thread[c] = "ended" /\ thread'[c] = "none" /\ busy'[c] = 0
        /\ reply'[c] = ReplyOf(request[c], ending[c])
        /\ age'[c] = IF state[c] = "calling" THEN age[c] ELSE 0
    BY DEF AnswerTool, ServerAnswer, Goes, SameTime, InFlight, AtServer, clientVars
  <1>2. /\ ending[c] # "none" /\ ~connection[c] /\ age[c] <= WorkLimit(request[c])
        /\ outcome[c] \in {"none"} \cup TransportErrors
    BY <1>1, SpentLeavesWork DEF Stage, Ending, AtServer
  <1>3. Stage(c)'
    BY <1>1, <1>2 DEF Stage, AtServer, clientVars
  <1>4. Timing(c)'
    BY <1>1, <1>2 DEF Timing, AtServer, WorkLimit, clientVars
  <1>5. Ending(c)'
    BY <1>1, <1>2 DEF Ending, clientVars
  <1> QED BY <1>3, <1>4, <1>5

(* The server dies with its threads.                                       *)
LEMMA ServerDiesKeeps ==
    ASSUME SerialInv, TimedInv, NEW c \in Calls, ServerDies, SameTime,
           UNCHANGED request
    PROVE  (Stage(c) /\ Timing(c) /\ Ending(c))'
  <1> USE DEF SerialInv, TypeOK, TimedInv, TimedTypeOK
  <1>1. /\ server'[c] = IF AtServer(c) THEN "finished" ELSE server[c]
        /\ UNCHANGED clientVars /\ UNCHANGED <<request, reply, statement, ending, page>>
        /\ ~serverUp' /\ thread'[c] = "none" /\ ~connection'[c] /\ busy'[c] = 0
        /\ age'[c] = IF state[c] = "calling" THEN age[c] ELSE 0
    BY DEF ServerDies, ServerExit, SameTime, InFlight, AtServer, clientVars
  <1>2. server'[c] \notin {"sent", "running"}
    BY <1>1 DEF AtServer
  <1>3. Stage(c)'
    BY <1>1, <1>2 DEF Stage, AtServer, clientVars
  <1>4. Timing(c)'
    BY <1>1, <1>2 DEF Timing, AtServer, clientVars
  <1>5. Ending(c)'
    BY <1>1, <1>2 DEF Ending, Stage, AtServer, clientVars
  <1> QED BY <1>3, <1>4, <1>5

(* A second passes: no stay exceeds its limit.                             *)
LEMMA TickKeeps ==
    ASSUME SerialInv, TimedInv, NEW c \in Calls, Tick
    PROVE  (Stage(c) /\ Timing(c) /\ Ending(c))'
  <1> USE DEF SerialInv, TypeOK, TimedInv, TimedTypeOK
  <1>1. /\ UNCHANGED vars /\ UNCHANGED threadVars /\ UNCHANGED request
        /\ AtServer(c) => busy[c] < StayLimit(c)
        /\ state[c] = "calling" => server[c] # "answered"
        /\ age'[c] = IF state[c] = "calling" \/ AtServer(c) THEN age[c] + 1 ELSE 0
        /\ busy'[c] = IF AtServer(c) THEN busy[c] + 1 ELSE 0
    BY DEF Tick, InFlight
  <1>2. /\ Spent(c)' = Spent(c) /\ StayLimit(c)' = StayLimit(c)
        /\ age[c] \in Nat /\ busy[c] \in Nat
    BY <1>1 DEF Spent, StayLimit, threadVars
  <1>3. AtServer(c) => Spent(c) \in Nat /\ StayLimit(c) \in Nat
    BY SpentLeavesWork, StatementFacts, TimingAssumption DEF StayLimit
  <1>4. Stage(c)'
    BY <1>1, <1>2, <1>3 DEF Stage, AtServer, threadVars, vars, clientVars, serverVars
  <1>5. Timing(c)'
    BY <1>1, <1>2, <1>3 DEF Timing, AtServer, threadVars, vars, clientVars, serverVars
  <1>6. Ending(c)'
    BY <1>1 DEF Ending, threadVars, vars, clientVars, serverVars
  <1> QED BY <1>4, <1>5, <1>6

-----------------------------------------------------------------------------

(* The invariant holds in every reachable state, and the manager's with it.*)
LEMMA TimedInvariant == TimedSpec => [](TimedInv /\ SerialInv)
  <1>1. SerialInv /\ TimedInv /\ [TimedNext]_timedVars => TimedInv'
    <2> SUFFICES ASSUME SerialInv, TimedInv, [TimedNext]_timedVars, NEW d \in Calls
                 PROVE  (Stage(d) /\ Timing(d) /\ Ending(d))'
      BY TypesKept DEF TimedInv
    <2>0. Stage(d) /\ Timing(d) /\ Ending(d)
      BY DEF TimedInv
    <2>1. CASE UNCHANGED timedVars
      <3>1. Same(d) /\ serverUp' = serverUp
        BY <2>1 DEF Same, timedVars, threadVars, vars, clientVars, serverVars
      <3> QED BY <2>0, <3>1, SameKeeps
    <2>2. ASSUME NEW c \in Calls, CallStep(c), SameTime, UNCHANGED request
          PROVE  (Stage(d) /\ Timing(d) /\ Ending(d))'
      <3>1. CASE d = c
        BY <2>2, <3>1, BackendStepKeeps, TimerFiresKeeps, StartToolKeeps, ThreadStepKeeps,
           AnswerToolKeeps DEF CallStep
      <3>2. CASE d # c
        BY <2>0, <2>2, <3>2, StepFrame, SameKeeps
      <3> QED BY <3>1, <3>2
    <2> QED BY <2>1, <2>2, ServerDiesKeeps, TickKeeps DEF TimedNext
  <1> QED BY <1>1, InitTimedInv, TimedImplementsManager, SerialInvariant, PTL DEF TimedSpec

(* The types of the tools and of the clocks, for any arguments and limits. *)
THEOREM TimedTypeCorrect == TimedSpec => []TimedTypeOK
  BY TimedInvariant, PTL DEF TimedInv

(* A tool ends by itself within the sum of its limits, whether or not its  *)
(* caller still waits.                                                     *)
THEOREM ToolsEnd == TimedSpec => []ToolsEndInTime
  <1>1. TimedInv => ToolsEndInTime
    BY SpentLeavesWork DEF ToolsEndInTime
  <1> QED BY <1>1, TimedInvariant, PTL

(* When connect and statements leave room below the limit of the call, a   *)
(* slow database never makes the manager give up the session.              *)
THEOREM SlowDatabaseIsNoLoss == TimedSpec => []SlowDatabaseKeepsSession
  <1>1. TimedInv => SlowDatabaseKeepsSession
    BY DEF TimedInv, Timing, SlowDatabaseKeepsSession
  <1> QED BY <1>1, TimedInvariant, PTL

(* One connection to the target database at most, closed by the tool that  *)
(* opened it.                                                              *)
THEOREM ConnectionsAreReturned == TimedSpec => []ConnectionsReturned
  <1>1. TimedInv /\ SerialInv => ConnectionsReturned
    <2> SUFFICES ASSUME TimedInv, SerialInv
                 PROVE  ConnectionsReturned
      OBVIOUS
    <2> DEFINE open == {c \in Calls : connection[c]}
    <2>1. \A c \in Calls : connection[c] => AtServer(c)
      BY DEF TimedInv, Stage, AtServer
    <2>2. \A c, d \in Calls : AtServer(c) /\ AtServer(d) => c = d
      <3>1. \A c \in Calls : AtServer(c) /\ state[c] = "calling" => lock = c
        BY DEF SerialInv, LockInv
      <3>2. \A c \in Calls : AtServer(c) /\ state[c] # "calling"
                                => outcome[c] \in Abandoned /\ unavailable
        BY DEF SerialInv, RequestInv, AtServer, TypeOK, CallStates
      <3> QED BY <3>1, <3>2, NoCallAssumption DEF SerialInv, LockInv, OneDiscovery
    <2>3. open = {} \/ \E c \in Calls : open = {c}
      BY <2>1, <2>2
    <2>4. Cardinality(open) <= 1
      <3> HIDE DEF open
      <3>1. Cardinality({}) = 0 /\ \A c \in Calls : Cardinality({c}) = 1
        BY FS_EmptySet, FS_Singleton
      <3> QED BY <2>3, <3>1
    <2> QED BY <2>1, <2>4 DEF ConnectionsReturned
  <1> QED BY <1>1, TimedInvariant, PTL

(* The backend and the server agree on what a timeout is.                  *)
THEOREM TimeoutsAreReported == TimedSpec => []TimeoutIsReported
  <1>1. TimedInv /\ SerialInv => TimeoutIsReported
    <2> SUFFICES ASSUME TimedInv, SerialInv, NEW c \in Calls
                 PROVE  /\ ending[c] = "HYT00"
                              => outcome[c] \in {"none", "tool_timeout"} \cup Abandoned
                        /\ outcome[c] = "tool_timeout" => ending[c] \in DriverErrors \ {"other"}
      BY DEF TimeoutIsReported
    <2>1. ending[c] \in Endings /\ request[c] \in Requests
      BY DEF TimedInv, TimedTypeOK
    <2>2. outcome[c] \notin {"none"} \cup TransportErrors
             => outcome[c] = ParseResult(ReplyOf(request[c], ending[c]))
      BY DEF TimedInv, Ending
    <2>3. outcome[c] = "unavailable" => ending[c] = "none"
      BY DEF TimedInv, Ending, SerialInv, OutcomeTellsServer
    <2>4. ParseResult(ReplyOf(request[c], ending[c])) = "tool_timeout"
             <=> ending[c] \in DriverErrors \ {"other"}
      BY <2>1, ReplyFacts
    <2> QED BY <2>2, <2>3, <2>4 DEF TransportErrors, Abandoned, DriverErrors
  <1> QED BY <1>1, TimedInvariant, PTL

(* truncated tells the truth about the rows, for any limit of rows.        *)
THEOREM TruncatedIsExact == TimedSpec => []TruncationIsExact
  <1>1. TimedInv => TruncationIsExact
    <2> SUFFICES ASSUME TimedInv, NEW c \in Calls, outcome[c] = "result"
                 PROVE  page[c].truncated <=> page[c].count < page[c].found
      BY DEF TruncationIsExact
    <2>1. ending[c] \in Endings /\ request[c] \in Requests
      BY DEF TimedInv, TimedTypeOK
    <2>2. ParseResult(ReplyOf(request[c], ending[c])) = "result"
      BY DEF TimedInv, Ending, TransportErrors, Abandoned
    <2>3. ending[c] = "rows"
      BY <2>1, <2>2, ReplyFacts
    <2>4. PICK n \in 0..MaxRows : page[c] = PageOf(request[c], n)
      BY <2>3 DEF TimedInv, Ending
    <2> QED BY <2>1, <2>4, PageFacts
  <1> QED BY <1>1, TimedInvariant, PTL
=============================================================================
