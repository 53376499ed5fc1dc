----------------------- MODULE McpClientManagerProofs -----------------------
(***************************************************************************)
(* Proofs about McpClientManager, for any set of calls.                    *)
(***************************************************************************)
EXTENDS McpClientManager, SequenceTheorems, TLAPS

(* Whatever the session hands back, the parsed outcome ends the call and   *)
(* is an error of the tool, a result or an unclassified exception.         *)
LEMMA ParseResultType ==
    ASSUME NEW r \in Replies
    PROVE  ParseResult(r) \in {"result", "unclassified"} \cup ToolErrors
  BY DEF ParseResult, Replies, ToolErrors

(* Init establishes the invariant.                                         *)
LEMMA InitSerialInv == Init => SerialInv
  <1> SUFFICES ASSUME Init
               PROVE  SerialInv
    OBVIOUS
  <1> USE DEF Init
  <1>1. TypeOK
    BY EmptySeq DEF TypeOK, CallStates, Outcomes, ServerStates
  <1>2. QueueInv
    BY DEF QueueInv
  <1>3. LockInv /\ RequestInv
    BY NoCallAssumption DEF LockInv, RequestInv, AtServer, Abandoned
  <1>4. OutcomeTellsServer /\ OneDiscovery
    BY DEF OutcomeTellsServer, OneDiscovery, ToolErrors, Abandoned
  <1> QED BY <1>1, <1>2, <1>3, <1>4 DEF SerialInv

(* The head and the tail of the queue, in terms of its positions.          *)
LEMMA QueueHeadTail ==
    ASSUME NEW q \in Seq(Calls), q # <<>>
    PROVE  /\ Head(q) = q[1] /\ 1 \in 1..Len(q)
           /\ Head(q) \in Calls
           /\ Tail(q) \in Seq(Calls)
           /\ Len(Tail(q)) = Len(q) - 1
           /\ \A i \in 1..Len(Tail(q)) : i + 1 \in 1..Len(q) /\ Tail(q)[i] = q[i + 1]
  BY HeadTailProperties, LenProperties

(* BeginCall, from a free lock and an available session, keeps everything  *)
(* but the queue.                                                          *)
LEMMA BeginCallKeeps ==
    ASSUME TypeOK, LockInv, RequestInv, OutcomeTellsServer, OneDiscovery,
           NEW c \in Calls, state[c] \in {"idle", "waiting"},
           lock = NoCall, ~unavailable,
           waiters' \in Seq(Calls),
           BeginCall(c)
    PROVE  (TypeOK /\ LockInv /\ RequestInv /\ OutcomeTellsServer /\ OneDiscovery)'
  <1>1. TypeOK'
    BY DEF BeginCall, TypeOK, CallStates, ServerStates
  <1>2. LockInv'
    BY NoCallAssumption DEF BeginCall, TypeOK, LockInv
  <1>3. RequestInv'
    BY DEF BeginCall, TypeOK, RequestInv, AtServer, Abandoned
  <1>4. OutcomeTellsServer'
    BY DEF BeginCall, TypeOK, OutcomeTellsServer, RequestInv, ToolErrors
  <1>5. OneDiscovery'
    BY DEF BeginCall, OneDiscovery
  <1> QED BY <1>1, <1>2, <1>3, <1>4, <1>5

(* An invocation keeps the invariant, refused, admitted or queued.          *)
LEMMA InvokeKeeps ==
    ASSUME SerialInv, NEW c \in Calls, Invoke(c)
    PROVE  SerialInv'
  <1> USE DEF SerialInv
  <1>0. state[c] = "idle"
    BY DEF Invoke
  <1>1. CASE InvokeRefused(c)
    <2> USE <1>0, <1>1 DEF InvokeRefused, EndCall, serverVars
    <2>1. TypeOK'
      BY DEF TypeOK, CallStates, Outcomes, TransportErrors
    <2>2. QueueInv'
      BY DEF QueueInv, TypeOK
    <2>3. LockInv'
      BY DEF LockInv, TypeOK
    <2>4. RequestInv'
      BY DEF RequestInv, TypeOK, AtServer, Abandoned
    <2>5. OutcomeTellsServer'
      BY DEF OutcomeTellsServer, RequestInv, TypeOK, ToolErrors
    <2>6. OneDiscovery'
      BY DEF OneDiscovery, TypeOK, Abandoned
    <2> QED BY <2>1, <2>2, <2>3, <2>4, <2>5, <2>6
  <1>2. CASE InvokeAcquires(c)
    <2>1. QueueInv'
      BY <1>0, <1>2 DEF InvokeAcquires, BeginCall, QueueInv, TypeOK
    <2> QED BY <1>0, <1>2, <2>1, BeginCallKeeps DEF InvokeAcquires, TypeOK
  <1>3. CASE InvokeWaits(c)
    <2> USE <1>0, <1>3 DEF InvokeWaits, serverVars
    <2>1. TypeOK'
      BY AppendProperties DEF TypeOK, CallStates
    <2>2. QueueInv'
      <3>1. /\ Len(waiters') = Len(waiters) + 1
            /\ waiters'[Len(waiters) + 1] = c
            /\ \A i \in 1..Len(waiters) : waiters'[i] = waiters[i] /\ waiters[i] \in Calls
        BY AppendProperties, ElementOfSeq DEF TypeOK
      <3>2. \A i \in 1..Len(waiters) : waiters[i] # c
        BY DEF QueueInv
      <3>3. Len(waiters) \in Nat
        BY LenProperties DEF TypeOK
      <3> QED BY <3>1, <3>2, <3>3 DEF QueueInv, TypeOK
    <2>3. LockInv'
      BY DEF LockInv, TypeOK
    <2>4. RequestInv'
      BY DEF RequestInv, TypeOK, AtServer
    <2>5. OutcomeTellsServer'
      BY DEF OutcomeTellsServer
    <2>6. OneDiscovery'
      BY DEF OneDiscovery
    <2> QED BY <2>1, <2>2, <2>3, <2>4, <2>5, <2>6
  <1> QED BY <1>1, <1>2, <1>3 DEF Invoke

(* The oldest waiter keeps it, refused or admitted.                        *)
LEMMA AcquireKeeps ==
    ASSUME SerialInv, NEW c \in Calls, Acquire(c)
    PROVE  SerialInv'
  <1> USE DEF SerialInv
  <1>0. state[c] = "waiting" /\ waiters' \in Seq(Calls)
    BY QueueHeadTail DEF Acquire, QueueInv, TypeOK
  <1>1. ASSUME \A d \in Calls \ {c} : state'[d] = state[d]
        PROVE  QueueInv'
    <2>1. /\ waiters' = Tail(waiters) /\ c = waiters[1] /\ 1 \in 1..Len(waiters)
          /\ \A i \in 1..Len(waiters') :
                i + 1 \in 1..Len(waiters) /\ waiters'[i] = waiters[i + 1]
          /\ Len(waiters') = Len(waiters) - 1
      BY QueueHeadTail DEF Acquire, TypeOK
    <2>2. Len(waiters) \in Nat
      BY LenProperties DEF TypeOK
    <2>3. \A i \in 1..Len(waiters') : waiters'[i] \in Calls \ {c}
      <3> TAKE i \in 1..Len(waiters')
      <3>1. waiters[i + 1] \in Calls
        BY <2>1, ElementOfSeq DEF TypeOK
      <3>2. waiters[i + 1] # waiters[1]
        BY <2>1, <2>2 DEF QueueInv
      <3> QED BY <2>1, <3>1, <3>2
    <2> QED BY <1>1, <2>1, <2>2, <2>3 DEF QueueInv
  <1>2. CASE unavailable
    <2> USE <1>0, <1>2 DEF Acquire, EndCall, serverVars
    <2>1. TypeOK'
      BY DEF TypeOK, CallStates, Outcomes, TransportErrors
    <2>2. QueueInv'
      BY <1>1 DEF TypeOK
    <2>3. LockInv'
      BY DEF LockInv, TypeOK
    <2>4. RequestInv'
      BY DEF RequestInv, TypeOK, AtServer, Abandoned
    <2>5. OutcomeTellsServer'
      BY DEF OutcomeTellsServer, RequestInv, TypeOK, ToolErrors
    <2>6. OneDiscovery'
      BY DEF OneDiscovery, TypeOK, Abandoned
    <2> QED BY <2>1, <2>2, <2>3, <2>4, <2>5, <2>6
  <1>3. CASE ~unavailable
    <2>1. QueueInv'
      BY <1>1, <1>3 DEF Acquire, BeginCall, TypeOK
    <2> QED BY <1>0, <1>3, <2>1, BeginCallKeeps DEF Acquire
  <1> QED BY <1>2, <1>3

(* An answer that is returned keeps it.                                    *)
LEMMA ReturnKeeps ==
    ASSUME SerialInv, NEW c \in Calls, Return(c)
    PROVE  SerialInv'
  <1> USE DEF SerialInv, Return, EndCall
  <1>0. ParseResult(reply[c]) \in {"result", "unclassified"} \cup ToolErrors
    BY ParseResultType DEF RequestInv
  <1>1. TypeOK'
    BY <1>0 DEF TypeOK, CallStates, ServerStates, Outcomes
  <1>2. QueueInv'
    BY DEF QueueInv, TypeOK
  <1>3. LockInv'
    BY NoCallAssumption DEF LockInv, TypeOK
  <1>4. RequestInv'
    BY <1>0 DEF RequestInv, TypeOK, AtServer, Abandoned, ToolErrors
  <1>5. OutcomeTellsServer'
    BY <1>0 DEF OutcomeTellsServer, TypeOK, ToolErrors
  <1>6. OneDiscovery'
    BY <1>0 DEF OneDiscovery, TypeOK, Abandoned, ToolErrors
  <1> QED BY <1>1, <1>2, <1>3, <1>4, <1>5, <1>6

(* The call that gives up is the only one so far: it holds the lock, so    *)
(* the flag is not set, so nobody gave up before.                          *)
LEMMA AbandonKeeps ==
    ASSUME SerialInv, NEW c \in Calls, NEW o \in Abandoned,
           state[c] = "calling", EndCall(c, o),
           unavailable' = TRUE, lock' = NoCall,
           UNCHANGED <<waiters, serverVars>>
    PROVE  SerialInv'
  <1> USE DEF SerialInv, EndCall, serverVars
  <1>0. /\ o \in {"call_timeout", "connection_closed"}
        /\ \A d \in Calls : outcome[d] \notin Abandoned
    BY NoCallAssumption DEF LockInv, RequestInv, TypeOK, Abandoned
  <1>1. TypeOK'
    BY <1>0 DEF TypeOK, CallStates, Outcomes, TransportErrors, Abandoned
  <1>2. QueueInv'
    BY DEF QueueInv, TypeOK
  <1>3. LockInv'
    BY NoCallAssumption DEF LockInv, TypeOK
  <1>4. RequestInv'
    BY <1>0 DEF RequestInv, TypeOK, AtServer, Abandoned
  <1>5. OutcomeTellsServer'
    BY <1>0 DEF OutcomeTellsServer, TypeOK, ToolErrors
  <1>6. OneDiscovery'
    BY <1>0 DEF OneDiscovery, TypeOK
  <1> QED BY <1>1, <1>2, <1>3, <1>4, <1>5, <1>6

(* The server only moves requests that it has, and never backwards.        *)
LEMMA ServerKeeps ==
    ASSUME SerialInv, \/ ServerExit
                      \/ \E c \in Calls : ServerStep(c)
    PROVE  SerialInv'
  <1> USE DEF SerialInv, clientVars, AtServer
  <1>1. /\ UNCHANGED clientVars
        /\ server' \in [Calls -> ServerStates]
        /\ reply' \in [Calls -> Replies \cup {"none"}]
        /\ serverUp' \in BOOLEAN
        /\ \A c \in Calls :
              /\ server[c] = "none" <=> server'[c] = "none"
              /\ server[c] = "finished" => server'[c] = "finished"
              /\ AtServer(c)' => AtServer(c)
              /\ server'[c] = "answered" => reply'[c] \in Replies
    BY DEF ServerExit, ServerStep, ServerStart, ServerAnswer, DropLateAnswer,
           TypeOK, ServerStates, RequestInv
  <1>2. TypeOK'
    BY <1>1 DEF TypeOK
  <1>3. QueueInv' /\ LockInv' /\ OneDiscovery'
    BY <1>1 DEF QueueInv, LockInv, OneDiscovery
  <1>4. RequestInv'
    BY <1>1 DEF RequestInv
  <1>5. OutcomeTellsServer'
    BY <1>1 DEF OutcomeTellsServer
  <1> QED BY <1>2, <1>3, <1>4, <1>5

(* Every step of the manager and of the server keeps the invariant.        *)
LEMMA StepSerialInv == SerialInv /\ [Next]_vars => SerialInv'
  <1> SUFFICES ASSUME SerialInv, [Next]_vars
               PROVE  SerialInv'
    OBVIOUS
  <1>1. ASSUME NEW c \in Calls, ClientStep(c)
        PROVE  SerialInv'
    <2>1. CASE CallTimeout(c)
      BY <2>1, AbandonKeeps DEF CallTimeout, Abandoned
    <2>2. CASE ConnectionClosed(c)
      BY <2>2, AbandonKeeps DEF ConnectionClosed, Abandoned
    <2> QED BY <1>1, <2>1, <2>2, InvokeKeeps, AcquireKeeps, ReturnKeeps DEF ClientStep
  <1>2. CASE UNCHANGED vars
    BY <1>2 DEF vars, clientVars, serverVars, SerialInv, TypeOK, QueueInv, LockInv,
                RequestInv, OutcomeTellsServer, OneDiscovery, AtServer
  <1> QED BY <1>1, <1>2, ServerKeeps DEF Next, Terminating

(* The inductive invariant holds in every reachable state.                 *)
THEOREM SerialInvariant == Spec => []SerialInv
  BY InitSerialInv, StepSerialInv, PTL DEF Spec

(* Type correctness of the manager and of the server's view of it.         *)
THEOREM TypeCorrect == Spec => []TypeOK
  <1>1. SerialInv => TypeOK
    BY DEF SerialInv
  <1> QED BY <1>1, SerialInvariant, PTL

(* At most one tool call is at the server, for any number of concurrent    *)
(* requests, timeouts and late answers.                                    *)
THEOREM ServerIsSerial == Spec => []ServerSerial
  <1>1. SerialInv => ServerSerial
    <2> SUFFICES ASSUME SerialInv, NEW c \in Calls, NEW d \in Calls,
                        AtServer(c), AtServer(d)
                 PROVE  c = d
      BY DEF ServerSerial
    <2> USE DEF SerialInv
    <2>1. \A e \in {c, d} : lock = e \/ outcome[e] \in Abandoned
      BY DEF RequestInv, LockInv, AtServer, TypeOK, CallStates
    <2> QED BY <2>1, NoCallAssumption DEF RequestInv, LockInv, OneDiscovery
  <1> QED BY <1>1, SerialInvariant, PTL

(* An outcome tells the truth about the request; one call finds the        *)
(* session broken.                                                         *)
THEOREM OutcomesAreTruthful == Spec => [](OutcomeTellsServer /\ OneDiscovery)
  <1>1. SerialInv => OutcomeTellsServer /\ OneDiscovery
    BY DEF SerialInv
  <1> QED BY <1>1, SerialInvariant, PTL
-----------------------------------------------------------------------------
(* Refinement: the manager implements ToolChannel.                         *)

(* While the lock is held, the call that holds it is alone in flight;      *)
(* while it is free and the session usable, nothing is.                    *)
InFlightInv ==
    /\ InFlight \subseteq Calls
    /\ \A c \in Calls : state[c] = "calling" => InFlight = {c} /\ ~unavailable
    /\ lock = NoCall /\ ~unavailable => InFlight = {}
    /\ \A c \in Calls : state[c] \in {"idle", "waiting"} => c \notin InFlight
    /\ \A c, d \in InFlight : c = d

(* The lock and the flag bound what is in flight.                          *)
LEMMA InFlightOfHolder == SerialInv => InFlightInv
  <1> SUFFICES ASSUME SerialInv
               PROVE  InFlightInv
    OBVIOUS
  <1> USE DEF SerialInv
  <1>1. \A c \in Calls : c \in InFlight <=> state[c] = "calling" \/ AtServer(c)
    BY DEF InFlight
  <1>2. \A c \in Calls : AtServer(c) => lock = c \/ outcome[c] \in Abandoned
    BY DEF RequestInv, LockInv, AtServer, TypeOK, CallStates
  <1>3. InFlight \subseteq Calls
    BY DEF InFlight
  <1>4. \A c \in Calls : state[c] \in {"idle", "waiting"} => c \notin InFlight
    BY <1>1 DEF RequestInv, AtServer
  <1>5. \A c \in Calls : state[c] = "calling" => ~unavailable /\ InFlight = {c}
    <2> SUFFICES ASSUME NEW c \in Calls, state[c] = "calling"
                 PROVE  ~unavailable /\ InFlight = {c}
      OBVIOUS
    <2>1. lock = c /\ ~unavailable
      BY NoCallAssumption DEF LockInv, TypeOK
    <2>2. \A d \in InFlight : d = c
      BY <1>1, <1>2, <1>3, <2>1 DEF LockInv, RequestInv
    <2> QED BY <1>1, <2>1, <2>2
  <1>6. lock = NoCall /\ ~unavailable => InFlight = {}
    BY <1>1, <1>2, <1>3, NoCallAssumption DEF LockInv, RequestInv
  <1>7. \A c, d \in InFlight : c = d
    BY <1>1, <1>2, <1>3, NoCallAssumption DEF LockInv, RequestInv, OneDiscovery
  <1> QED BY <1>3, <1>4, <1>5, <1>6, <1>7 DEF InFlightInv

(* Ending call c with outcome o moves only the answer of c.                *)
LEMMA EndCallAnswers ==
    ASSUME TypeOK, NEW c \in Calls, NEW o, EndCall(c, o)
    PROVE  [d \in Calls |-> AnswerOf(outcome[d])]' =
              [[d \in Calls |-> AnswerOf(outcome[d])] EXCEPT ![c] = AnswerOf(o)]
  BY DEF EndCall, TypeOK, AnswerOf

(* Client steps: Invoke and Acquire send, queue or refuse; an awaited call *)
(* ends by Settle or by Abandon.                                           *)
LEMMA ClientStepRefines ==
    ASSUME SerialInv, SerialInv', InFlightInv, InFlightInv',
           NEW c \in Calls, ClientStep(c)
    PROVE  Channel!Next \/ UNCHANGED Channel!channelVars
  <1> DEFINE ans == [d \in Calls |-> AnswerOf(outcome[d])]
  <1>0. TypeOK /\ TypeOK'
    BY DEF SerialInv
  <1>1. ASSUME BeginCall(c), state[c] \in {"idle", "waiting"}, lock = NoCall, ~unavailable
        PROVE  Channel!Send(c)
    <2>1. InFlight = {} /\ InFlight' = {c}
      BY <1>0, <1>1 DEF BeginCall, TypeOK, InFlightInv
    <2>2. ans[c] = "none"
      BY <1>1 DEF AnswerOf, SerialInv, RequestInv
    <2> QED BY <1>1, <2>1, <2>2 DEF BeginCall, Channel!Send
  <1>2. ASSUME EndCall(c, "unavailable"), state[c] \in {"idle", "waiting"}, unavailable,
               UNCHANGED <<unavailable, serverVars>>
        PROVE  Channel!Refuse(c)
    <2>1. InFlight' = InFlight /\ c \notin InFlight
      BY <1>0, <1>2 DEF EndCall, TypeOK, InFlightInv, InFlight, AtServer, serverVars
    <2>2. ans[c] = "none"
      BY <1>2 DEF AnswerOf, SerialInv, RequestInv
    <2>3. ans' = [ans EXCEPT ![c] = "refused"]
      BY <1>0, <1>2, EndCallAnswers DEF AnswerOf
    <2> QED BY <1>2, <2>1, <2>2, <2>3 DEF Channel!Refuse
  <1>3. CASE Invoke(c)
    <2>1. CASE InvokeWaits(c)
      BY <1>0, <1>3, <2>1 DEF Invoke, InvokeWaits, Channel!channelVars, InFlight, AtServer,
                              serverVars, TypeOK
    <2> QED BY <1>1, <1>2, <1>3, <2>1
            DEF Invoke, InvokeRefused, InvokeAcquires, Channel!Next
  <1>4. CASE Acquire(c)
    <2>1. state[c] = "waiting"
      BY <1>4, QueueHeadTail DEF SerialInv, TypeOK, QueueInv, Acquire
    <2> QED BY <1>1, <1>2, <1>4, <2>1 DEF Acquire, Channel!Next
  <1>5. CASE Return(c)
    <2>1. ParseResult(reply[c]) \in {"result", "unclassified"} \cup ToolErrors
      BY <1>5, ParseResultType DEF Return, SerialInv, RequestInv
    <2>2. ans' = [ans EXCEPT ![c] = "settled"]
      BY <1>0, <1>5, <2>1, EndCallAnswers DEF Return, AnswerOf, ToolErrors, Abandoned
    <2>3. InFlight = {c} /\ InFlight' = {}
      BY <1>5 DEF Return, InFlightInv
    <2>4. ans[c] = "none"
      BY <1>5 DEF Return, AnswerOf, SerialInv, RequestInv
    <2> QED BY <1>5, <2>2, <2>3, <2>4 DEF Return, Channel!Settle, Channel!Next
  <1>6. ASSUME NEW o \in Abandoned, state[c] = "calling", EndCall(c, o),
               unavailable' = TRUE, lock' = NoCall, UNCHANGED <<waiters, serverVars>>
        PROVE  Channel!Abandon(c)
    <2>1. InFlight = {c} /\ InFlight' \subseteq InFlight
      <3>1. \A d \in Calls : state'[d] = "calling" => state[d] = "calling"
        BY <1>0, <1>6 DEF EndCall, TypeOK
      <3> QED BY <1>6, <3>1 DEF InFlightInv, InFlight, AtServer, serverVars
    <2>2. ans[c] = "none"
      BY <1>6 DEF AnswerOf, SerialInv, RequestInv
    <2>3. ans' = [ans EXCEPT ![c] = "unknown"]
      BY <1>0, <1>6, EndCallAnswers DEF AnswerOf, Abandoned
    <2>4. InFlight' \in {{}, {c}}
      BY <2>1
    <2> QED BY <1>6, <2>1, <2>2, <2>3, <2>4 DEF Channel!Abandon
  <1>7. CASE CallTimeout(c) \/ ConnectionClosed(c)
    BY <1>6, <1>7 DEF CallTimeout, ConnectionClosed, Abandoned, Channel!Next
  <1> QED BY <1>3, <1>4, <1>5, <1>7 DEF ClientStep

(* Server steps: the channel sees the end of an abandoned call, or nothing. *)
LEMMA ServerStepRefines ==
    ASSUME SerialInv, SerialInv', InFlightInv, InFlightInv',
           ServerExit \/ \E c \in Calls : ServerStep(c)
    PROVE  Channel!Next \/ UNCHANGED Channel!channelVars
  <1>1. UNCHANGED clientVars /\ \A d \in Calls : AtServer(d)' => AtServer(d)
    BY DEF ServerExit, ServerStep, ServerStart, ServerAnswer, DropLateAnswer, AtServer,
           SerialInv, TypeOK
  <1>2. InFlight' \subseteq InFlight
    BY <1>1 DEF InFlight, clientVars
  <1>3. CASE InFlight' = InFlight
    BY <1>1, <1>3 DEF Channel!channelVars, clientVars
  <1>4. CASE InFlight' # InFlight
    <2>1. PICK d \in InFlight : d \notin InFlight'
      BY <1>2, <1>4
    <2>2. InFlight' = {}
      BY <1>2, <2>1 DEF InFlightInv
    <2>3. state[d] # "calling"
      BY <1>1, <2>1 DEF InFlight, clientVars
    <2>4. unavailable
      BY <2>1, <2>3 DEF InFlight, SerialInv, RequestInv, AtServer, TypeOK, CallStates
    <2> QED BY <1>1, <2>1, <2>2, <2>4 DEF Channel!Drain, Channel!Next, clientVars
  <1> QED BY <1>3, <1>4

(* MCPClientManager implements the serial, fail-stop channel, for any set  *)
(* of calls.                                                               *)
THEOREM ManagerImplementsToolChannel == Spec => ImplementsToolChannel
  <1>1. Init => Channel!Init
    BY DEF Init, Channel!Init, InFlight, AtServer, AnswerOf
  <1>2. SerialInv /\ SerialInv' /\ InFlightInv /\ InFlightInv' /\ [Next]_vars
          => [Channel!Next]_Channel!channelVars
    <2> SUFFICES ASSUME SerialInv, SerialInv', InFlightInv, InFlightInv', [Next]_vars
                 PROVE  Channel!Next \/ UNCHANGED Channel!channelVars
      OBVIOUS
    <2>1. CASE UNCHANGED vars
      BY <2>1 DEF vars, clientVars, serverVars, Channel!channelVars, InFlight, AtServer
    <2> QED BY <2>1, ClientStepRefines, ServerStepRefines DEF Next, Terminating
  <1>3. SerialInv => InFlightInv
    BY InFlightOfHolder
  <1> QED BY <1>1, <1>2, <1>3, SerialInvariant, PTL
          DEF Spec, ImplementsToolChannel, Channel!Spec
=============================================================================
