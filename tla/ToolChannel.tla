----------------------------- MODULE ToolChannel -----------------------------
(***************************************************************************)
(* What MCPClientManager promises its callers: a serial, fail-stop channel *)
(* to the tools.  One call is in flight at a time, a call is answered at   *)
(* most once, and after the first call whose fate is unknown nothing is    *)
(* sent any more.                                                          *)
(***************************************************************************)
CONSTANT Calls

VARIABLES
    inFlight,  \* calls that are awaited or that the server may still execute
    broken,    \* nothing will be sent any more
    answer     \* [Calls -> Answers]

channelVars == <<inFlight, broken, answer>>

Answers == {"none", "settled", "unknown", "refused"}

Init ==
    /\ inFlight = {}
    /\ broken = FALSE
    /\ answer = [c \in Calls |-> "none"]

Send(c) ==
    /\ ~broken /\ inFlight = {} /\ answer[c] = "none"
    /\ inFlight' = {c}
    /\ UNCHANGED <<broken, answer>>

(* The caller learns what the tool did, and the tool is done.              *)
Settle(c) ==
    /\ inFlight = {c} /\ answer[c] = "none"
    /\ inFlight' = {}
    /\ answer' = [answer EXCEPT ![c] = "settled"]
    /\ UNCHANGED broken

(* The caller gives up; the tool may go on.                                *)
Abandon(c) ==
    /\ inFlight = {c} /\ answer[c] = "none"
    /\ inFlight' \in {{}, {c}}
    /\ broken' = TRUE
    /\ answer' = [answer EXCEPT ![c] = "unknown"]

(* A call that was never sent.                                             *)
Refuse(c) ==
    /\ broken /\ c \notin inFlight /\ answer[c] = "none"
    /\ answer' = [answer EXCEPT ![c] = "refused"]
    /\ UNCHANGED <<inFlight, broken>>

(* The tool of an abandoned call ends.                                     *)
Drain ==
    /\ broken /\ inFlight # {}
    /\ inFlight' = {}
    /\ UNCHANGED <<broken, answer>>

Next ==
    \/ \E c \in Calls : Send(c) \/ Settle(c) \/ Abandon(c) \/ Refuse(c)
    \/ Drain

Spec == Init /\ [][Next]_channelVars
=============================================================================
