------------------------- MODULE ToolContractsProofs -------------------------
(***************************************************************************)
(* Proofs about ToolContracts, for every server: any tools, with any       *)
(* parameters.                                                             *)
(***************************************************************************)
EXTENDS ToolContracts, TLAPS

(* The arguments of a call are the contract's properties, all required.    *)
LEMMA ArgumentsAreExpected ==
    ASSUME NEW tool \in DOMAIN Arguments
    PROVE  /\ tool \in DOMAIN ExpectedTools
           /\ DOMAIN Arguments[tool] = DOMAIN ExpectedTools[tool].properties
           /\ ExpectedTools[tool].required = DOMAIN Arguments[tool]
           /\ \A p \in DOMAIN Arguments[tool] :
                 ExpectedTools[tool].properties[p] = Arguments[tool][p]
<1>1. tool \in {"inspect_schema", "execute_readonly_query"}
  BY DEF Arguments
<1>2. CASE tool = "inspect_schema"
  BY <1>2 DEF Arguments, ExpectedTools
<1>3. CASE tool = "execute_readonly_query"
  BY <1>3 DEF Arguments, ExpectedTools
<1> QED
  BY <1>1, <1>2, <1>3

(* A signature that matches the contract takes every argument, if it does  *)
(* not refuse a value for an annotation that narrows the type.             *)
LEMMA MatchingIsDelivered ==
    ASSUME NEW s, NEW tool \in DOMAIN Arguments,
           SchemaMatches(InputSchema(s), ExpectedTools[tool]),
           NEW fate \in Deliveries(s, Arguments[tool])
    PROVE  fate = "delivered" \/ (fate = "refused" /\ \E p \in DOMAIN s : s[p].narrow)
<1>1. DOMAIN s = DOMAIN Arguments[tool]
  BY ArgumentsAreExpected DEF SchemaMatches, InputSchema
<1>2. \A p \in DOMAIN s : s[p].type = Arguments[tool][p]
  BY <1>1, ArgumentsAreExpected DEF SchemaMatches, InputSchema
<1>3. ~Invalid(s, Arguments[tool])
  BY <1>1, <1>2 DEF Invalid
<1> QED
  BY <1>1, <1>3 DEF Deliveries

(* The server's own signatures match it.                                   *)
LEMMA OwnToolsMatch ==
    ASSUME NEW tool \in DOMAIN ExpectedTools
    PROVE  /\ tool \in DOMAIN ServerTools
           /\ SchemaMatches(InputSchema(ServerTools[tool]), ExpectedTools[tool])
<1>1. tool \in {"inspect_schema", "execute_readonly_query"}
  BY DEF ExpectedTools
<1>2. CASE tool = "inspect_schema"
  BY <1>2 DEF ServerTools, ExpectedTools, InputSchema, SchemaMatches, Needed
<1>3. CASE tool = "execute_readonly_query"
  BY <1>3 DEF ServerTools, ExpectedTools, InputSchema, SchemaMatches, Needed
<1> QED
  BY <1>1, <1>2, <1>3

-----------------------------------------------------------------------------
(* What has been decided and delivered follows from the server alone.      *)
ContractInv ==
    /\ server \in Servers
    /\ delivery \in [DOMAIN Arguments -> {"none", "delivered", "refused"}]
    /\ AcceptedServesCalls
    /\ verdict \in {"pending", VerifyToolContracts(server)}

(* The invariant holds in every reachable state.                           *)
LEMMA ContractInvariant == Spec => []ContractInv
<1>1. Init => ContractInv
  BY DEF Init, ContractInv, AcceptedServesCalls
<1>2. ContractInv /\ [Next]_contractVars => ContractInv'
  <2> SUFFICES ASSUME ContractInv, [Next]_contractVars
               PROVE  ContractInv'
    OBVIOUS
  <2>1. CASE Verify
    BY <2>1 DEF Verify, ContractInv, AcceptedServesCalls
  <2>2. ASSUME NEW tool \in DOMAIN Arguments, CallTool(tool)
        PROVE  ContractInv'
    <3>1. verdict = VerifyToolContracts(server) /\ verdict = "accepted"
      BY <2>2 DEF CallTool, ContractInv
    <3>2. SchemaMatches(InputSchema(server[tool]), ExpectedTools[tool])
      BY <3>1, ArgumentsAreExpected DEF VerifyToolContracts
    <3>3. PICK fate \in Deliveries(server[tool], Arguments[tool]) :
              delivery' = [delivery EXCEPT ![tool] = fate]
      BY <2>2 DEF CallTool
    <3>4. \/ fate = "delivered"
          \/ fate = "refused" /\ \E p \in DOMAIN server[tool] : server[tool][p].narrow
      BY <3>2, MatchingIsDelivered
    <3>5. UNCHANGED <<server, verdict>>
      BY <2>2 DEF CallTool
    <3> QED
      BY <3>3, <3>4, <3>5 DEF ContractInv, AcceptedServesCalls
  <2>3. CASE UNCHANGED contractVars
    BY <2>3 DEF contractVars, ContractInv, AcceptedServesCalls
  <2> QED
    BY <2>1, <2>2, <2>3 DEF Next
<1> QED
  BY <1>1, <1>2, PTL DEF Spec

(* Every variable has its type.                                            *)
THEOREM ContractTypeCorrect == Spec => []TypeOK
<1>1. ContractInv => TypeOK
  BY DEF ContractInv, TypeOK, VerifyToolContracts
<1> QED
  BY <1>1, ContractInvariant, PTL

(* contracts.py accepts no server that would run a call of the manager     *)
(* without one of its arguments, or refuse it where every parameter takes  *)
(* all values of its type.                                                 *)
THEOREM AcceptedServersServe == Spec => []AcceptedServesCalls
<1>1. ContractInv => AcceptedServesCalls
  BY DEF ContractInv
<1> QED
  BY <1>1, ContractInvariant, PTL

(* contracts.py refuses no server that has the signatures of server.py.    *)
THEOREM OnlyDriftIsRefused == Spec => []RefusedHasDrifted
<1>1. ContractInv => RefusedHasDrifted
  <2> SUFFICES ASSUME ContractInv,
                      \A tool \in DOMAIN ServerTools :
                          tool \in DOMAIN server /\ server[tool] = ServerTools[tool]
               PROVE  verdict \in {"pending", "accepted"}
    BY DEF RefusedHasDrifted
  <2>1. \A tool \in DOMAIN ExpectedTools :
            /\ tool \in DOMAIN server
            /\ SchemaMatches(InputSchema(server[tool]), ExpectedTools[tool])
    BY OwnToolsMatch
  <2>2. VerifyToolContracts(server) = "accepted"
    BY <2>1 DEF VerifyToolContracts
  <2> QED
    BY <2>2 DEF ContractInv
<1> QED
  BY <1>1, ContractInvariant, PTL
=============================================================================
