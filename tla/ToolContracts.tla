--------------------------- MODULE ToolContracts ---------------------------
(***************************************************************************)
(* The contract of the two tools is written down three times: in the       *)
(* signatures of the MCP server, in the arguments that MCPClientManager    *)
(* sends, and in _EXPECTED_TOOLS, with which the startup compares what the *)
(* server says of itself.  The server is a process of its own that may be  *)
(* of another version; a contract is drifted when the three no longer say  *)
(* the same.                                                               *)
(*                                                                         *)
(* A signature maps each parameter to its JSON type, to whether it has a   *)
(* default and to whether its annotation narrows the type down, so that    *)
(* some values of the type are refused: a bound, a Literal, the type of    *)
(* the elements.  "untyped" stands for an annotation whose schema has no   *)
(* "type" (a union, Any).                                                  *)
(***************************************************************************)
EXTENDS FiniteSets

CONSTANT Servers  \* the servers that may be installed: signatures by name of the tool

JsonTypes == {"string", "array", "integer", "untyped"}

Signature(s) ==
    /\ IsFiniteSet(DOMAIN s)
    /\ \A p \in DOMAIN s : s[p] \in [type : JsonTypes, hasDefault : BOOLEAN, narrow : BOOLEAN]

ASSUME ServersAssumption ==
    \A server \in Servers : \A tool \in DOMAIN server : Signature(server[tool])

-----------------------------------------------------------------------------
(* What the three places say.                                              *)

Needed(type) == [type |-> type, hasDefault |-> FALSE, narrow |-> FALSE]

ServerTools ==
    [inspect_schema |-> [correlation_id |-> Needed("string")],
     execute_readonly_query |->
        [sql |-> Needed("string"),
         parameters |-> Needed("array"),
         correlation_id |-> Needed("string"),
         query_timeout_seconds |-> Needed("integer"),
         maximum_returned_rows |-> Needed("integer")]]

(* The arguments of each call, with the types of their values.             *)
Arguments ==
    [inspect_schema |-> [correlation_id |-> "string"],
     execute_readonly_query |->
        [sql |-> "string",
         parameters |-> "array",
         correlation_id |-> "string",
         query_timeout_seconds |-> "integer",
         maximum_returned_rows |-> "integer"]]

(* Mutant of ExpectedTools: the list was not extended with the arguments   *)
(* of execute_readonly_query that bound the work of the database.          *)
ExpectedWithoutBounds ==
    [inspect_schema |-> [properties |-> [correlation_id |-> "string"],
                         required |-> {"correlation_id"}],
     execute_readonly_query |->
        [properties |-> [sql |-> "string", parameters |-> "array", correlation_id |-> "string"],
         required |-> {"sql", "parameters", "correlation_id"}]]

ExpectedTools ==
    LET query == [sql |-> "string",
                  parameters |-> "array",
                  correlation_id |-> "string",
                  query_timeout_seconds |-> "integer",
                  maximum_returned_rows |-> "integer"]
    IN  [inspect_schema |-> [properties |-> [correlation_id |-> "string"],
                             required |-> {"correlation_id"}],
         execute_readonly_query |-> [properties |-> query, required |-> DOMAIN query]]

-----------------------------------------------------------------------------
(* What contracts.py reads of the inputSchema that FastMCP publishes for a *)
(* signature: of a property nothing but its "type" (contracts.py:59), so   *)
(* that it does not see what narrows the type.                             *)
InputSchema(signature) ==
    [properties |-> [p \in DOMAIN signature |-> signature[p].type],
     required |-> {p \in DOMAIN signature : ~signature[p].hasDefault}]

(* Mutant of SchemaMatches: the properties need only cover the contract.   *)
SchemaCovers(schema, expected) ==
    /\ DOMAIN expected.properties \subseteq DOMAIN schema.properties
    /\ expected.required \subseteq schema.required
    /\ \A p \in DOMAIN expected.properties : schema.properties[p] = expected.properties[p]

(* Names, required names and types, in this order; the three comparisons   *)
(* raise the same reason.                                                  *)
SchemaMatches(schema, expected) ==
    /\ DOMAIN schema.properties = DOMAIN expected.properties
    /\ schema.required = expected.required
    /\ \A p \in DOMAIN expected.properties : schema.properties[p] = expected.properties[p]

(* Mutant of VerifyToolContracts: the list of tools must be the contract's.*)
VerifyExactly(server) ==
    IF DOMAIN server # DOMAIN ExpectedTools THEN "tool_missing"
    ELSE IF \A tool \in DOMAIN ExpectedTools :
                SchemaMatches(InputSchema(server[tool]), ExpectedTools[tool])
         THEN "accepted"
    ELSE "tool_contract_mismatch"

(* The outcome of verify_tool_contracts on what the server lists.          *)
VerifyToolContracts(server) ==
    IF ~(DOMAIN ExpectedTools \subseteq DOMAIN server) THEN "tool_missing"
    ELSE IF \A tool \in DOMAIN ExpectedTools :
                SchemaMatches(InputSchema(server[tool]), ExpectedTools[tool])
         THEN "accepted"
    ELSE "tool_contract_mismatch"

(* What FastMCP may do with a call: it refuses one that its model of the   *)
(* parameters does not validate, and drops an argument it does not know.   *)
(* Whether a value passes a narrower annotation depends on both.           *)
Invalid(signature, arguments) ==
    \/ \E p \in DOMAIN signature \ DOMAIN arguments : ~signature[p].hasDefault
    \/ \E p \in DOMAIN signature \cap DOMAIN arguments :
          signature[p].type \notin {arguments[p], "untyped"}

Deliveries(signature, arguments) ==
    IF Invalid(signature, arguments)
    THEN {"refused"}
    ELSE {IF DOMAIN arguments \subseteq DOMAIN signature THEN "delivered" ELSE "argument_dropped"}
         \cup {"refused" : p \in {q \in DOMAIN signature \cap DOMAIN arguments : signature[q].narrow}}

-----------------------------------------------------------------------------
VARIABLES server,   \* the signatures of the installed server
          verdict,  \* of verify_tool_contracts
          delivery  \* what became of the first call of each tool

contractVars == <<server, verdict, delivery>>

Init ==
    /\ server \in Servers
    /\ verdict = "pending"
    /\ delivery = [tool \in DOMAIN Arguments |-> "none"]

(* Mutant of Verify: the clause that lets MCPStartupError through is gone, *)
(* and the next one wraps it.                                              *)
VerifyWrapped ==
    /\ verdict = "pending"
    /\ verdict' = IF VerifyToolContracts(server) = "accepted" THEN "accepted" ELSE "startup_failed"
    /\ UNCHANGED <<server, delivery>>

(* The startup, between list_tools and the first call.                     *)
Verify ==
    /\ verdict = "pending"
    /\ verdict' = VerifyToolContracts(server)
    /\ UNCHANGED <<server, delivery>>

(* inspect_schema or execute_readonly_query of the manager, which exists   *)
(* only when the verification has accepted.                                *)
CallTool(tool) ==
    /\ verdict = "accepted" /\ delivery[tool] = "none"
    /\ \E fate \in Deliveries(server[tool], Arguments[tool]) :
          delivery' = [delivery EXCEPT ![tool] = fate]
    /\ UNCHANGED <<server, verdict>>

Next == Verify \/ \E tool \in DOMAIN Arguments : CallTool(tool)

Spec == Init /\ [][Next]_contractVars

-----------------------------------------------------------------------------
(* The startup raises one of two reasons or goes on; a call has one fate.  *)
TypeOK ==
    /\ server \in Servers
    /\ verdict \in {"pending", "accepted", "tool_missing", "tool_contract_mismatch"}
    /\ delivery \in [DOMAIN Arguments -> {"none", "delivered", "refused", "argument_dropped"}]

(* A server that the startup accepts loses no argument of a call, and      *)
(* refuses one only for a value that an annotation narrower than its type  *)
(* excludes.  A query without its time limit or its limit of rows, which a *)
(* server that does not know them would run, is what the comparison at     *)
(* contracts.py:41 is there to exclude.                                    *)
AcceptedServesCalls ==
    \A tool \in DOMAIN delivery :
        /\ delivery[tool] # "argument_dropped"
        /\ delivery[tool] = "refused" =>
              \E p \in DOMAIN server[tool] : server[tool][p].narrow

(* The verification refuses for drift alone: a server with the signatures  *)
(* of server.py is accepted, whatever other tools it offers.               *)
RefusedHasDrifted ==
    verdict \in {"tool_missing", "tool_contract_mismatch"} =>
        \E tool \in DOMAIN ServerTools :
            tool \in DOMAIN server => server[tool] # ServerTools[tool]
=============================================================================
