--------------------------- MODULE MCToolExecution ---------------------------
(* Instances of ToolExecution for TLC, with the timeouts of the code.      *)
EXTENDS ToolExecution, TLC

Execute(t, n, ok) ==
    [tool |-> "execute_readonly_query", timeout |-> t, rows |-> n, select |-> ok]

Inspect == [tool |-> "inspect_schema", timeout |-> 0, rows |-> 0, select |-> FALSE]

(* QUERY_TIMEOUT_SECONDS of agent_service.py, the bounds of the contract,  *)
(* one request each that _validate_input and _validate_sql refuse, and the *)
(* inspection of the startup.                                              *)
MCRequests ==
    {Execute(10, 2, TRUE), Execute(15, 1, TRUE), Execute(16, 2, TRUE),
     Execute(1, 3, TRUE), Execute(1, 1, FALSE), Inspect}

MCInspections == {Inspect}

Symmetry == Permutations(Calls)
=============================================================================
