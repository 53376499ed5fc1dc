-------------------------- MODULE MCToolContracts --------------------------
(***************************************************************************)
(* Servers that drifted: each tool as in server.py or with one parameter   *)
(* edited, or renamed; either tool may be gone, and a tool that the        *)
(* backend does not know may be there.                                     *)
(***************************************************************************)
EXTENDS ToolContracts

Without(f, p) == [q \in DOMAIN f \ {p} |-> f[q]]

With(f, p, x) == [q \in DOMAIN f \cup {p} |-> IF q = p THEN x ELSE f[q]]

AnyParameter == [type : JsonTypes, hasDefault : BOOLEAN, narrow : BOOLEAN]

(* One parameter removed, changed, or added under a new name.              *)
Edits(signature) ==
    {Without(signature, p) : p \in DOMAIN signature}
        \cup {With(signature, p, x) : p \in DOMAIN signature \cup {"dry_run"}, x \in AnyParameter}

Catalog(inspect, query) ==
    [tool \in (IF inspect = {} THEN {} ELSE {"inspect_schema"})
                  \cup (IF query = {} THEN {} ELSE {"execute_readonly_query"}) |->
        CHOOSE s \in (IF tool = "inspect_schema" THEN inspect ELSE query) : TRUE]

InspectVersions == {ServerTools.inspect_schema} \cup Edits(ServerTools.inspect_schema)

(* Under another name, as it was otherwise.                                *)
Renamed(signature, p) == With(Without(signature, p), "dry_run", signature[p])

QueryVersions ==
    LET own == ServerTools.execute_readonly_query
    IN  {own} \cup Edits(own) \cup {Renamed(own, p) : p \in DOMAIN own}

OptionalVersion(versions) == {{}} \cup {{s} : s \in versions}

BothTools ==
    {Catalog(i, q) : i \in OptionalVersion(InspectVersions), q \in OptionalVersion(QueryVersions)}

MCServers ==
    BothTools \cup {With(s, "list_tables", ServerTools.inspect_schema) : s \in BothTools}
=============================================================================
