# Formal models of data-agent

TLA+ models of the data-agent backend: what it keeps in its state, what its
handlers do step by step, what must hold of that, the TLC runs that check it on
small instances and the TLAPS proofs that show part of it for instances of every
size. `PROJECT.json` ties each definition to the source lines it models, each
property to a run and to a mutated definition that breaks it, and each hazard of
the code to the properties that watch it.

To check a run or a proof, in this directory:

    tlc -config MCMcpClientManager.cfg MCMcpClientManager.tla
    tlapm McpClientManagerProofs.tla

## 1. The system

data-agent answers a question in natural language with a query on a SQL Server
database. One FastAPI process (the *backend*) runs everything in one asyncio loop;
it owns one subprocess, the *MCP server*, which alone talks to the database.

    POST /api/questions
       -> RuntimeIntent (LLM) -> metadata retrieval -> QueryPlan (LLM)
       -> plan validation -> SQL (LLM) -> SQL guardrail
       -> MCPClientManager -> stdio -> MCP server -> SQL Server

| component | source | state | operations | model |
|---|---|---|---|---|
| MCP client manager | `app/mcp/client_manager.py` | the flag `_unavailable`, the `asyncio.Lock` and its queue | `inspect_schema`, `execute_readonly_query`, both through `_call_tool` | `McpClientManager`, `ToolChannel` |
| MCP server and tools | `mcp_server/` | requests received, running and answered, a thread and a connection for each | the two tools, each in a worker thread | `ToolExecution`; environment of `McpClientManager` and `AppLifespan` |
| read-only executor | `mcp_server/readonly_query_executor.py` | a connection per query | `execute` | `ToolExecution`; its check of SQL in `SqlGuardrail` |
| question workflow | `app/services/agent_service.py`, `app/api/query.py` | where each request handler is suspended | `ask_question`, `handle_question` | `QuestionWorkflow` |
| LLM client | `app/services/llm_client.py` | the SDK instance, built lazily, and its model | `complete_json`, `complete_text`, `aclose` | in `QuestionWorkflow` and `AppLifespan` |
| gates | `intent_resolver`, `metadata_retriever`, `metadata_service`, `context_builder`, `query_planner`, `plan_validator` | none | pure functions | `DemoScope`, `PlanGate` |
| SQL generation, SQL guardrail | `app/services/sql_generator.py`, `app/services/sql_guardrail.py` | none | `_extract_sql`, `validate` | `SqlGate`, `SqlGuardrail`, composed into `QuestionWorkflow` |
| schema inspection, catalog | `mcp_server/tools/inspect_schema.py`, `app/services/schema_collector.py`, `metadata_service.validate_physical_mapping` | the rows read so far; the catalog, built once | four statements, then pure functions | `SchemaInspection` |
| tool contracts | `app/mcp/contracts.py`, `mcp_server/server.py` | none | `verify_tool_contracts` | `ToolContracts` |
| application lifespan | `app/core/lifespan.py`, `app/mcp/lifecycle.py`, `app/db/schema.py`, `app/db/session.py` | engine, session, subprocess, `app.state` | startup, shutdown | `AppLifespan` |
| Admin DB | `alembic/`, `app/models/` | a SQLite file | migration at startup; no other use yet | the file, in `AppLifespan` |
| settings | `app/core/config.py` | environment and `.env`, read anew at each `get_settings()` | - | `EditSettings` in `QuestionWorkflow` |
| health endpoint, MCP tutorial | `app/api/health.py`, `mcp_tutorial/` | none | - | not modelled |

How they interact: request handlers share two objects by reference, the manager and
the LLM client; the manager and the MCP server exchange JSON-RPC messages over the
subprocess's pipes; a life of the backend and the next one share only the SQLite file.

What is hard in it:

- **interleaving**: a handler suspends at each LLM call, at the lock of the manager
  and at the answer of a tool; everything between two suspensions is atomic, and
  anything read before one may be stale after it (`_unavailable`, the settings);
- **timeouts that race an answer**: `wait_for` abandons a tool call that the server
  goes on executing, and the answer may come later; four timeouts in three files of two
  processes decide which of them fires first;
- **reading without a snapshot**: the catalog is read by four statements, and DDL of
  others may run between any two of them;
- **failure**: the subprocess dies at any moment; a release raises while another
  exception propagates;
- **crashes**: SQLite commits each `CREATE TABLE` of the migration by itself;
- **gates that rely on each other**: the plan validator relies on the registry holding
  nothing more than it must, the absence of truncation on three constants being equal, and
  each of the textual rules of the guardrail on what the others exclude;
- **contracts written more than once**: the tools' signatures, arguments and expected
  schemas; the words that report a timeout; the keywords that SQL may not have.

What makes each component correct is listed with its module below; section 7 says in which
order the modules were written and what is still open.

## 2. The modules

### McpClientManager (and ToolChannel)

A *call* is one invocation of a tool. `state[c]` is where its task is: `idle`,
`waiting` (queued in `async with self._lock`), `calling` (awaiting
`session.call_tool`), `done`. `outcome[c]` is what it returned or the `reason` of the
exception it raised. `lock`, `waiters` and `unavailable` are the manager's fields.
`server[c]`, `reply[c]` and `serverUp` are the environment: the request in the pipe,
running in a tool thread, answered, finished.

| action | code |
|---|---|
| `Invoke` | `_call_tool` to its first suspension: refused, admitted or queued |
| `Acquire` | the oldest waiter owns the lock and looks at the flag again |
| `Return` | the answer arrives, the lock is released, `_parse_result` decides |
| `CallTimeout` | `wait_for` raises; the flag is set |
| `ConnectionClosed` | `CONNECTION_CLOSED` or one of `_TRANSPORT_CLOSED_EXCEPTIONS` |
| `ServerStart`, `ServerAnswer`, `ServerExit`, `DropLateAnswer` | the subprocess and the SDK's receive loop (external) |

`Acquire` requires `lock = NoCall` and takes the head of the queue, and `Invoke` admits
a task at once only when nobody is queued: this is `asyncio.Lock`. `CallTimeout` may
happen although the answer has arrived, since a task that is cancelled before it resumes
loses what it was woken for.

Correctness: one request at the server at a time (`ServerSerial`), outcomes that say the
truth about the server (`OutcomeTellsServer`), one call that pays for the discovery of a
broken session (`OneDiscovery`), every call ends (`EveryCallEnds`), a dead server is
noticed (`DeathIsNoticed`).

`ToolChannel` is what the rest of the backend may rely on: a channel that carries one
request at a time, settles it or abandons it, and refuses everything after it has
abandoned one. `ImplementsToolChannel` is the refinement; a request counts as in flight
as long as its task awaits it *or the server still works on it*.

### DemoScope and PlanGate

The gates as operators over records: `IntentContract` and `PlanContract` are the pydantic
invariants, `Retrieves` the alias matching, `AllEntries` and `MetadataContext` the
registry by kind, `PlanValid` the plan validator. Text is abstracted to what the gates
tell apart: registered ids, other ids (`OtherIds`), a string that is blank once stripped
(`Blank`), and for a word of the intent the alias set it belongs to and whether it is
decorated with capitals or spaces. `InDemoScope` says in closed form which plans are the
representative question; `PlanGate` is the one step that judges a plan, and `ScopeIsExact`
says that the two agree. This is not evident from the code: `plan_validator` checks that
required ids are contained and its comment relies on the registry for the rest.

### QuestionWorkflow

Composes `McpClientManager` (a question is its own call), `DemoScope`, `SqlGuardrail` and
the LLM client.
`stage[r]` is where the handler of question r is suspended, `response[r]` the HTTP
answer, `sql[r]` the tokens that `generate_sql` returned, which `SqlGuardrail` judges,
`llmClient` whether the SDK instance exists, `configured` whether the
settings are valid right now. Each action runs from one suspension to the next, with
every gate and early return between: `IntentAnswered` covers the contract, the
clarification, the retrieval and the start of the second LLM call. `GoOn` conjoins a step
of the manager with what the handler does in the same turn of the loop.

Correctness: the answer tells what happened to the database (`ResponseTellsServer`), a
question never fails on the settings after its first LLM call passed
(`ConfigurationSettledAtStart`), a completed answer is never truncated
(`NeverTruncated`), nothing completes after the session is lost
(`NoCompletionAfterLoss`), every question is answered (`EveryQuestionAnswered`).

### SqlGuardrail and SqlGate

`SqlGuardrail` is the two checks of generated SQL as operators over sequences of tokens,
rule by rule as the code has them: `GuardrailAccepts` is `sql_guardrail.validate`,
`ExecutorAccepts` the executor's `_validate_sql`. A word in other capitals is mapped by
`OtherCase`, a numeral to its value by `ValueOf`. What looks only at text stays textual:
`OrderedByProductId` finds its ORDER BY anywhere, `ClauseAfter` cuts at the next boundary word
wherever it stands, and a word may be the alias of a table and the name of a column at once.

SQL Server does not need the white space and does not mind the brackets that the patterns
look at, so a statement is a record of its `tokens` and of the positions where its layout is
`odd`: a word with nothing but a bracket between it and the one before, or white space next
to a dot. In the usual layout (`odd = {}`) two words are separated by white space and there is
none next to a dot. Each pattern that demands this says so with `odd`: a table that touches
its FROM or JOIN is not seen (`TableRefs`), `Production . Product` is the table Production
(`NamePosition`), an AS that is not followed by white space is no alias. The comparison of
whole clauses, which removes all white space, is `Squeezed`: words that stand side by side
are compared as the one word they make.

`SqlGate` says what text *means*: a query is a record with one field per clause, `Render`
writes it as the grammar does, the LLM may put it in a code block, and one step judges it.
`Query` is the type of such records, over any set `Symbols` of tokens.
`Representative` is the reference definition of the demo's query, over the record and not
over the text, and `Binds` says that SQL Server can resolve its names. The hazard is that
twelve textual rules and five clause checks, each added after a bypass of the others, leave
a way for a word of one clause to stand in for another.

Correctness: the verdict is on the query, whatever block it came in (`VerdictOnQuery`), what
passes and can be bound is the representative query but for two things
(`AcceptedIsRepresentative`), every spelling of that query in the usual layout passes
(`RepresentativeIsAccepted`), the second layer never refuses what the first let through
(`AcceptedPassesExecutor`). The two things are named and not assumed away: `HidesTable`, a
table whose bracket touches its FROM or JOIN, and `MakesUpNames`, words side by side that make
an approved expression when they are run together. Both let queries pass that are not
representative (section 6), and the property says that nothing else does.

### SchemaInspection

The target database (`db`, external, changed by `Ddl`), the four catalog statements
(`ReadColumns`, `ReadKeys`, `ReadForeignKeys`, `ReadDescriptions`), the rows each returned,
and the result and its judgement by `validate_physical_mapping` in the step of the last
statement. Tables and foreign keys have object ids, columns have ids with gaps where one was
dropped; a column has a type of the system, an alias of one, or a type of the CLR. `InOrder`
is the ORDER BY of the statements. `WellFormed` is what SQL Server guarantees of a database:
tables of one schema have different names, a foreign key has columns and both its ends exist;
the DDL actions keep it, by their guards. `ever` and `always` are history variables: whether
the mapping held (`MappingHolds`) at some instant of the inspection, and at every one. `TypeOK` types the
database, the control and the history; what the rows and the catalog are is said by `RowsInv` and by
`InspectionIsExact`. A
mapping holds when the required tables have the required columns with types that a catalog
can show, and the foreign key is there; a required column of a CLR type does not count,
since the backend never sees it.

Correctness: an undisturbed inspection is the database (`InspectionIsExact`); the backend
starts only on a mapping that held at some instant (`AcceptedMappingHeld`, one DDL statement)
and refuses to start for the mapping only if it was broken at some instant
(`RefusedMappingBroke`, any number).

### ToolExecution

What is behind a request of the manager, and how long it takes. Every step of the manager is
conjoined with what the server and the clocks do in it, so that a behaviour of `TimedSpec` is
one of the manager's `Spec` (proved, section 5). `thread[c]` is the worker thread of the tool, `statement[c]` the
statement it executes, `connection[c]` its connection, `ending[c]` how its work ended,
`page[c]` what it found and returned, `age[c]` the seconds since the request was written and
`busy[c]` those it has spent where it is now. `Tick` lets a second pass and is refused while
a timer is due or an answer waits to be read.

Correctness: a tool ends by itself within the sum of its limits, also when its caller has
given up (`ToolsEndInTime`); while these leave room below the timeout of the call, only the
death of the server costs the session (`SlowDatabaseKeepsSession`); one connection at most,
closed on every way out (`ConnectionsReturned`); both processes agree on what a timeout is
(`TimeoutIsReported`), and `truncated` tells the truth (`TruncationIsExact`).

### ToolContracts

The contract of the tools as its three places have it: `ServerTools` (the signatures of
`server.py`), `Arguments` (what the manager sends) and `ExpectedTools` (`contracts.py`).
`Verify` is the startup, `CallTool` the first call of each tool; `InputSchema` and
`Deliveries` are FastMCP's part (external): it refuses a call that its model of the parameters
does not validate and silently drops an argument that it does not know, such as a limit. The
annotation of a parameter may be narrower than its type (`narrow`: a bound, a Literal, the type
of the elements); FastMCP then refuses some values of the type, and since `contracts.py:59`
reads nothing of a property but its `"type"`, the startup cannot tell.

Correctness: an accepted server drops no argument of a call, and refuses a call only where a
parameter is narrower than its type (`AcceptedServesCalls`); the verification refuses for drift
alone (`RefusedHasDrifted`).

### AppLifespan

Successive lives of the backend process. `pc` is the next step of the lifespan, `held`
what this life acquired and has not released, `failing` whether an exception propagates,
`db` the SQLite file (for each required table whether it is absent, made by the migration
or foreign, and the Alembic revision), `found` the file as this life found it, `server`
the subprocess. The migration creates one table per step, so that `Kill` and
`StartupFails` can tear it. `Raise` leads to the unwinding, where `Release` takes the
session, the subprocess, the LLM client and the engine in that order and may itself raise.

Correctness: serving means a complete schema of the migration's own tables
(`ServesOwnSchema`), a torn migration is never served later (`TornMigrationNotServed`),
nothing is leaked when the lifespan ends (`ExitReleasesAll`), no failure is lost
(`CleanExitMeansServed`), startups and shutdowns end (`TransitionsEnd`).

`TornMigrationNotServed` has a price: after a crash in the first migration every start
fails until somebody removes the file. The feature record of the Admin DB
(`docs/features/0002-admin-db-foundation/tasks.md`) names the case as not reproduced.

### The other modules

`MC*.tla` instantiate the above for TLC, `*Proofs.tla` hold the proofs. Operators whose
comment begins with "Mutant of" are plausible bugs: each replaces one definition, and the
property it is paired with in `PROJECT.json` must then fail.

## 3. The runs

| run | instance | shows |
|---|---|---|
| `manager` | 4 calls, 134 370 states | type, `ServerSerial`, `OutcomeTellsServer`, `OneDiscovery`, the inductive invariant; the refinement of `ToolChannel`; `EveryCallEnds`, `DeathIsNoticed` |
| `tool_execution` | 2 calls, the timeouts of the code in seconds, symmetric, 562 632 states | the five properties of `ToolExecution` |
| `plan_gate` | all plans within two fields of the accepted one, 21 062 states | `ScopeIsExact` |
| `sql_gate` | the representative query with any two clauses changed, laid out oddly in any one place, or with a table more, and the texts one token away from it, 61 940 states | `VerdictOnQuery`, `AcceptedIsRepresentative`, `RepresentativeIsAccepted`, `AcceptedPassesExecutor` |
| `workflow` | 3 questions, 228 944 states | `ResponseTellsServer`, `ConfigurationSettledAtStart`, `NeverTruncated`, `NoCompletionAfterLoss`, `EveryQuestionAnswered` |
| `schema_inspection` | 23 databases, two DDL statements, 50 453 states | `InspectionIsExact`, `AcceptedMappingHeld`, `RefusedMappingBroke` |
| `tool_contracts` | 7 004 servers, 14 154 states | `AcceptedServesCalls`, `RefusedHasDrifted` |
| `lifespan` | 4 tables, every initial file, any number of lives, 1 324 states | the type, the four safety properties, `TransitionsEnd` |
| `accepted_tables_distinct`, `all_columns_returned`, `foreign_key_tables_listed`, `database_timeout_first` | small instances of the above | the findings of section 6 |

Why the bounds are enough to meet the interesting cases.

*Manager.* Three calls put one at the server, one at the head of the queue when the session
is lost, and one behind it (the lock must be passed on twice); the fourth arrives after the
loss. Calls end once and are not retried by the code, so a bounded set of calls stands for a
stretch of an unbounded run.

*Tools.* Two calls are one that is given up and one that comes after it or waits behind it.
The requests are the one `agent_service.py` makes (10 seconds), the bounds of the tool's
contract (15 seconds, the maximum number of rows), one request each that the two validations
refuse, and the inspection of the startup. The limits are those of the code: 20 seconds for
the call, 5 for the connect, 15 for a statement. A statement finds up to one row more than
the maximum. `Latency = 1` second is the longest the pipes and the thread pool keep anything.

*Gates.* The plan variations contain each duplicate, missing, foreign or blank id, each wrong
kind, and each limit from -1 to one above the maximum, in any two fields at once. The query
variations contain each clause missing, each list with an element dropped, repeated, exchanged
or replaced, predicates extended by AND and OR, tables joined before and after and separated
by commas, aliases that are names of columns, tables, or forbidden words, other capitals, and TOP on both
sides of both bounds. For the layout, each single place of the query, of the one with its tables
exchanged and of one without the schema is odd in turn, and a third table is joined that
touches its JOIN or does not; three queries have a condition or a key
with words that are run together before they are compared. Two clauses at once, because the bypasses that the rules were added
for take two places: a word in one that a rule takes for a part of the other.

*Workflow.* One LLM answer per way a gate can decide. `MaximumReturnedRows = 1`, TOP 1 or 2
and two matching rows reach both sides of every bound; the handler does not look at a result
of no rows.

*Inspection.* Two DDL statements can fall into any of the three gaps. The databases have
gaps in the column ids, alias and CLR types (one of them of a required column), keys of two columns out of order, two foreign
keys of one name, tables of one name in two schemas and tables that must not be seen.
`AcceptedMappingHeld` is stated for one DDL statement: with two, the catalog may combine the
columns of one instant with the foreign key of another, which four statements without a
snapshot cannot exclude.

*Contracts.* Each tool missing or with one parameter dropped, added, renamed, retyped, untyped,
narrowed or given a default, and with other tools beside it. Lives of the lifespan are not bounded at all.

Symmetry is used in `tool_execution` only, which has no liveness. Deadlock is not checked in `plan_gate`,
`sql_gate`, `schema_inspection` and `tool_contracts`, which judge one input and stop; the
manager has an explicit `Terminating` step.

## 4. Fairness

Fairness is assumed only of what the backend itself schedules:

- `Acquire`: a released `asyncio.Lock` wakes its oldest waiter and the loop runs it;
- `CallTimeout` and, in the workflow, `LlmFails`: the timers of 20 seconds;
- in the lifespan, `StartupStep` and `Release`: the process goes on running, and each wait
  has a timer (`MCP_STARTUP_TIMEOUT_SECONDS`, the manager's timer for `inspect_schema`).

Nothing is assumed of the LLM, the MCP server, SQL Server, or of who asks a question or
stops the backend: the liveness properties hold even if none of them ever acts. That a tool
ends is stated with a clock instead (`ToolsEndInTime`) and needs no fairness.

## 5. The proofs

| theorem | for | statement |
|---|---|---|
| `SerialInvariant` | every set of calls | `Spec => []SerialInv` |
| `TypeCorrect`, `ServerIsSerial`, `OutcomesAreTruthful` | every set of calls | the safety properties of `manager` |
| `ManagerImplementsToolChannel` | every set of calls | the refinement, `Spec => Channel!Spec` |
| `TimedImplementsManager`, `TimedImplementsToolChannel` | every set of calls and of requests, all timeouts and limits | `TimedSpec => Spec`, and so the refinement of `ToolChannel` |
| `SlowDatabaseIsNoLoss`, `ToolsEnd`, `ConnectionsAreReturned`, `TimeoutsAreReported`, `TruncatedIsExact`, `TimedTypeCorrect` | every set of calls and of requests, all timeouts and limits | the properties of `tool_execution` |
| `GateIsExact` | every plan: lists of any length, any ids, any positive maximum | `GateTypeOK` and `ScopeIsExact` |
| `LayersAgree` | every text, of any length and any words | `AcceptedPassesExecutor` |
| `GateTypeCorrect`, `LayoutsDoNotMatter` | every set of symbols, every query and text over it | `GateTypeOK` and `VerdictOnQuery` of `sql_gate` |
| `RepresentativesAreAccepted` | every set of symbols, every query over it in the usual layout: any aliases, orders, capitals and further sort keys | `RepresentativeIsAccepted` of `sql_gate` |
| `AcceptedAreRepresentative` | every set of symbols, every query of the grammar over it: any expressions, clauses, names and layout | `AcceptedIsRepresentative` of `sql_gate` |
| `WorkflowInvariant`, `WorkflowTypeCorrect`, `ResponsesAreTruthful`, `ConfigurationIsSettled`, `NothingIsTruncated`, `LossIsFinal` | every set of questions, any answers of the LLM, any number of rows | the safety and action properties of `workflow` |
| `WorkflowImplementsManager`, `WorkflowImplementsToolChannel` | the same | the workflow implements the manager, and so `ToolChannel` |
| `InspectionTypeCorrect`, `InspectionsAreExact`, `AcceptedMappingsHeld`, `RefusedMappingsBroke` | every set of well-formed databases, all DDL, any bound on it | the properties of `schema_inspection` |
| `AcceptedServersServe`, `OnlyDriftIsRefused`, `ContractTypeCorrect` | every set of servers with any tools and parameters, narrowed or not | the properties of `tool_contracts` |
| `LifespanInvariant`, `LifespanTypeCorrect`, `ServesVerifiedSchema`, `LivesEndClean` | every non-empty list of tables, every initial file | the safety properties of `lifespan` |

Assumptions: `NoCall` is not a call; registered ids, other ids and `Blank` are distinct and
the maximum is positive; numerals, punctuation and the words that the code spells out are distinct tokens, none of them
another spelling of a word; limits are
natural numbers; a server's signatures are well formed; `Tables` is a non-empty sequence of
strings; the initial databases are well formed, and new columns, tables and foreign keys are
such; the symbols contain the keywords that `Render` writes, and the queries and texts consist
of symbols (the provers do not know that a string literal is in STRING, which is what
`Symbols` stands for). TLC evaluates them in the runs.

*The manager.* `ServerSerial` is not inductive: nothing in it says why a second request
cannot be sent while an abandoned one is running. `SerialInv` adds that the queue holds
waiting tasks, each once; that the lock belongs to the task that awaits an answer and is
free once the manager is unavailable; and that a request whose task is done is at the
server only if it was abandoned, in which case the flag is set. The step that matters is
`Acquire`: the flag it reads again excludes an abandoned request, and the free lock an
awaited one. The refinement follows from the same invariant, since the calls in flight are
at most the holder of the lock or the one abandoned.

*The tools.* `TimedStepIsManagerStep` shows that each timed step is one of the manager's or
leaves its variables alone. That is a refinement (`TimedImplementsManager`), so that
`SerialInv` holds here without a second proof. `TimedInv`
says of each call where its thread is and what connection, ending and page go with that, and
bounds its age: what a request has spent, and the limits of the statements still before it,
together stay within `WorkLimit`. When a timer fires at the age `CallLimit` while `WorkLimit`
is smaller, the request cannot be at a living server any more.

*The gate.* The kind checks confine each list to the ids of one kind; the containment
checks and the freedom from duplicates then leave a list of exactly those ids. For two ids
the lemma `OnlyTwo` says that such a list is one of the two orders, whatever its length was.

*The two checks of SQL.* The guardrail's list of keywords contains the executor's, and its
first rules the executor's, after the semicolon at the end is dropped by both in the same way;
`LayersAgree` fails as soon as the executor's list has a word that the guardrail's lacks.
`LayoutsDoNotMatter` rests on `LayoutExtracted`: taking off the code block gives back the
rendered tokens, which begin with SELECT and not with a fence. That `FlattenSeq`, a fold,
gives a text for every list of texts (`FlattenSeqType`) is an induction over the length; it is
done by looking at the least number of texts for which it fails.

*Representative queries are accepted.* `Render` puts a query together part by part; the rules
look for words anywhere in the text. `RenderedInLine` gives the text another shape: seven
clauses, each a keyword and the rest behind it, at positions that the lengths of the rests
determine (`LaidOut`), which folding the capitals leaves alone (`CanonicalLaidOut`). The rests
of a representative query are known up to the order of their parts, and none of their words
is a keyword of another clause (`Shaped`). So each rule that looks for a keyword finds the one
of its own clause and stops at the next, and a list between commas is read back as the items
it was written of (`Lists`, item by item). That `Binds` holds is used too: without it a
further sort key could be any text, the words of a forbidden statement among them. The theorem
is about the usual layout (`WrittenAsAsked` has `odd = {}`): in another the code refuses some
spellings, `FROM[Production].[Product] AS p` or `Production . Product` among them. Removing the
white space changes nothing in what is approved, because in an approved expression no two words
stand side by side (`ApprovedIsTight`), so each clause is compared as it was written
(`WrittenIsApproved`).

*The workflow.* `WorkflowInv` is the types, the manager's `SerialInv` taken through the
instance, and `QuestionInv` of each question: what its stage says of its call, its SQL and
the LLM client, and what its response says of the server. A step of one question leaves what
`QuestionInv` says of another alone (`Untouched`), unless it is a step of the server, whose
effect on the requests the manager's invariant bounds. `QuestionStepIsManagerStep` takes each
step of a question to the step of the manager that it contains, or to a stutter; the
refinement and, with `ManagerImplementsToolChannel`, the abstract channel follow.

*The inspection.* `SchemaInv` has two parts. `RowsInv`: the rows have one entry per column and
per column of a foreign key, each id a number, and are those of the database as long as no DDL
has run; this is what `InspectionsAreExact` needs, together with `InOrderRank`, that sorting
puts each id at its rank and leaves none out. `MappingInv` ties what the rows say of the
mapping to the history: while the mapping always held, what was read has it
(`RefusedMappingsBroke`, for any number of statements), and one statement is not enough to
take the columns of one instant and the foreign key of another (`NoMixedMapping`:
a statement that adds a foreign key leaves the tables alone, unless it creates the table that
the key is of, which then was not there to have its columns read). What each DDL action may change is stated once, by
`Evolves`, with one lemma per action. The judgement itself is `Judgement`: a catalog is valid
exactly if the rows have the columns and the key. That a finite set of numbers can be sorted
(`OrderExists`) is shown by the smallest set that cannot.

*The contracts.* `ContractInv` ties the verdict to the comparison and each delivery to it;
equal sets of names, required names and types leave `Deliveries` no way to drop an argument, and
no reason to refuse but a parameter that is narrower than its type.

*The lifespan.* While the migration runs, the invariant keeps what was found apart from
what was created, so that at `Stamp` the file must have been found fresh. `HeldInv` ties
the subprocess to the exit stack; `ExitInv` says that an unwinding without an exception
comes from a life that served.

*Accepted queries are representative.* The way back, from what the rules read to what was
written. Over any symbols a text has more than one query: the field of one clause may hold the
words of another. `Grammatical` says of a query that this is not so: no clause holds a word that
begins another, the items of a list have matching parentheses and no comma outside of them, and
TOP has one constant, in parentheses or not. It says nothing of what the clauses are, nor of
their number. The rules for JOIN, GROUP BY, HAVING and ORDER BY then find their keywords only if
the query has these clauses (`KeywordNeedsClause`), so an accepted query is `Whole`: its text
falls apart into seven clauses again (`Apart`) and each rule reads its own. A list is read back
item by item, because the commas that `Cuts` finds are those between the items (`AllListed`);
folding makes no mark of punctuation and removes none (`MarksKept`). This leaves the parts of the
representative query in some spelling and order (`Reads`), over FROM with one table or several:
the guardrail looks only at the tables behind FROM and JOIN, and a FROM list with commas is
ruled out by `Binds`, since the join would then name the last table and the columns the first
(`OneTable`).

The query may be laid out in any way. Where no table hides, each table that the rules accept is
the one that they would see in the usual layout, with the same alias (`TablesInAnyLayout`); where
no words side by side make an approved expression, what the clause checks approve without its
white space was approved as it was written (`ApprovedIsWritten`). The rest of the argument is
then about the usual layout (`AcceptedKeepsRules`). The two exceptions cannot be proved away:
each has accepted queries that are not representative (section 6).

Two more limits of that theorem. `Grammatical` leaves out subqueries, LEFT as a function, tables and
columns whose names are such keywords, and TOP of an expression; `AcceptedIsRepresentative`
itself has no such hypothesis, and `sql_gate` checks it for all of its queries, of which those
with a table called GROUP (11 of 9 270) are outside the grammar. And `OtherCase`, the spellings in other
capitals, has words as its values and neither numerals nor punctuation (`SqlAssumption`).

Only model-checked: all liveness properties (fairness and ENABLED are outside the prover), and
`AcceptedIsRepresentative` for the queries outside the grammar.

## 6. Findings

Each is a place where a document and the code disagree, shown by a run.

- *A table that the guardrail does not see* (`accepted_tables_distinct`). The docstring of
  `sql_guardrail.py` (lines 14-17) refuses a second reference to a table, because of the
  unconstrained cross join that it would make. `_TABLE_REF_PATTERN` (`sql_guardrail.py:107`)
  asks for white space behind FROM and JOIN, which SQL Server does not need in front of a bracket:
  `INNER JOIN[Production].[ProductInventory] AS Name ON 1 = 1` behind the approved join is no
  reference, its alias passes rule 10 as the name of an output column, and only the first ON is
  compared. `SUM(Quantity)` is then multiplied by the rows of the table.
- *A slow inspection costs the session* (`database_timeout_first`).
  `docs/features/0003-mcp-readonly-data-access/plan.md:64` keeps the timeout of the database
  below that of the call so that the database answers first. `inspect_schema` has four
  statements with 15 seconds each, after a connect of 5, within a call of 20. The query of a
  question is within the bound: 5 + 10 seconds. A caller who used all of the 15 seconds that
  the tool allows would not be: with the connect they are the 20 of the call.
- *Columns of CLR types are lost* (`all_columns_returned`).
  `docs/contracts/inspect-schema.md:40` promises every column of an inspected table; the join
  of the columns query with `sys.types` drops `hierarchyid` and `geography`.
- *A foreign key of a table that is not listed* (`foreign_key_tables_listed`).
  `docs/features/0003-mcp-readonly-data-access/tasks.md:125` promises that the tables of a key
  are in the result; a table created between two statements is not.

Without a run of their own:

- `docs/contracts/natural-language-query.md:54` says that a rejected question has had no SQL
  generated or executed. A question whose SQL the guardrail refuses is answered `rejected` /
  `sql_rejected` (`agent_service.py:224`), after the SQL was generated. That it is never
  *executed* does hold (`ResponseTellsServer`). The same document lists `sql_rejected` as a code,
  so the sentence on the status is what is out of date.
- `_normalize_predicate` (`sql_guardrail.py:161`) removes all white space, so that words that
  stand side by side are compared as one: with the alias `NOTpi` for Product, the condition
  `NOT pi.ProductID = pi.ProductID` is compared as `NOTpi.ProductID = pi.ProductID`, the approved
  join. `AcceptedIsRepresentative` excepts such queries (`MakesUpNames`); `sql_gate` has such queries.
- `docs/features/0003-mcp-readonly-data-access/spec.md:120` has the startup verify that the
  server is compatible with the contract of the inputs. `contracts.py:58-65` compares names,
  required names and top-level types; a server with `maximum_returned_rows: Annotated[int,
  Field(le=50)]` is accepted and refuses the 100 of every question. `AcceptedServesCalls` says that
  an accepted server refuses for nothing else.
- `docs/features/0003-mcp-readonly-data-access/tasks.md:94` lists WITH among the
  keywords that the executor refuses, and its list (`readonly_query_executor.py:14`) has no WITH;
  a statement that begins with it is refused for not beginning with SELECT, a table hint passes.
  The guardrail does refuse WITH, and `LayersAgree` shows that its list contains the executor's.

## 7. Plan

Done in this order: the manager and its abstract channel, their proofs, the gates and their
proof, the workflow that composes them, the lifespan and its proof; then the guardrail with a
reference definition of its query, the inspection of the schema, the execution of the tools
with durations, the contracts of the tools, the proofs of the last two, the proof of the
workflow for any number of questions, the proof of the inspection for all databases, and the
refinements from the workflow and from the timed tools down to the abstract channel.

Last came the two theorems that the guardrail and its reference definition agree.

What would come next, when the code has it: the use of the Admin DB (policies looked up before
a question runs, audit logs and error reports written by it), whose tables exist but which no
code reads or writes yet; a guardrail that knows the plan, after which `SqlGate` should say
that TOP is at most the plan's limit.

## 8. What is abstracted or left out

- **Cancellation** of a handler by a client that disconnects (`CancelledError` in
  `_call_tool`): the flag would not be set. Starlette does not cancel the handler of a plain
  JSON endpoint, so no step models it.
- **The stdio writer task**: a broken pipe inside `stdio_client` cancels the task group that
  the lifespan runs in. Its effect on a serving backend depends on the SDK.
- **A query that outlives its server process** on the database side.
- **How startup errors are wrapped** by the task groups of the SDK when the exit stack
  unwinds; the lifespan model keeps only that an exception propagates.
- **The driver's timers**: `ToolExecution` takes it that pyodbc ends a login at its timeout
  and a statement, the fetch of its rows included, at `connection.timeout`; a driver that does
  not would keep the thread, and its connection, for longer.
- **FastMCP**: that a published schema says what the signature says and that a call is
  validated against it is external in `ToolContracts`; a server offers one tool per name. Which values a narrower
  annotation refuses is not modelled: it may refuse any.
- **Text of SQL**: a statement is its tokens and the places where its layout is odd. Which of
  several spaces or line breaks separate two words makes no difference to any pattern. Two
  keywords are always separated, and keywords in brackets are not names. Names in double quotes or
  with letters outside ASCII are left out: SQL Server takes them for names and the patterns of the
  code do not, so that a table named so behind FROM or JOIN would not be seen either. A mark
  outside `Punctuation`, such as `+` or `-`, is a word to the model, which rule 11 refuses; the code
  passes it by and leaves it to the comparison of the clauses, where there is one. Parentheses around tables are not
  among the queries. A sort key that is both an output column and a column of a table is resolved
  by `Binds`.
- **TOP and the limit of the plan**: the guardrail does not get the plan, so SQL may ask for
  more rows than the plan, never for more than the maximum.
- **Contents**: prompts, messages, the rows of a result; in the inspection the precision of
  numeric types, whether a column is nullable and the order of the tables, which are passed
  on as they are.
- **Durations** outside `ToolExecution`: a timer may fire at any time after it was set.
- **A file that bears the head revision with tables of another shape**: `_verify_schema`
  compares names only, by decision of the feature's plan, and `InitialFiles` excludes it.
- **The tables of the Admin DB** (`app/models/`): declarations that SQLite enforces and no
  code of the application uses yet.
- `app/api/health.py` answers a constant, also while the manager is unavailable;
  `mcp_tutorial/` is not part of the application.
