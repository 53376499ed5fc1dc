----------------------------- MODULE AppLifespan -----------------------------
(***************************************************************************)
(* The lives of the backend process: lifespan (app/core/lifespan.py) with  *)
(* mcp_lifespan (app/mcp/lifecycle.py) and the migration of the Admin DB   *)
(* (app/db/schema.py) inside it.  A life acquires the engine, migrates and *)
(* verifies the Admin DB, spawns the MCP server, opens the session, checks *)
(* the tools and the catalog, serves, and unwinds; any step may fail, any  *)
(* release too, and the process may be killed between any two steps.       *)
(*                                                                         *)
(* What outlives the process is the SQLite file.  There every CREATE TABLE *)
(* commits by itself, and the revision is written when all are made.       *)
(***************************************************************************)
EXTENDS Naturals, Sequences

CONSTANT Tables   \* schema._REQUIRED_TABLES, in the order of migration 0001

ASSUME TablesAssumption == Tables \in Seq(STRING) /\ Tables # <<>>

VARIABLES
    pc,       \* what the lifespan does next
    held,     \* acquired by this life and not released yet
    failing,  \* an exception propagates
    served,   \* this life has completed its startup
    exit,     \* how the last life ended
    db,       \* the SQLite file: the tables in it and its revision
    created,  \* how many tables this life's migration has created
    found,    \* history: the file as this life found it
    server    \* the MCP server subprocess of this life

fileVars == <<db, created, found>>
vars == <<pc, held, failing, served, exit, fileVars, server>>

TableNames == {Tables[i] : i \in DOMAIN Tables}

Startup == {"migrate", "verify", "spawn", "session", "handshake", "inspect"}
Steps == {"down", "serving", "unwind"} \cup Startup

Resources == {"engine", "sdk", "server", "session"}

(* "foreign": a table of that name that the migration did not create.      *)
Files == [tables: [TableNames -> {"absent", "ours", "foreign"}],
          revision: {"none", "head", "other"}]

(* _verify_schema reads names and the revision only, so a file that bears  *)
(* the head revision is taken to hold no foreign tables.                   *)
InitialFiles ==
    {f \in Files : f.revision = "head" => \A t \in TableNames : f.tables[t] # "foreign"}

Has(f, t) == f.tables[t] # "absent"
Fresh(f) == f.revision = "none" /\ \A t \in TableNames : ~Has(f, t)
Complete(f) == f.revision = "head" /\ \A t \in TableNames : f.tables[t] = "ours"

Init ==
    /\ pc = "down" /\ held = {} /\ failing = FALSE /\ served = FALSE
    /\ exit = "none"
    /\ db \in InitialFiles /\ created = 0 /\ found = db
    /\ server = "none"

-----------------------------------------------------------------------------
(* Mutant of Raise: a failure of the startup skips the finally clauses.    *)
RaiseAndAbort ==
    /\ pc' = "aborted" /\ failing' = TRUE
    /\ UNCHANGED <<held, served, exit>>

(* An exception leaves the startup: on to the exit stack and the finally.  *)
Raise ==
    /\ pc' = "unwind" /\ failing' = TRUE
    /\ UNCHANGED <<held, served, exit>>

Proceed(next) ==
    /\ pc' = next
    /\ UNCHANGED <<held, failing, served, exit>>

(* get_settings and build_admin_db_engine: outside the try, and before     *)
(* anything that must be released.                                         *)
Start ==
    /\ pc = "down"
    /\ \/ /\ pc' = "migrate" /\ held' = {"engine"} /\ exit' = "none"
       \/ /\ exit' = "failed" /\ UNCHANGED <<pc, held>>
    /\ failing' = FALSE /\ served' = FALSE
    /\ created' = 0 /\ found' = db
    /\ UNCHANGED <<db, server>>

(* Mutant of CreateTable: CREATE TABLE IF NOT EXISTS.                      *)
CreateTableIfMissing ==
    /\ pc = "migrate" /\ db.revision = "none" /\ created < Len(Tables)
    /\ LET t == Tables[created + 1] IN
          db' = IF Has(db, t) THEN db ELSE [db EXCEPT !.tables[t] = "ours"]
    /\ created' = created + 1
    /\ Proceed("migrate")
    /\ UNCHANGED <<found, server>>

(* upgrade() of migration 0001, one table; it runs when the file bears no  *)
(* revision, and fails on a table that is there already.                   *)
CreateTable ==
    /\ pc = "migrate" /\ db.revision = "none" /\ created < Len(Tables)
    /\ LET t == Tables[created + 1] IN
          IF Has(db, t)
          THEN Raise /\ UNCHANGED <<db, created>>
          ELSE /\ db' = [db EXCEPT !.tables[t] = "ours"]
               /\ created' = created + 1
               /\ Proceed("migrate")
    /\ UNCHANGED <<found, server>>

(* Alembic writes the revision in a transaction of its own.                *)
Stamp ==
    /\ pc = "migrate" /\ db.revision = "none" /\ created = Len(Tables)
    /\ db' = [db EXCEPT !.revision = "head"]
    /\ Proceed("verify")
    /\ UNCHANGED <<created, found, server>>

(* command.upgrade on a file that bears a revision: nothing to do at the   *)
(* head, an error when no script has that revision.                        *)
UpgradeStamped ==
    /\ pc = "migrate" /\ db.revision # "none"
    /\ IF db.revision = "head" THEN Proceed("verify") ELSE Raise
    /\ UNCHANGED <<fileVars, server>>

(* Mutant of VerifySchema: the revision is taken as proof of the tables.   *)
VerifySchemaRevisionOnly ==
    /\ pc = "verify"
    /\ IF db.revision = "head" THEN Proceed("spawn") ELSE Raise
    /\ UNCHANGED <<fileVars, server>>

(* _verify_schema: the head revision and every required table.             *)
VerifySchema ==
    /\ pc = "verify"
    /\ IF db.revision = "head" /\ \A t \in TableNames : Has(db, t)
       THEN Proceed("spawn")
       ELSE Raise
    /\ UNCHANGED <<fileVars, server>>

(* stdio_client and ClientSession enter the exit stack.                    *)
SpawnServer ==
    /\ pc = "spawn"
    /\ pc' = "session" /\ held' = held \cup {"server"} /\ server' = "starting"
    /\ UNCHANGED <<failing, served, exit, fileVars>>

OpenSession ==
    /\ pc = "session"
    /\ pc' = "handshake" /\ held' = held \cup {"session"}
    /\ UNCHANGED <<failing, served, exit, fileVars, server>>

(* initialize and list_tools are answered.  verify_tool_contracts accepts  *)
(* the tools or raises.                                                    *)
Handshake ==
    /\ pc = "handshake" /\ server = "ready"
    /\ Proceed("inspect") \/ Raise
    /\ UNCHANGED <<fileVars, server>>

(* Mutant of StartupTimeout: only a server that has answered initialize is *)
(* under the timer.                                                        *)
StartupTimeoutAfterInitialize ==
    /\ pc = "handshake" /\ server = "ready"
    /\ Raise
    /\ UNCHANGED <<fileVars, server>>

(* MCP_STARTUP_TIMEOUT_SECONDS are over.                                   *)
StartupTimeout ==
    /\ pc = "handshake"
    /\ Raise
    /\ UNCHANGED <<fileVars, server>>

(* inspect_schema through the manager, the catalog, the physical mapping,  *)
(* app.state; then ASGI startup is complete.                               *)
Inspect ==
    /\ pc = "inspect" /\ server = "ready"
    /\ pc' = "serving" /\ served' = TRUE
    /\ UNCHANGED <<held, failing, exit, fileVars, server>>

(* A step of the startup raises: an error of the Admin DB, a spawn that    *)
(* fails, a server that is gone, a tool error or the manager's timeout, a  *)
(* catalog that lacks what the business metadata maps to.                  *)
StartupFails ==
    /\ pc \in Startup
    /\ pc = "handshake" => server = "gone"
    /\ Raise
    /\ UNCHANGED <<fileVars, server>>

(* The first question makes llm_client build its SDK instance.             *)
FirstQuestion ==
    /\ pc = "serving"
    /\ held' = held \cup {"sdk"}
    /\ UNCHANGED <<pc, failing, served, exit, fileVars, server>>

Shutdown ==
    /\ pc = "serving"
    /\ pc' = "unwind"
    /\ UNCHANGED <<held, failing, served, exit, fileVars, server>>

-----------------------------------------------------------------------------
(* The exit stack releases the session and then the server, the finally    *)
(* clauses the LLM client and then the engine.                             *)
ReleasedBefore(r) ==
    [session |-> {}, server |-> {"session"}, sdk |-> {"session", "server"},
     engine |-> {"session", "server", "sdk"}][r]

(* Mutant of Release: no finally around aclose, which takes the engine     *)
(* with it when it raises.                                                 *)
ReleaseOneFinally(r) ==
    /\ pc = "unwind" /\ r \in held /\ ReleasedBefore(r) \cap held = {}
    /\ held' = held \ {r}
    /\ \E raises \in BOOLEAN :
          /\ failing' = (failing \/ raises)
          /\ IF r = "engine" \/ (r = "sdk" /\ raises)
             THEN /\ pc' = "down"
                  /\ exit' = IF failing' THEN "failed" ELSE "clean"
             ELSE UNCHANGED <<pc, exit>>
    /\ server' = IF r = "server" THEN "none" ELSE server
    /\ UNCHANGED <<served, fileVars>>

(* Mutant of Release: what a release raises replaces the startup's error   *)
(* and nothing raised means that all is well.                              *)
ReleaseForgetsError(r) ==
    /\ pc = "unwind" /\ r \in held /\ ReleasedBefore(r) \cap held = {}
    /\ held' = held \ {r}
    /\ failing' \in BOOLEAN
    /\ IF r = "engine"
       THEN pc' = "down" /\ exit' = IF failing' THEN "failed" ELSE "clean"
       ELSE UNCHANGED <<pc, exit>>
    /\ server' = IF r = "server" THEN "none" ELSE server
    /\ UNCHANGED <<served, fileVars>>

(* One release, which may raise: the others run all the same and an        *)
(* exception propagates.  stdio_client ends the subprocess.                *)
Release(r) ==
    /\ pc = "unwind" /\ r \in held /\ ReleasedBefore(r) \cap held = {}
    /\ held' = held \ {r}
    /\ \E raises \in BOOLEAN : failing' = (failing \/ raises)
    /\ IF r = "engine"
       THEN pc' = "down" /\ exit' = IF failing' THEN "failed" ELSE "clean"
       ELSE UNCHANGED <<pc, exit>>
    /\ server' = IF r = "server" THEN "none" ELSE server
    /\ UNCHANGED <<served, fileVars>>

(* SIGKILL or a power cut: only the file remains; the server sees the end  *)
(* of its stdin.                                                           *)
Kill ==
    /\ pc # "down"
    /\ pc' = "down" /\ exit' = "killed"
    /\ held' = {} /\ failing' = FALSE /\ server' = "none"
    /\ UNCHANGED <<served, fileVars>>

(* The server passed its self-check and reads its stdin; or it did not, or *)
(* dies later.                                                             *)
ServerReady ==
    /\ server = "starting"
    /\ server' = "ready"
    /\ UNCHANGED <<pc, held, failing, served, exit, fileVars>>

ServerExit ==
    /\ server \in {"starting", "ready"}
    /\ server' = "gone"
    /\ UNCHANGED <<pc, held, failing, served, exit, fileVars>>

StartupStep ==
    \/ CreateTable \/ Stamp \/ UpgradeStamped \/ VerifySchema
    \/ SpawnServer \/ OpenSession \/ Handshake \/ StartupTimeout
    \/ Inspect \/ StartupFails

Next ==
    \/ Start \/ StartupStep
    \/ FirstQuestion \/ Shutdown
    \/ \E r \in Resources : Release(r)
    \/ Kill
    \/ ServerReady \/ ServerExit

Spec == Init /\ [][Next]_vars

(* The process runs on; inspect_schema ends because the manager's timer    *)
(* does, and then Inspect or StartupFails is taken.  The server owes       *)
(* nothing, and nobody has to start or to stop the backend.                *)
Fairness ==
    /\ WF_vars(StartupStep)
    /\ WF_vars(\E r \in Resources : Release(r))

FairSpec == Spec /\ Fairness
-----------------------------------------------------------------------------
(* Every variable has its type.                                            *)
TypeOK ==
    /\ pc \in Steps
    /\ held \subseteq Resources
    /\ failing \in BOOLEAN /\ served \in BOOLEAN
    /\ exit \in {"none", "clean", "failed", "killed"}
    /\ db \in Files /\ found \in Files
    /\ created \in 0..Len(Tables)
    /\ server \in {"none", "starting", "ready", "gone"}

(* The backend serves only on an Admin DB whose tables the migration       *)
(* created, all of them, whatever earlier lives or anybody else left in    *)
(* the file.                                                               *)
ServesOwnSchema == pc = "serving" => Complete(db)

(* A migration that a crash or an error tore leaves a file that no later   *)
(* start serves: a life that serves found the file empty or complete.      *)
TornMigrationNotServed == served => Fresh(found) \/ Complete(found)

(* When the lifespan has ended by itself, nothing it acquired is left, the *)
(* subprocess included, even if a release raised.                          *)
ExitReleasesAll == pc = "down" => held = {} /\ server = "none"

(* No failure is lost on the way out: the process ends cleanly only after  *)
(* a startup that was completed.                                           *)
CleanExitMeansServed == exit = "clean" => served

(* The inductive invariant behind the theorems of AppLifespanProofs.       *)
(* The engine is held as long as the lifespan runs, and the subprocess     *)
(* exists only while the exit stack will end it.                           *)
HeldInv ==
    /\ pc = "down" => held = {}
    /\ pc # "down" => "engine" \in held
    /\ server # "none" => "server" \in held

(* An unwinding knows why it unwinds.                                      *)
ExitInv ==
    /\ pc = "serving" => served
    /\ pc = "unwind" => failing \/ served
    /\ exit = "clean" => served

(* While the migration creates tables, the file holds what was found and   *)
(* what was created, and these are different tables.                       *)
MigrationInv ==
    pc = "migrate" =>
        /\ db.revision # "none" => found = db
        /\ db.revision = "none" =>
              /\ found.revision = "none"
              /\ \A t \in TableNames : Has(found, t) => Has(db, t)
              /\ \A i \in 1..created :
                    /\ db.tables[Tables[i]] = "ours"
                    /\ ~Has(found, Tables[i])

(* After it, the file is the one that was found or a fresh one completed.  *)
FileInv ==
    /\ db.revision = "head" => \A t \in TableNames : db.tables[t] # "foreign"
    /\ pc = "verify" => (Fresh(found) /\ Complete(db)) \/ found = db
    /\ pc \in {"spawn", "session", "handshake", "inspect", "serving"} =>
          Complete(db) /\ (Fresh(found) \/ Complete(found))
    /\ served => Fresh(found) \/ Complete(found)

LifespanInv == TypeOK /\ HeldInv /\ ExitInv /\ MigrationInv /\ FileInv

(* Each startup and each shutdown ends, whatever the MCP server does.      *)
TransitionsEnd == pc \in Startup \cup {"unwind"} ~> pc \in {"serving", "down"}
=============================================================================
