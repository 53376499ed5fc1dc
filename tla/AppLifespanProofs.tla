-------------------------- MODULE AppLifespanProofs --------------------------
(***************************************************************************)
(* Proofs about AppLifespan, for any list of tables and any initial file.  *)
(***************************************************************************)
EXTENDS AppLifespan, TLAPS

(* A table of the list is one of its names.                                *)
LEMMA TableAt ==
    ASSUME NEW i \in DOMAIN Tables
    PROVE  Tables[i] \in TableNames
  BY DEF TableNames

(* The domain and the length of the list.                                  *)
LEMMA TablesDomain == Len(Tables) \in Nat /\ DOMAIN Tables = 1..Len(Tables)
  BY TablesAssumption

(* Zero is a count of tables.                                              *)
LEMMA NoneCreated == 0 \in 0..Len(Tables)
  BY TablesDomain

(* The initial states satisfy the invariant.                               *)
LEMMA InitLifespanInv == Init => LifespanInv
  <1> SUFFICES ASSUME Init
               PROVE  LifespanInv
    OBVIOUS
  <1> USE DEF Init
  <1>1. db \in Files /\ found \in Files
    BY DEF InitialFiles
  <1>2. TypeOK
    BY <1>1, NoneCreated DEF TypeOK, Steps, Resources
  <1>3. HeldInv /\ ExitInv /\ MigrationInv
    BY DEF HeldInv, ExitInv, MigrationInv
  <1>4. FileInv
    BY DEF FileInv, InitialFiles
  <1> QED BY <1>2, <1>3, <1>4 DEF LifespanInv

-----------------------------------------------------------------------------
(* An exception of the startup changes nothing but the control.            *)
LEMMA RaiseKeeps ==
    ASSUME LifespanInv, pc \in Startup, Raise, UNCHANGED <<fileVars, server>>
    PROVE  LifespanInv'
  <1> USE DEF LifespanInv, Raise, fileVars
  <1>1. TypeOK'
    BY DEF TypeOK, Steps
  <1>2. HeldInv'
    BY DEF HeldInv, Startup
  <1>3. ExitInv' /\ MigrationInv'
    BY DEF ExitInv, MigrationInv
  <1>4. FileInv'
    BY DEF FileInv, Fresh, Complete, Has
  <1> QED BY <1>1, <1>2, <1>3, <1>4

(* A new life starts with the file as it is.                               *)
LEMMA StartKeeps ==
    ASSUME LifespanInv, Start
    PROVE  LifespanInv'
  <1> USE DEF LifespanInv, Start
  <1>1. TypeOK'
    BY NoneCreated DEF TypeOK, Steps, Startup, Resources
  <1>2. HeldInv'
    BY DEF HeldInv
  <1>3. ExitInv'
    BY DEF ExitInv
  <1>4. MigrationInv'
    BY DEF MigrationInv, Has
  <1>5. FileInv'
    BY DEF FileInv
  <1> QED BY <1>1, <1>2, <1>3, <1>4, <1>5

(* A new table joins those created; it was in neither file.                *)
LEMMA CreateTableKeeps ==
    ASSUME LifespanInv, CreateTable
    PROVE  LifespanInv'
  <1> DEFINE t == Tables[created + 1]
  <1>1. pc = "migrate" /\ pc \in Startup /\ db.revision = "none"
    BY DEF CreateTable, Startup
  <1>2. created \in Nat /\ created + 1 \in DOMAIN Tables
    BY TablesDomain DEF LifespanInv, TypeOK, CreateTable
  <1>3. t \in TableNames
    BY <1>2, TableAt
  <1>4. CASE Has(db, t)
    BY <1>1, <1>4, RaiseKeeps DEF CreateTable, fileVars
  <1>5. CASE ~Has(db, t)
    <2>1. /\ db' = [db EXCEPT !.tables[t] = "ours"]
          /\ created' = created + 1
          /\ UNCHANGED <<pc, held, failing, served, exit, found, server>>
      BY <1>1, <1>5 DEF CreateTable, Proceed
    <2>2. db \in Files /\ found \in Files
      BY DEF LifespanInv, TypeOK
    <2>3. db' \in Files /\ db'.revision = "none"
      BY <1>1, <1>3, <2>1, <2>2 DEF Files
    <2>4. \A u \in TableNames : db'.tables[u] = IF u = t THEN "ours" ELSE db.tables[u]
      BY <2>1, <2>2, <1>3 DEF Files
    <2>5. TypeOK'
      BY <2>1, <2>3, <1>2, TablesDomain DEF LifespanInv, TypeOK
    <2>6. HeldInv' /\ ExitInv'
      BY <2>1 DEF LifespanInv, HeldInv, ExitInv
    <2>7. MigrationInv'
      <3>1. found.revision = "none"
        BY <1>1 DEF LifespanInv, MigrationInv
      <3>2. \A u \in TableNames : Has(found, u) => Has(db, u)
        BY <1>1 DEF LifespanInv, MigrationInv
      <3>3. \A u \in TableNames : Has(found, u) => Has(db', u)
        BY <3>2, <2>4 DEF Has
      <3>4. ASSUME NEW i \in 1..(created + 1)
            PROVE  db'.tables[Tables[i]] = "ours" /\ ~Has(found, Tables[i])
        <4>1. i \in DOMAIN Tables /\ Tables[i] \in TableNames
          BY <1>2, TablesDomain, TableAt
        <4>2. CASE i = created + 1
          BY <4>1, <4>2, <1>3, <1>5, <2>4, <3>2
        <4>3. CASE i \in 1..created
          BY <4>1, <4>3, <1>1, <2>4 DEF LifespanInv, MigrationInv
        <4> QED BY <4>2, <4>3, <1>2
      <3>5. found' = found /\ created' = created + 1
        BY <2>1
      <3> QED BY <3>1, <3>3, <3>4, <3>5, <2>3 DEF MigrationInv, Has
    <2>8. FileInv'
      BY <1>1, <2>1, <2>3 DEF LifespanInv, FileInv, Fresh, Complete, Has
    <2> QED BY <2>5, <2>6, <2>7, <2>8 DEF LifespanInv
  <1> QED BY <1>4, <1>5

(* With all tables created, the file is complete and was found fresh.      *)
LEMMA StampKeeps ==
    ASSUME LifespanInv, Stamp
    PROVE  LifespanInv'
  <1>1. /\ pc = "migrate" /\ db.revision = "none" /\ created = Len(Tables)
        /\ db' = [db EXCEPT !.revision = "head"]
        /\ pc' = "verify"
        /\ UNCHANGED <<held, failing, served, exit, created, found, server>>
    BY DEF Stamp, Proceed
  <1>2. db \in Files /\ found \in Files
    BY DEF LifespanInv, TypeOK
  <1>3. db' \in Files /\ db'.revision = "head" /\ db'.tables = db.tables
    BY <1>1, <1>2 DEF Files
  <1>4. ASSUME NEW t \in TableNames
        PROVE  db.tables[t] = "ours" /\ ~Has(found, t)
    <2>1. PICK i \in DOMAIN Tables : t = Tables[i]
      BY DEF TableNames
    <2>2. i \in 1..created
      BY <1>1, <2>1, TablesDomain
    <2> QED BY <1>1, <2>1, <2>2 DEF LifespanInv, MigrationInv
  <1>5. Complete(db')
    BY <1>3, <1>4 DEF Complete
  <1>6. Fresh(found)
    BY <1>1, <1>4 DEF LifespanInv, MigrationInv, Fresh
  <1>7. TypeOK'
    BY <1>1, <1>3 DEF LifespanInv, TypeOK, Steps, Startup
  <1>8. HeldInv' /\ ExitInv' /\ MigrationInv'
    BY <1>1 DEF LifespanInv, HeldInv, ExitInv, MigrationInv
  <1>9. FileInv'
    BY <1>1, <1>5, <1>6 DEF FileInv, Complete, Fresh, Has
  <1> QED BY <1>7, <1>8, <1>9 DEF LifespanInv

(* A file that bears a revision is left as it was found.                   *)
LEMMA UpgradeStampedKeeps ==
    ASSUME LifespanInv, UpgradeStamped
    PROVE  LifespanInv'
  <1>1. pc = "migrate" /\ pc \in Startup /\ UNCHANGED <<fileVars, server>>
    BY DEF UpgradeStamped, Startup
  <1>2. CASE db.revision # "head"
    BY <1>1, <1>2, RaiseKeeps DEF UpgradeStamped
  <1>3. CASE db.revision = "head"
    <2>1. pc' = "verify" /\ UNCHANGED <<held, failing, served, exit>>
      BY <1>3 DEF UpgradeStamped, Proceed
    <2>2. TypeOK'
      BY <1>1, <2>1 DEF LifespanInv, TypeOK, Steps, Startup, fileVars
    <2>3. HeldInv' /\ ExitInv' /\ MigrationInv'
      BY <1>1, <2>1 DEF LifespanInv, HeldInv, ExitInv, MigrationInv, fileVars
    <2>4. found = db
      BY <1>1, <1>3 DEF LifespanInv, MigrationInv
    <2>5. FileInv'
      BY <1>1, <2>1, <2>4 DEF LifespanInv, FileInv, Fresh, Complete, Has, fileVars
    <2> QED BY <2>2, <2>3, <2>5 DEF LifespanInv
  <1> QED BY <1>2, <1>3

(* A head revision with all tables, none of them foreign, is complete.     *)
LEMMA VerifySchemaKeeps ==
    ASSUME LifespanInv, VerifySchema
    PROVE  LifespanInv'
  <1>1. pc = "verify" /\ pc \in Startup /\ UNCHANGED <<fileVars, server>>
    BY DEF VerifySchema, Startup
  <1> DEFINE Verified == db.revision = "head" /\ \A t \in TableNames : Has(db, t)
  <1>2. CASE ~Verified
    BY <1>1, <1>2, RaiseKeeps DEF VerifySchema
  <1>3. CASE Verified
    <2>1. pc' = "spawn" /\ UNCHANGED <<held, failing, served, exit>>
      BY <1>3 DEF VerifySchema, Proceed
    <2>2. db \in Files
      BY DEF LifespanInv, TypeOK
    <2>3. Complete(db)
      BY <1>3, <2>2 DEF LifespanInv, FileInv, Complete, Has, Files
    <2>4. Fresh(found) \/ Complete(found)
      BY <1>1, <2>3 DEF LifespanInv, FileInv
    <2>5. TypeOK'
      BY <1>1, <2>1 DEF LifespanInv, TypeOK, Steps, Startup, fileVars
    <2>6. HeldInv' /\ ExitInv' /\ MigrationInv'
      BY <1>1, <2>1 DEF LifespanInv, HeldInv, ExitInv, MigrationInv, fileVars
    <2>7. FileInv'
      BY <1>1, <2>1, <2>3, <2>4 DEF LifespanInv, FileInv, Fresh, Complete, Has, fileVars
    <2> QED BY <2>5, <2>6, <2>7 DEF LifespanInv
  <1> QED BY <1>2, <1>3

-----------------------------------------------------------------------------
(* The steps of the startup after the Admin DB, and those while serving.   *)
LEMMA LaterStepsKeep ==
    ASSUME LifespanInv,
           SpawnServer \/ OpenSession \/ Inspect \/ FirstQuestion \/ Shutdown
    PROVE  LifespanInv'
  <1> USE DEF LifespanInv, SpawnServer, OpenSession, Inspect, FirstQuestion,
              Shutdown, fileVars
  <1>1. TypeOK'
    BY DEF TypeOK, Steps, Startup, Resources
  <1>2. HeldInv'
    BY DEF HeldInv
  <1>3. ExitInv' /\ MigrationInv'
    BY DEF ExitInv, MigrationInv
  <1>4. FileInv'
    BY DEF FileInv, Fresh, Complete, Has
  <1> QED BY <1>1, <1>2, <1>3, <1>4

(* The handshake goes on or raises.                                        *)
LEMMA HandshakeKeeps ==
    ASSUME LifespanInv, Handshake
    PROVE  LifespanInv'
  <1>1. pc = "handshake" /\ pc \in Startup /\ UNCHANGED <<fileVars, server>>
    BY DEF Handshake, Startup
  <1>2. CASE Raise
    BY <1>1, <1>2, RaiseKeeps
  <1>3. CASE Proceed("inspect")
    <2> USE <1>1, <1>3 DEF Proceed, LifespanInv, fileVars
    <2>1. TypeOK'
      BY DEF TypeOK, Steps, Startup
    <2>2. HeldInv' /\ ExitInv' /\ MigrationInv'
      BY DEF HeldInv, ExitInv, MigrationInv
    <2>3. FileInv'
      BY DEF FileInv, Fresh, Complete, Has
    <2> QED BY <2>1, <2>2, <2>3
  <1> QED BY <1>2, <1>3 DEF Handshake

(* The engine is released last, when the subprocess is gone.               *)
LEMMA ReleaseKeeps ==
    ASSUME LifespanInv, NEW r \in Resources, Release(r)
    PROVE  LifespanInv'
  <1> USE DEF LifespanInv, Release, fileVars
  <1>1. failing' \in BOOLEAN /\ (failing => failing')
    BY DEF TypeOK
  <1>2. TypeOK'
    BY <1>1 DEF TypeOK, Steps
  <1>3. HeldInv'
    <2>1. CASE r = "engine"
      <3>1. held \subseteq {"engine"}
        BY <2>1 DEF TypeOK, Resources, ReleasedBefore
      <3>2. held' = {} /\ pc' = "down" /\ server' = server
        BY <2>1, <3>1
      <3>3. server = "none"
        BY <3>1 DEF HeldInv
      <3> QED BY <3>2, <3>3 DEF HeldInv
    <2>2. CASE r # "engine"
      BY <2>2 DEF HeldInv
    <2> QED BY <2>1, <2>2
  <1>4. ExitInv'
    BY <1>1 DEF ExitInv
  <1>5. MigrationInv'
    BY DEF MigrationInv
  <1>6. FileInv'
    BY DEF FileInv, Fresh, Complete, Has
  <1> QED BY <1>2, <1>3, <1>4, <1>5, <1>6

(* What happens to the process and to the server from outside.             *)
LEMMA OutsideKeeps ==
    ASSUME LifespanInv, Kill \/ ServerReady \/ ServerExit \/ UNCHANGED vars
    PROVE  LifespanInv'
  <1> USE DEF LifespanInv, Kill, ServerReady, ServerExit, vars, fileVars
  <1>1. TypeOK'
    BY DEF TypeOK, Steps
  <1>2. HeldInv'
    BY DEF HeldInv
  <1>3. ExitInv' /\ MigrationInv'
    BY DEF ExitInv, MigrationInv, Has
  <1>4. FileInv'
    BY DEF FileInv, Fresh, Complete, Has
  <1> QED BY <1>1, <1>2, <1>3, <1>4

-----------------------------------------------------------------------------
(* Every state of every sequence of lives satisfies the invariant of the   *)
(* lifespan: what is held, why it unwinds, what the file contains.         *)
THEOREM LifespanInvariant == Spec => []LifespanInv
  <1>1. Init => LifespanInv
    BY InitLifespanInv
  <1>2. LifespanInv /\ [Next]_vars => LifespanInv'
    <2> SUFFICES ASSUME LifespanInv, [Next]_vars
                 PROVE  LifespanInv'
      OBVIOUS
    <2>1. CASE Start
      BY <2>1, StartKeeps
    <2>2. CASE CreateTable
      BY <2>2, CreateTableKeeps
    <2>3. CASE Stamp
      BY <2>3, StampKeeps
    <2>4. CASE UpgradeStamped
      BY <2>4, UpgradeStampedKeeps
    <2>5. CASE VerifySchema
      BY <2>5, VerifySchemaKeeps
    <2>6. CASE SpawnServer \/ OpenSession \/ Inspect \/ FirstQuestion \/ Shutdown
      BY <2>6, LaterStepsKeep
    <2>7. CASE Handshake
      BY <2>7, HandshakeKeeps
    <2>8. CASE StartupTimeout \/ StartupFails
      <3>1. pc \in Startup /\ Raise /\ UNCHANGED <<fileVars, server>>
        BY <2>8 DEF StartupTimeout, StartupFails, Startup
      <3> QED BY <3>1, RaiseKeeps
    <2>9. CASE \E r \in Resources : Release(r)
      BY <2>9, ReleaseKeeps
    <2>10. CASE Kill \/ ServerReady \/ ServerExit \/ UNCHANGED vars
      BY <2>10, OutsideKeeps
    <2> QED
      BY <2>1, <2>2, <2>3, <2>4, <2>5, <2>6, <2>7, <2>8, <2>9, <2>10
      DEF Next, StartupStep
  <1> QED BY <1>1, <1>2, PTL DEF Spec

(* Every variable keeps its type over any number of lives, whatever list   *)
(* of tables the migration has and whatever file it finds; created never   *)
(* leaves the list (alembic/versions)  .                                  *)
THEOREM LifespanTypeCorrect == Spec => []TypeOK
  <1>1. LifespanInv => TypeOK
    BY DEF LifespanInv
  <1> QED BY <1>1, LifespanInvariant, PTL

(* The backend never serves on an Admin DB other than its own complete     *)
(* one, and never on a file that an earlier migration left torn.           *)
THEOREM ServesVerifiedSchema == Spec => [](ServesOwnSchema /\ TornMigrationNotServed)
  <1>1. LifespanInv => ServesOwnSchema /\ TornMigrationNotServed
    BY DEF LifespanInv, FileInv, ServesOwnSchema, TornMigrationNotServed
  <1> QED BY <1>1, LifespanInvariant, PTL

(* However a life ends, nothing is held any more, and it ends cleanly only *)
(* if it has served.                                                       *)
THEOREM LivesEndClean == Spec => [](ExitReleasesAll /\ CleanExitMeansServed)
  <1>1. LifespanInv => ExitReleasesAll /\ CleanExitMeansServed
    BY DEF LifespanInv, HeldInv, ExitInv, ExitReleasesAll, CleanExitMeansServed
  <1> QED BY <1>1, LifespanInvariant, PTL
=============================================================================
