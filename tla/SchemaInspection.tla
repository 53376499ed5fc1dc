--------------------------- MODULE SchemaInspection ---------------------------
(***************************************************************************)
(* inspect_schema of the MCP server, the catalog that the backend builds   *)
(* from its result and validate_physical_mapping, the judgement that lets  *)
(* the backend start (mcp_server/tools/inspect_schema.py,                  *)
(* app/services/schema_collector.py, app/services/metadata_service.py).    *)
(*                                                                         *)
(* Four statements read the target database one after the other, each in a *)
(* transaction of its own (autocommit, db.py:61); DDL of others may run    *)
(* between any two of them.  The order of tables in the result is left     *)
(* out, that of columns and keys is kept.                                  *)
(***************************************************************************)
EXTENDS Integers, Sequences, FiniteSets, Functions

CONSTANTS
    InitialDbs,       \* target databases that an inspection may find
    NewColumns,       \* columns that ALTER TABLE may add
    NewTables,        \* tables, with their keys, that CREATE TABLE may make
    NewForeignKeys,   \* foreign keys that ALTER TABLE may add
    ExcludedSchemas,  \* schemas of the system and of the roles
    MaxDdl            \* bound: DDL statements during the inspection

(* A database: tables and foreign keys by object id, and the objects that  *)
(* bear an MS_Description, 0 being the table itself.  A table has columns  *)
(* by column id, ids being given in order and never again; a column has a  *)
(* type, and this is of the system, an alias of one, or of the CLR.        *)
Wide == {"nvarchar", "nchar"}
Narrow == {"varchar", "char", "binary", "varbinary"}
Exact == {"decimal", "numeric"}
Scaled == {"datetime2", "time", "datetimeoffset"}
Kinds == {"system", "alias", "clr"}

(* A type has a length or a scale only where its declaration has one.      *)
ColumnTypes ==
    {type \in [base : STRING, length : Int, scale : Nat] :
        /\ type.base \notin Wide \cup Narrow => type.length = 0
        /\ type.base \notin Exact \cup Scaled => type.scale = 0}

Column == [name : STRING, kind : Kinds, type : ColumnTypes]

IsTable(table) ==
    /\ table \in [schema : STRING, name : STRING, shipped : BOOLEAN,
                  columns : [DOMAIN table.columns -> Column],
                  used : Nat, primary_key : Seq(Nat)]
    /\ DOMAIN table.columns \subseteq 1..table.used

IsForeignKey(fk) ==
    fk \in [name : STRING, parent : Nat, referenced : Nat, pairs : Seq(Nat \X Nat) \ {<<>>}]

KeyOf(d, t) == <<d.tables[t].schema, d.tables[t].name>>

(* Both ends of the foreign key are there.                                 *)
Fits(d, fk) ==
    /\ {fk.parent, fk.referenced} \subseteq DOMAIN d.tables
    /\ \A k \in DOMAIN fk.pairs :
          /\ fk.pairs[k][1] \in DOMAIN d.tables[fk.parent].columns
          /\ fk.pairs[k][2] \in DOMAIN d.tables[fk.referenced].columns

(* What SQL Server guarantees of a database, as far as it matters here.    *)
WellFormed(d) ==
    /\ d \in [tables : {d.tables}, foreign_keys : {d.foreign_keys}, described : SUBSET (Nat \X Nat)]
    /\ \A t \in DOMAIN d.tables : IsTable(d.tables[t])
    /\ \A t, u \in DOMAIN d.tables : KeyOf(d, t) = KeyOf(d, u) => t = u
    /\ \A f \in DOMAIN d.foreign_keys :
          IsForeignKey(d.foreign_keys[f]) /\ Fits(d, d.foreign_keys[f])

ASSUME InspectionAssumption ==
    /\ MaxDdl \in Nat
    /\ \A d \in InitialDbs : WellFormed(d)
    /\ \A c \in NewColumns : c \in Column
    /\ \A n \in NewTables :
          IsTable(n.table) /\ \A f \in DOMAIN n.foreign_keys : IsForeignKey(n.foreign_keys[f])
    /\ \A n \in NewForeignKeys : IsForeignKey(n.key)

VARIABLES
    db, ddl,          \* external: the target database, DDL statements so far
    pc,               \* the next statement of the inspection
    columnRows, keyRows, foreignKeyRows,
    connection,       \* "none", "open" or "closed"
    catalog,          \* the PhysicalMetadataCatalog, NoCatalog before
    ever, always      \* history: the mapping held at some instant, at every one

readVars == <<columnRows, keyRows, foreignKeyRows>>
vars == <<db, ddl, pc, readVars, connection, catalog, ever, always>>

NoCatalog == [tables |-> <<>>, foreign_keys |-> <<>>]

-----------------------------------------------------------------------------
(* External: the catalog views, as they stand in the database d.           *)
UserTables(d) ==
    {t \in DOMAIN d.tables : ~d.tables[t].shipped /\ d.tables[t].schema \notin ExcludedSchemas}
NameOf(d, t, c) == d.tables[t].columns[c].name

(* sys.columns keeps the length in bytes, -1 for max.                      *)
SystemLength(type) ==
    IF type.base \in Wide /\ type.length # -1 THEN 2 * type.length ELSE type.length

(* The join of _COLUMNS_QUERY on the type below an alias.  A type of the   *)
(* CLR shares its system_type_id with others and is no such type itself.   *)
VisibleKinds == {"system", "alias"}

(* The columns that a catalog can show.                                    *)
Shown(d, t) == {c \in DOMAIN d.tables[t].columns : d.tables[t].columns[c].kind # "clr"}

ColumnRows(d) ==
    {[key |-> KeyOf(d, x[1]), column_id |-> x[2], name |-> NameOf(d, x[1], x[2]),
      base |-> d.tables[x[1]].columns[x[2]].type.base,
      max_length |-> SystemLength(d.tables[x[1]].columns[x[2]].type),
      scale |-> d.tables[x[1]].columns[x[2]].type.scale] :
         x \in UNION {{<<t, c>> : c \in {e \in DOMAIN d.tables[t].columns :
                                            d.tables[t].columns[e].kind \in VisibleKinds}} :
                          t \in UserTables(d)}}

KeyRows(d) ==
    UNION {{[key |-> KeyOf(d, t), column |-> NameOf(d, t, d.tables[t].primary_key[k]),
             key_ordinal |-> k] : k \in DOMAIN d.tables[t].primary_key} : t \in UserTables(d)}

ForeignKeyRows(d) ==
    UNION {LET fk == d.foreign_keys[f] IN
           {[object_id |-> f, name |-> fk.name,
             source |-> KeyOf(d, fk.parent), source_column |-> NameOf(d, fk.parent, fk.pairs[k][1]),
             target |-> KeyOf(d, fk.referenced),
             target_column |-> NameOf(d, fk.referenced, fk.pairs[k][2]),
             constraint_column_id |-> k] : k \in DOMAIN fk.pairs} :
               f \in {g \in DOMAIN d.foreign_keys :
                          {d.foreign_keys[g].parent, d.foreign_keys[g].referenced}
                              \subseteq UserTables(d)}}

(* The text of a description is the name of what it describes.             *)
DescriptionRows(d) ==
    {[key |-> KeyOf(d, x[1]), minor_id |-> x[2], value |-> x] :
        x \in {y \in d.described : y[1] \in UserTables(d)}}

-----------------------------------------------------------------------------
(* _format_data_type.  Precision is left out: it is passed on unchanged.   *)
FormatDataType(base, max_length, scale) ==
    [base |-> base,
     length |-> CASE base \in Wide -> IF max_length = -1 THEN -1 ELSE max_length \div 2
                  [] base \in Narrow -> max_length
                  [] OTHER -> 0,
     scale |-> IF base \in Exact \cup Scaled THEN scale ELSE 0]

NoDescription == <<>>
DescriptionFor(rows, key, minor_id) ==
    IF \E r \in rows : r.key = key /\ r.minor_id = minor_id
    THEN (CHOOSE r \in rows : r.key = key /\ r.minor_id = minor_id).value
    ELSE NoDescription

(* The ids as ORDER BY puts them.                                          *)
InOrder(ids) ==
    CHOOSE s \in [1..Cardinality(ids) -> ids] : \A i, j \in DOMAIN s : i < j => s[i] < s[j]

(* Mutant of ColumnsOf: a description is looked up by the position of the  *)
(* column in the result.                                                   *)
ColumnsOfByPosition(key, descriptions) ==
    LET rows == {r \in columnRows : r.key = key}
        ids == InOrder({r.column_id : r \in rows})
        row(k) == CHOOSE r \in rows : r.column_id = ids[k]
    IN  [k \in DOMAIN ids |->
            [name |-> row(k).name,
             data_type |-> FormatDataType(row(k).base, row(k).max_length, row(k).scale),
             description |-> DescriptionFor(descriptions, key, k)]]

(* The columns of a table; the ordinal position is that in the list.       *)
ColumnsOf(key, descriptions) ==
    LET rows == {r \in columnRows : r.key = key}
        ids == InOrder({r.column_id : r \in rows})
        row(k) == CHOOSE r \in rows : r.column_id = ids[k]
    IN  [k \in DOMAIN ids |->
            [name |-> row(k).name,
             data_type |-> FormatDataType(row(k).base, row(k).max_length, row(k).scale),
             description |-> DescriptionFor(descriptions, key, row(k).column_id)]]

(* The columns of a primary key, <<>> for none.                            *)
PrimaryKeyOf(key) ==
    LET rows == {r \in keyRows : r.key = key}
        ordinals == InOrder({r.key_ordinal : r \in rows})
    IN  [k \in DOMAIN ordinals |-> (CHOOSE r \in rows : r.key_ordinal = ordinals[k]).column]

(* Mutant of GroupOf: rows are grouped by the name of the foreign key.     *)
GroupOfName(row) == {r \in foreignKeyRows : r.name = row.name}

(* The rows of one foreign key.                                            *)
GroupOf(row) == {r \in foreignKeyRows : r.object_id = row.object_id}

ForeignKeyFrom(group) ==
    LET ids == InOrder({r.constraint_column_id : r \in group})
        row(k) == CHOOSE r \in group : r.constraint_column_id = ids[k]
    IN  [name |-> row(1).name,
         source |-> row(1).source,
         source_columns |-> [k \in DOMAIN ids |-> row(k).source_column],
         target |-> row(1).target,
         target_columns |-> [k \in DOMAIN ids |-> row(k).target_column]]

(* The result of the tool, which build_physical_metadata_catalog takes as  *)
(* it is.  Only the columns query makes a table known.                     *)
Catalog(descriptions) ==
    [tables |-> [key \in {r.key : r \in columnRows} |->
                    [description |-> DescriptionFor(descriptions, key, 0),
                     columns |-> ColumnsOf(key, descriptions),
                     primary_key |-> PrimaryKeyOf(key)]],
     foreign_keys |-> [g \in {GroupOf(row) : row \in foreignKeyRows} |-> ForeignKeyFrom(g)]]

-----------------------------------------------------------------------------
(* validate_physical_mapping.                                              *)
Product == <<"Production", "Product">>
Inventory == <<"Production", "ProductInventory">>
RequiredColumns(key) ==
    IF key = Product THEN {"ProductID", "Name", "SafetyStockLevel"} ELSE {"ProductID", "Quantity"}

(* Mutant of IsRequiredKey: the columns that are referenced do not count.  *)
IsRequiredKeyBySource(fk) ==
    fk.source = Inventory /\ fk.source_columns = <<"ProductID">> /\ fk.target = Product

IsRequiredKey(fk) ==
    /\ fk.source = Inventory /\ fk.source_columns = <<"ProductID">>
    /\ fk.target = Product /\ fk.target_columns = <<"ProductID">>

MappingValid(c) ==
    /\ \A key \in {Product, Inventory} :
          /\ key \in DOMAIN c.tables
          /\ RequiredColumns(key) \subseteq
                 {c.tables[key].columns[k].name : k \in DOMAIN c.tables[key].columns}
    /\ \E g \in DOMAIN c.foreign_keys : IsRequiredKey(c.foreign_keys[g])

(* What it stands for: the database d has the tables with the columns,    *)
(* which a catalog can show, and the foreign key of the business metadata. *)
HasColumns(d) ==
    \A key \in {Product, Inventory} :
        \E t \in UserTables(d) :
            KeyOf(d, t) = key /\ RequiredColumns(key) \subseteq {NameOf(d, t, c) : c \in Shown(d, t)}

HasKey(d) ==
    \E f \in DOMAIN d.foreign_keys :
        LET fk == d.foreign_keys[f]
        IN  /\ {fk.parent, fk.referenced} \subseteq UserTables(d)
            /\ KeyOf(d, fk.parent) = Inventory /\ KeyOf(d, fk.referenced) = Product
            /\ Len(fk.pairs) = 1
            /\ NameOf(d, fk.parent, fk.pairs[1][1]) = "ProductID"
            /\ NameOf(d, fk.referenced, fk.pairs[1][2]) = "ProductID"

MappingHolds(d) == HasColumns(d) /\ HasKey(d)

-----------------------------------------------------------------------------
Init ==
    /\ db \in InitialDbs
    /\ ddl = 0
    /\ pc = "connect" /\ connection = "none"
    /\ columnRows = {} /\ keyRows = {} /\ foreignKeyRows = {}
    /\ catalog = NoCatalog
    /\ ever = MappingHolds(db) /\ always = MappingHolds(db)

Connect ==
    /\ pc = "connect"
    /\ pc' = "columns" /\ connection' = "open"
    /\ UNCHANGED <<db, ddl, readVars, catalog, ever, always>>

ReadColumns ==
    /\ pc = "columns"
    /\ columnRows' = ColumnRows(db)
    /\ pc' = "keys"
    /\ UNCHANGED <<db, ddl, keyRows, foreignKeyRows, connection, catalog, ever, always>>

ReadKeys ==
    /\ pc = "keys"
    /\ keyRows' = KeyRows(db)
    /\ pc' = "foreign_keys"
    /\ UNCHANGED <<db, ddl, columnRows, foreignKeyRows, connection, catalog, ever, always>>

ReadForeignKeys ==
    /\ pc = "foreign_keys"
    /\ foreignKeyRows' = ForeignKeyRows(db)
    /\ pc' = "descriptions"
    /\ UNCHANGED <<db, ddl, columnRows, keyRows, connection, catalog, ever, always>>

(* The last statement, the result, the catalog and its judgement.          *)
ReadDescriptions ==
    /\ pc = "descriptions"
    /\ connection' = "closed"
    /\ LET c == Catalog(DescriptionRows(db))
       IN  catalog' = c /\ pc' = IF MappingValid(c) THEN "accepted" ELSE "refused"
    /\ UNCHANGED <<db, ddl, readVars, ever, always>>

(* Mutant of Fail: the connection is closed on the good path only.         *)
FailLeaving ==
    /\ pc \in {"connect", "columns", "keys", "foreign_keys", "descriptions"}
    /\ pc' = "failed"
    /\ UNCHANGED <<db, ddl, readVars, connection, catalog, ever, always>>

(* ConnectionError, or pyodbc.Error from the timeout setting, the cursor,  *)
(* a statement or a fetch.                                                 *)
Fail ==
    /\ pc \in {"connect", "columns", "keys", "foreign_keys", "descriptions"}
    /\ pc' = "failed"
    /\ connection' = IF connection = "open" THEN "closed" ELSE connection
    /\ UNCHANGED <<db, ddl, readVars, catalog, ever, always>>

-----------------------------------------------------------------------------
(* External: one DDL statement of somebody else between two of ours.       *)
Change(d) ==
    /\ pc \in {"keys", "foreign_keys", "descriptions"}
    /\ ddl < MaxDdl
    /\ db' = d /\ ddl' = ddl + 1
    /\ ever' = (ever \/ MappingHolds(d)) /\ always' = (always /\ MappingHolds(d))
    /\ UNCHANGED <<pc, readVars, connection, catalog>>

AddColumn ==
    \E t \in DOMAIN db.tables, c \in NewColumns :
        /\ c.name \notin {NameOf(db, t, e) : e \in DOMAIN db.tables[t].columns}
        /\ LET id == db.tables[t].used + 1
           IN  Change([db EXCEPT !.tables[t].used = id,
                                 !.tables[t].columns =
                                     [e \in DOMAIN @ \cup {id} |-> IF e = id THEN c ELSE @[e]]])

Referenced(t, c) ==
    \/ c \in Range(db.tables[t].primary_key)
    \/ \E f \in DOMAIN db.foreign_keys :
          LET fk == db.foreign_keys[f]
          IN  \/ fk.parent = t /\ \E k \in DOMAIN fk.pairs : fk.pairs[k][1] = c
              \/ fk.referenced = t /\ \E k \in DOMAIN fk.pairs : fk.pairs[k][2] = c

DropColumn ==
    \E t \in DOMAIN db.tables :
        \E c \in DOMAIN db.tables[t].columns :
            /\ ~Referenced(t, c) /\ Cardinality(DOMAIN db.tables[t].columns) > 1
            /\ Change([db EXCEPT !.tables[t].columns = [e \in DOMAIN @ \ {c} |-> @[e]],
                                 !.described = @ \ {<<t, c>>}])

CreateTable ==
    \E n \in NewTables :
        /\ n.id \notin DOMAIN db.tables
        /\ DOMAIN n.foreign_keys \cap DOMAIN db.foreign_keys = {}
        /\ <<n.table.schema, n.table.name>> \notin {KeyOf(db, t) : t \in DOMAIN db.tables}
        /\ LET d == [db EXCEPT !.tables = [t \in DOMAIN @ \cup {n.id} |->
                                              IF t = n.id THEN n.table ELSE @[t]],
                               !.foreign_keys = [f \in DOMAIN @ \cup DOMAIN n.foreign_keys |->
                                                    IF f \in DOMAIN n.foreign_keys
                                                    THEN n.foreign_keys[f] ELSE @[f]]]
           IN  /\ \A f \in DOMAIN n.foreign_keys :
                     n.foreign_keys[f].parent = n.id /\ Fits(d, n.foreign_keys[f])
               /\ Change(d)

DropTable ==
    \E t \in DOMAIN db.tables :
        /\ \A f \in DOMAIN db.foreign_keys :
              db.foreign_keys[f].referenced = t => db.foreign_keys[f].parent = t
        /\ Change([tables |-> [u \in DOMAIN db.tables \ {t} |-> db.tables[u]],
                   foreign_keys |-> [f \in {g \in DOMAIN db.foreign_keys :
                                               db.foreign_keys[g].parent # t} |->
                                        db.foreign_keys[f]],
                   described |-> {x \in db.described : x[1] # t}])

AddForeignKey ==
    \E n \in NewForeignKeys :
        /\ n.id \notin DOMAIN db.foreign_keys
        /\ Fits(db, n.key)
        /\ Change([db EXCEPT !.foreign_keys = [f \in DOMAIN @ \cup {n.id} |->
                                                  IF f = n.id THEN n.key ELSE @[f]]])

DropForeignKey ==
    \E f \in DOMAIN db.foreign_keys :
        Change([db EXCEPT !.foreign_keys = [g \in DOMAIN @ \ {f} |-> @[g]]])

Ddl ==
    \/ AddColumn \/ DropColumn \/ CreateTable \/ DropTable
    \/ AddForeignKey \/ DropForeignKey

Next ==
    \/ Connect \/ ReadColumns \/ ReadKeys \/ ReadForeignKeys \/ ReadDescriptions
    \/ Fail \/ Ddl

Spec == Init /\ [][Next]_vars

-----------------------------------------------------------------------------
Ended == pc \in {"accepted", "refused", "failed"}
Judged == pc \in {"accepted", "refused"}

(* The database stays one that SQL Server allows, control and history have *)
(* their types, and no ended inspection keeps its connection.              *)
TypeOK ==
    /\ WellFormed(db)
    /\ pc \in {"connect", "columns", "keys", "foreign_keys", "descriptions",
               "accepted", "refused", "failed"}
    /\ ddl \in 0..MaxDdl
    /\ connection \in (IF Ended THEN {"none", "closed"}
                       ELSE IF pc = "connect" THEN {"none"} ELSE {"open"})
    /\ ever \in BOOLEAN /\ always \in BOOLEAN

(* The column c of table t in the database, as the catalog should list it. *)
Lists(entry, t, c) ==
    /\ entry.name = NameOf(db, t, c)
    /\ entry.data_type = db.tables[t].columns[c].type
    /\ entry.description = IF <<t, c>> \in db.described THEN <<t, c>> ELSE NoDescription

(* Without DDL the catalog is the database: each table with a column that  *)
(* can be shown is there once, its columns in the order of their creation, *)
(* each with its own type and description however many columns were        *)
(* dropped; keys and foreign keys name the right columns in order, even    *)
(* where two foreign keys bear one name.                                   *)
InspectionIsExact ==
    Judged /\ ddl = 0 =>
        LET shown(t) == Shown(db, t)
            tables == {t \in UserTables(db) : shown(t) # {}}
            names(t, ids) == [k \in DOMAIN ids |-> NameOf(db, t, ids[k])]
        IN
        /\ DOMAIN catalog.tables = {KeyOf(db, t) : t \in tables}
        /\ \A t \in tables :
              LET entry == catalog.tables[KeyOf(db, t)] IN
              /\ entry.description = IF <<t, 0>> \in db.described THEN <<t, 0>> ELSE NoDescription
              /\ Len(entry.columns) = Cardinality(shown(t))
              /\ \A c \in shown(t) :
                    Lists(entry.columns[Cardinality({e \in shown(t) : e <= c})], t, c)
              /\ entry.primary_key = names(t, db.tables[t].primary_key)
        /\ {catalog.foreign_keys[g] : g \in DOMAIN catalog.foreign_keys} =
              {LET fk == db.foreign_keys[f]
               IN  [name |-> fk.name,
                    source |-> KeyOf(db, fk.parent),
                    source_columns |-> names(fk.parent, [k \in DOMAIN fk.pairs |-> fk.pairs[k][1]]),
                    target |-> KeyOf(db, fk.referenced),
                    target_columns |->
                        names(fk.referenced, [k \in DOMAIN fk.pairs |-> fk.pairs[k][2]])] :
                  f \in {g \in DOMAIN db.foreign_keys :
                            {db.foreign_keys[g].parent, db.foreign_keys[g].referenced}
                                \subseteq UserTables(db)}}

(* A backend starts only on a mapping that really held at some instant of  *)
(* the inspection, although columns and foreign keys are read at different *)
(* times, as long as no more than one DDL statement came between.          *)
AcceptedMappingHeld == pc = "accepted" /\ ddl <= 1 => ever

(* A start is refused for the mapping only if there was an instant at      *)
(* which it did not hold, whatever DDL ran.                                *)
RefusedMappingBroke == pc = "refused" => ~always

(* The inductive invariant.  The rows have one entry per id.               *)
OneRowPerColumn(rows) ==
    /\ \A r \in rows :
          r.column_id \in Nat /\ IsFiniteSet({q.column_id : q \in {p \in rows : p.key = r.key}})
    /\ \A r, q \in rows : r.key = q.key /\ r.column_id = q.column_id => r = q

OneRowPerKeyColumn(rows) ==
    /\ \A r \in rows :
          /\ r.constraint_column_id \in Nat
          /\ IsFiniteSet({q.constraint_column_id : q \in {p \in rows : p.object_id = r.object_id}})
    /\ \A r, q \in rows :
          r.object_id = q.object_id /\ r.constraint_column_id = q.constraint_column_id => r = q

(* What the mapping needs is among the rows.                               *)
ColumnsAmong(rows) ==
    \A key \in {Product, Inventory} :
        RequiredColumns(key) \subseteq {r.name : r \in {q \in rows : q.key = key}}

KeyAmong(rows) ==
    \E r \in rows :
        /\ {q \in rows : q.object_id = r.object_id} = {r}
        /\ r.source = Inventory /\ r.source_column = "ProductID"
        /\ r.target = Product /\ r.target_column = "ProductID"

ColumnsAreRead == pc \in {"keys", "foreign_keys", "descriptions", "accepted", "refused"}
KeysAreRead == pc \in {"foreign_keys", "descriptions", "accepted", "refused"}
ForeignKeysAreRead == pc \in {"descriptions", "accepted", "refused"}

(* What was read is what is there as long as nothing has changed.          *)
RowsInv ==
    /\ WellFormed(db)
    /\ OneRowPerColumn(columnRows) /\ OneRowPerKeyColumn(foreignKeyRows)
    /\ pc \in {"connect", "columns"} => ddl = 0
    /\ ddl = 0 =>
          /\ ColumnsAreRead => columnRows = ColumnRows(db)
          /\ KeysAreRead => keyRows = KeyRows(db)
          /\ ForeignKeysAreRead => foreignKeyRows = ForeignKeyRows(db)
          /\ Judged => catalog = Catalog(DescriptionRows(db))

(* What the rows say of the mapping at the instants that history records.  *)
MappingInv ==
    /\ MappingHolds(db) => ever
    /\ always => MappingHolds(db)
    /\ always /\ ColumnsAreRead => ColumnsAmong(columnRows)
    /\ always /\ ForeignKeysAreRead => KeyAmong(foreignKeyRows)
    /\ ColumnsAreRead /\ ColumnsAmong(columnRows) /\ ddl = 0 => HasColumns(db)
    /\ ColumnsAreRead /\ ColumnsAmong(columnRows) /\ ddl <= 1 /\ HasKey(db) => ever
    /\ ForeignKeysAreRead /\ ColumnsAmong(columnRows) /\ ddl <= 1 /\ KeyAmong(foreignKeyRows) => ever
    /\ pc = "accepted" => ColumnsAmong(columnRows) /\ KeyAmong(foreignKeyRows)
    /\ pc = "refused" => ~(ColumnsAmong(columnRows) /\ KeyAmong(foreignKeyRows))

SchemaInv == TypeOK /\ RowsInv /\ MappingInv

(* docs/contracts/inspect-schema.md:40: the result has all columns of the  *)
(* inspected tables.                                                       *)
AllColumnsReturned ==
    Judged /\ ddl = 0 =>
        \A t \in UserTables(db) :
            /\ KeyOf(db, t) \in DOMAIN catalog.tables
            /\ LET columns == catalog.tables[KeyOf(db, t)].columns
               IN  {columns[k].name : k \in DOMAIN columns} =
                       {NameOf(db, t, c) : c \in DOMAIN db.tables[t].columns}

(* docs/features/0003-mcp-readonly-data-access/tasks.md:125: source and    *)
(* target of a foreign key are always among the tables of the result.      *)
ForeignKeyTablesListed ==
    Judged =>
        \A g \in DOMAIN catalog.foreign_keys :
            {catalog.foreign_keys[g].source, catalog.foreign_keys[g].target}
                \subseteq DOMAIN catalog.tables
=============================================================================
