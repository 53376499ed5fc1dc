CONSTANTS
    InitialDbs <- MCInitialDbs
    NewColumns <- MCNewColumns
    NewTables <- MCNewTables
    NewForeignKeys <- MCNewForeignKeys
    ExcludedSchemas = {"guest"}
    MaxDdl = 2
SPECIFICATION Spec
INVARIANT ForeignKeyTablesListed
CHECK_DEADLOCK FALSE
