CONSTANTS
    InitialDbs <- MCInitialDbs
    NewColumns <- MCNewColumns
    NewTables <- MCNewTables
    NewForeignKeys <- MCNewForeignKeys
    ExcludedSchemas = {"guest"}
    MaxDdl = 2
SPECIFICATION Spec
INVARIANT AllColumnsReturned
CHECK_DEADLOCK FALSE
