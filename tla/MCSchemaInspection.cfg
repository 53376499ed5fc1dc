CONSTANTS
    InitialDbs <- MCInitialDbs
    NewColumns <- MCNewColumns
    NewTables <- MCNewTables
    NewForeignKeys <- MCNewForeignKeys
    ExcludedSchemas = {"guest"}
    MaxDdl = 2
SPECIFICATION Spec
INVARIANTS
    TypeOK
    InspectionIsExact
    AcceptedMappingHeld
    RefusedMappingBroke
CHECK_DEADLOCK FALSE
