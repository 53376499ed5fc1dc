CONSTANT Tables <- AllTables
SPECIFICATION FairSpec
INVARIANTS
    TypeOK
    ServesOwnSchema
    TornMigrationNotServed
    ExitReleasesAll
    CleanExitMeansServed
PROPERTY TransitionsEnd
