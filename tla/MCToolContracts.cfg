CONSTANT
    Servers <- MCServers
SPECIFICATION Spec
INVARIANTS
    TypeOK
    AcceptedServesCalls
    RefusedHasDrifted
CHECK_DEADLOCK FALSE
