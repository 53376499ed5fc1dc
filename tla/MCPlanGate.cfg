CONSTANTS
    OtherIds = {o1}
    Blank = Blank
    MaximumReturnedRows = 2
    RawPlans <- MCRawPlans
SPECIFICATION Spec
INVARIANTS
    GateTypeOK
    ScopeIsExact
CHECK_DEADLOCK FALSE
