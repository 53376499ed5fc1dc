CONSTANTS
    Numerals <- MCNumerals
    ValueOf <- MCValueOf
    OtherCase <- MCOtherCase
    MaximumReturnedRows = 2
    Symbols <- MCSymbols
    LlmQueries <- MCQueries
    LlmTexts <- MCTexts
SPECIFICATION Spec
INVARIANTS
    GateTypeOK
    VerdictOnQuery
    AcceptedIsRepresentative
    RepresentativeIsAccepted
    AcceptedPassesExecutor
CHECK_DEADLOCK FALSE
