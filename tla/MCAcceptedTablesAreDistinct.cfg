CONSTANTS
    Numerals <- MCNumerals
    ValueOf <- MCValueOf
    OtherCase <- MCOtherCase
    MaximumReturnedRows = 2
    Symbols <- MCSymbols
    LlmQueries <- MCQueries
    LlmTexts <- MCTexts
SPECIFICATION Spec
INVARIANT AcceptedTablesAreDistinct
CHECK_DEADLOCK FALSE
