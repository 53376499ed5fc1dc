CONSTANTS
    Requests = {q1, q2, q3}
    NoCall = NoCall
    OtherIds = {o1}
    Blank = Blank
    MaximumReturnedRows = 1
    LlmIntents <- MCIntents
    LlmPlans <- MCPlans
    LlmSqls <- MCSqls
    Numerals <- MCNumerals
    ValueOf <- MCValueOf
    OtherCase <- MCOtherCase
    MatchingRows = {2}
SPECIFICATION FairSpec
INVARIANTS
    TypeOK
    ResponseTellsServer
    ConfigurationSettledAtStart
    NeverTruncated
PROPERTIES
    EveryQuestionAnswered
    NoCompletionAfterLoss
