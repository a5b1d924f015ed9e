SPECIFICATION LiveSpec
CONSTANTS
    cPatch = cPatch
    cStatus = cStatus
    Calls <- MCCalls
    Api <- MCApi
    Replies <- MCReplies
    MaxConns = 1
    MaxTries = 2
    Deadlines = TRUE
INVARIANTS
    IInv
    InstrumentsCount
    NoConnectionLeak
    AtMostOnce
    ValueMeansExecuted
PROPERTIES
    AnswerIsFinal
    ContractSpec
    EveryCallReturns
