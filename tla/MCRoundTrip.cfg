SPECIFICATION RTSpec
CONSTANTS
    Names <- MCNames
    Lists <- MCLists
    Settings <- MCSettings
    Verdicts = {"accept", "reject", "skip"}
    Conducts <- MCConducts
INVARIANTS
    OwnHandlerRuns
    EmptyIdentifiersAreRefused
    LabelsNameTheRequest
    AnswersKeepTheirType
    ValuesComeFromHandlers
    ErrorsKeepTheServersStatus
CHECK_DEADLOCK FALSE
