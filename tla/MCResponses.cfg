SPECIFICATION RSpec
CONSTANTS
    Names <- MCAllNames
    Answers <- MCAnswers
INVARIANTS
    ConsistentErrorsKeepTheirStatus
    DeclaredErrorsAreAPIErrors
CHECK_DEADLOCK FALSE
