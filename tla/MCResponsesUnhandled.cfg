SPECIFICATION RSpec
CONSTANTS
    Names <- MCDuplicateStatus
    Answers <- MCAnswers
INVARIANT StatusCodeIsHTTPStatus
CHECK_DEADLOCK FALSE
