SPECIFICATION RSpec
CONSTANTS
    Names <- MCComplete
    Answers <- MCContradictoryAnswers
INVARIANT StatusCodeIsHTTPStatus
CHECK_DEADLOCK FALSE
