SPECIFICATION RSpec
CONSTANTS
    Names <- MCAllNames
    Answers <- MCRateLimited
INVARIANT NonSuccessIsAPIError
CHECK_DEADLOCK FALSE
