SPECIFICATION HSpec
CONSTANTS
    rPatch = rPatch
    rMe = rMe
    rDelete = rDelete
    Requests <- MCRequests
    Handles <- MCHandles
    Statuses <- MCStatuses
INVARIANTS
    HInv
    MetersCount
    CountedAsSent
CHECK_DEADLOCK FALSE
