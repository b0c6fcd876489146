SPECIFICATION QueueFairSpec
CONSTANTS
    j1 = j1  j2 = j2  l1 = l1  l2 = l2  n1 = n1
    NoTaskId = NoTaskId
    Jobs <- MCJobs
    Leases <- MCLeases
    Owner <- MCOwner
    HistoryCap = 1
PROPERTIES
    ClearedStaysCleared
    ImplementsTurn
    EverySubmittedEnds
    EveryAcquireReturns
CHECK_DEADLOCK FALSE
