\* A map-only job of two splits, duplicates allowed, that a user may kill
\* at any point, also while the job ends on its own, and whose map capacity
\* a user may raise to 7 (one minion can then be dismissed).
CONSTANTS
    MapTotal = 2
    ReduceTotal = 0
    MapWorkers = {m1, m2}
    ReduceWorkers = {}
    Killer = Killer
    m1 = m1
    m2 = m2
    r1 = r1
    n1 = n1
    n2 = n2
    NodeOf <- MCOwnNode
    AllowDup <- MCAllowDup
    Capacity <- MCCapacity
    Retry <- MCRetry
    IgnoreBudget <- MCIgnoreBudget
    ReplicaNum = 1
    ReplicaBegin = 0
    ReplicaBeginPercent = 0
    LeftPercent = 120
    ParallelAttempts = 2
    MonitorBudget = 2
    MaxAllocs = 4
    MaxCrashes = 0
    UserKill = TRUE
    LossyRpc = FALSE
    StateRace = TRUE
    MaxRestarts = 0
    UpdateRequests <- MCUpdateMapCapacity
    TaskCounters <- MCTaskCounters
    MaxCounters = 1

SPECIFICATION Spec
SYMMETRY MCSymmetry
CHECK_DEADLOCK FALSE
INVARIANT AtMostOneCompleted
