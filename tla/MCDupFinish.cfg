\* A map-only job of two splits whose minions resend a FinishMap the master still runs.
CONSTANTS
    MapTotal = 2
    ReduceTotal = 0
    MapWorkers = {m1, m2}
    ReduceWorkers = {}
    Killer = Killer
    m1 = m1
    m2 = m2
    r1 = r1
    n1 = n1
    n2 = n2
    NodeOf <- MCOwnNode
    AllowDup <- MCAllowDup
    Capacity <- MCCapacity
    Retry <- MCRetry
    IgnoreBudget <- MCIgnoreBudget
    ReplicaNum = 1
    ReplicaBegin = 0
    ReplicaBeginPercent = 0
    LeftPercent = 120
    ParallelAttempts = 2
    MonitorBudget = 2
    MaxAllocs = 3
    MaxCrashes = 0
    UserKill = FALSE
    LossyRpc = TRUE
    StateRace = FALSE
    MaxRestarts = 0
    UpdateRequests = {}
    TaskCounters <- MCTaskCounters
    MaxCounters = 1

SPECIFICATION Spec
SYMMETRY MCSymmetry
CHECK_DEADLOCK FALSE
INVARIANT DoneIsRecorded
