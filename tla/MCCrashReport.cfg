\* MCCrash with a fourth hand-out and safety only: a minion whose Failed report
\* is still being handled crashes, restarts and reports the same attempt
\* Killed; both reports pass the Running check and return the task twice.
CONSTANTS
    MapTotal = 2
    ReduceTotal = 0
    MapWorkers = {m1, m2}
    ReduceWorkers = {}
    Killer = Killer
    m1 = m1
    m2 = m2
    r1 = r1
    n1 = n1
    n2 = n2
    NodeOf <- MCOwnNode
    AllowDup <- MCNoDup
    Capacity <- MCCapacity
    Retry <- MCRetry
    IgnoreBudget <- MCIgnoreBudget
    ReplicaNum = 1
    ReplicaBegin = 0
    ReplicaBeginPercent = 0
    LeftPercent = 120
    ParallelAttempts = 2
    MonitorBudget = 2
    MaxAllocs = 4
    MaxCrashes = 1
    UserKill = FALSE
    LossyRpc = FALSE
    StateRace = FALSE
    MaxRestarts = 0
    UpdateRequests = {}
    TaskCounters <- MCTaskCounters
    MaxCounters = 1

SPECIFICATION Spec
CHECK_DEADLOCK FALSE
INVARIANT SingleRunningAttempt
