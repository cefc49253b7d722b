\* The map-reduce job of MCMapReduce.cfg with replica_begin_percent 100:
\* reduce_begin_ is 0, so no count of Done maps equals it.
CONSTANTS
    MapTotal = 2
    ReduceTotal = 1
    MapWorkers = {m1, m2}
    ReduceWorkers = {r1}
    Killer = Killer
    m1 = m1
    m2 = m2
    r1 = r1
    n1 = n1
    n2 = n2
    NodeOf <- MCNodeOf
    AllowDup <- MCNoDup
    Capacity <- MCCapacity
    Retry <- MCRetry
    IgnoreBudget <- MCIgnoreBudget
    ReplicaNum = 1
    ReplicaBegin = 0
    ReplicaBeginPercent = 100
    LeftPercent = 120
    ParallelAttempts = 2
    MonitorBudget = 1
    MaxAllocs = 3
    MaxCrashes = 0
    UserKill = FALSE
    LossyRpc = FALSE
    StateRace = FALSE
    MaxRestarts = 0
    UpdateRequests = {}
    TaskCounters <- MCTaskCounters
    MaxCounters = 1

SPECIFICATION Spec
CHECK_DEADLOCK FALSE
INVARIANT ReduceDeployedAfterMaps
