\* A map-reduce job of two splits and one reduce task.  The reduce phase is
\* pulled up after the first map completes (replica_begin_percent 50), so
\* reduce minions report while maps still run; m1 and r1 share a host.
CONSTANTS
    MapTotal = 2
    ReduceTotal = 1
    MapWorkers = {m1, m2}
    ReduceWorkers = {r1}
    Killer = Killer
    m1 = m1
    m2 = m2
    r1 = r1
    n1 = n1
    n2 = n2
    NodeOf <- MCNodeOf
    AllowDup <- MCNoDup
    Capacity <- MCCapacity
    Retry <- MCRetry
    IgnoreBudget <- MCIgnoreBudget
    ReplicaNum = 1
    ReplicaBegin = 0
    ReplicaBeginPercent = 50
    LeftPercent = 120
    ParallelAttempts = 2
    MonitorBudget = 1
    MaxAllocs = 3
    MaxCrashes = 0
    UserKill = FALSE
    LossyRpc = FALSE
    StateRace = FALSE
    MaxRestarts = 0
    UpdateRequests = {}
    TaskCounters <- MCTaskCounters
    MaxCounters = 1

SPECIFICATION Spec
CHECK_DEADLOCK FALSE
INVARIANT TypeOK
INVARIANT ReduceCompletedAfterMaps
INVARIANT FailedCountWithinNodes
INVARIANT ReduceDeployedAfterMaps
