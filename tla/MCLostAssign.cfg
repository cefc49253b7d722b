\* One split, two minions, lost answers: an AssignMap answer lost outside
\* the end game leaves its task handed out to nobody.
CONSTANTS
    MapTotal = 1
    ReduceTotal = 0
    MapWorkers = {m1, m2}
    ReduceWorkers = {}
    Killer = Killer
    m1 = m1
    m2 = m2
    r1 = r1
    n1 = n1
    n2 = n2
    NodeOf <- MCOwnNode
    AllowDup <- MCNoDup
    Capacity <- MCCapacity
    Retry <- MCRetry
    IgnoreBudget <- MCIgnoreBudget
    ReplicaNum = 1
    ReplicaBegin = 0
    ReplicaBeginPercent = 0
    LeftPercent = 120
    ParallelAttempts = 2
    MonitorBudget = 2
    MaxAllocs = 3
    MaxCrashes = 0
    UserKill = FALSE
    LossyRpc = TRUE
    StateRace = FALSE
    MaxRestarts = 0
    UpdateRequests = {}
    TaskCounters <- MCTaskCounters
    MaxCounters = 1

SPECIFICATION FairSpec
CHECK_DEADLOCK FALSE
PROPERTY JobEventuallyEnds
