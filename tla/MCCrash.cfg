\* A map-only job of two splits, duplicates forbidden, whose minions may
\* crash once and report their breakpoint task Killed on restart.  Handlers,
\* minions and the monitor are scheduled fairly; symmetry is left out
\* because it is unsound for liveness.
CONSTANTS
    MapTotal = 2
    ReduceTotal = 0
    MapWorkers = {m1, m2}
    ReduceWorkers = {}
    Killer = Killer
    m1 = m1
    m2 = m2
    r1 = r1
    n1 = n1
    n2 = n2
    NodeOf <- MCOwnNode
    AllowDup <- MCNoDup
    Capacity <- MCCapacity
    Retry <- MCRetry
    IgnoreBudget <- MCIgnoreBudget
    ReplicaNum = 1
    ReplicaBegin = 0
    ReplicaBeginPercent = 0
    LeftPercent = 120
    ParallelAttempts = 2
    MonitorBudget = 2
    MaxAllocs = 3
    MaxCrashes = 1
    UserKill = FALSE
    LossyRpc = FALSE
    StateRace = FALSE
    MaxRestarts = 0
    UpdateRequests = {}
    TaskCounters <- MCTaskCounters
    MaxCounters = 1

SPECIFICATION FairSpec
CHECK_DEADLOCK FALSE
INVARIANT AllocatedHasAttempt
PROPERTY JobEventuallyEnds
