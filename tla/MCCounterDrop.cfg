\* Three names, a cap of one, three calls: a report for a name already
\* counted arrives once the cap has been passed.
CONSTANTS
    k1 = k1
    k2 = k2
    k3 = k3
    MaxCountersPerJob = 1
    Reports <- MCReports
    MaxCalls = 3

SPECIFICATION Spec
CHECK_DEADLOCK FALSE
INVARIANT KnownNamesKeepCounting
