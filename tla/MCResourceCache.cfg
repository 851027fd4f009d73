SPECIFICATION Spec
CONSTANTS
    N = 3
    Keys = {1, 2, 3}
    Lifetimes <- MCLifetimes
    Sizes <- MCSizes
    MaxEntries = 2
    MaxBytes = 2
    MaxHops = 1
    MaxTime = 1
    JarChanges = FALSE
INVARIANTS OneLeader WithinLimits NeverStale InFlightExact
PROPERTY FollowersGoOn
CHECK_DEADLOCK FALSE
