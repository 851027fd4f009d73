\* One key; credentials come to the client at any moment.
SPECIFICATION Spec
CONSTANTS
    N = 2
    Keys = {1}
    Lifetimes <- MCLifetimes
    Sizes <- MCSizes
    MaxEntries = 1
    MaxBytes = 2
    MaxHops = 1
    MaxTime = 0
    JarChanges = TRUE
INVARIANT BearersBypass
CHECK_DEADLOCK FALSE
