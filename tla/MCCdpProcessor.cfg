SPECIFICATION FairSpec
CONSTANTS
    Kinds = {"navigate", "evaluate", "mention", "other", "detach"}
    MaxDeferred = 2
    MaxCommands = 4
    MaxOf <- FewOfEach
    MaxDocs = 2
    MaxRequests = 1
INVARIANTS RepliedOnce InOrder NothingLost
PROPERTIES RequestsSettle
CHECK_DEADLOCK FALSE
