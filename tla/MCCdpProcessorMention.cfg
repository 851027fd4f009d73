SPECIFICATION Spec
CONSTANTS
    Kinds = {"navigate", "mention"}
    MaxDeferred = 1
    MaxCommands = 2
    MaxOf <- AnyNumber
    MaxDocs = 1
    MaxRequests = 1
INVARIANTS EveryCommandReplied
CHECK_DEADLOCK FALSE
