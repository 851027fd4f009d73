SPECIFICATION Spec
CONSTANTS
    Kinds = {"navigate"}
    MaxDeferred = 1
    MaxCommands = 2
    MaxOf <- AnyNumber
    MaxDocs = 2
    MaxRequests = 1
INVARIANTS OwnDecision
CHECK_DEADLOCK FALSE
