SPECIFICATION Spec
CONSTANTS
    Kinds = {"navigate", "evaluate"}
    MaxDeferred = 1
    MaxCommands = 2
    MaxOf <- AnyNumber
    MaxDocs = 1
    MaxRequests = 1
PROPERTIES ToldBeforeTimeout
CHECK_DEADLOCK FALSE
