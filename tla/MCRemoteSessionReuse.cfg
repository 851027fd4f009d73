\* A caller that goes on with the session after an exec it cancelled.
SPECIFICATION SSpec
CONSTANTS
    Frames <- ClientRequests
    NetRoom = 1
    PipeRoom = 1
    MaxSends = 6
    ReuseAfterCancel = TRUE
INVARIANTS OwnAnswer
CHECK_DEADLOCK FALSE
