\* A handshake and calls with room for their cancels, streams of one frame.
SPECIFICATION SFairSpec
CONSTANTS
    Frames = {"hello", "cancel", "status", "exec", "timedexec"}
    NetRoom = 1
    PipeRoom = 1
    MaxSends = 5
    ReuseAfterCancel = FALSE
INVARIANTS OwnAnswer
PROPERTIES CallsReturn CancelConfirmed
CHECK_DEADLOCK FALSE
