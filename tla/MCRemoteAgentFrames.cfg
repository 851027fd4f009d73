\* Every request, two frames are enough: hello and exec.
SPECIFICATION Spec
CONSTANTS
    Frames <- AllRequests
    NetRoom = 2
    PipeRoom = 1
    MaxSends = 2
INVARIANTS FramesWhole
CHECK_DEADLOCK FALSE
