\* The peer stays connected and may stop reading.
SPECIFICATION StallingPeer
CONSTANTS
    Frames <- ExecRequests
    NetRoom = 1
    PipeRoom = 1
    MaxSends = 2
PROPERTIES DeadlineStops
CHECK_DEADLOCK FALSE
