\* Four frames of the kinds that tell the handlers apart, streams of one frame,
\* a pipe of one chunk, a peer that reads.
SPECIFICATION PolitePeer
CONSTANTS
    Frames = {"hello", "cancel", "exec", "timedexec", "oversize"}
    NetRoom = 1
    PipeRoom = 1
    MaxSends = 4
INVARIANTS NothingUnanswered
PROPERTIES Contract ClientGoneStops DeadlineStops
CHECK_DEADLOCK FALSE
