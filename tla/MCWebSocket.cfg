SPECIFICATION WsFairSpec
CHECK_DEADLOCK FALSE
CONSTANTS
    Streams <- MCStreams
    HeadLen <- MCHeadLen
    Hello = 1
    RecvBufLen = 4
INVARIANTS DecoderInStep
PROPERTIES FrameIsRead
