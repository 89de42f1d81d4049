SPECIFICATION NetFairSpec
CHECK_DEADLOCK FALSE
CONSTANTS
    MaxConn = 2
    MaxRecv <- MCMaxRecv
    ReadLen = 2
    RecvBufLen = 2
    SendLen = 1
    MaxSend <- MCMaxSend
    MayExit = TRUE
INVARIANTS SlotOfOneUser NoLostReader SentInOrder
PROPERTIES SlotReturns
