SPECIFICATION FairSpec
CONSTANTS
    c1 = c1
    c2 = c2
    Conns = {c1, c2}
    Loads <- MCLoads
    IoThreads = {t1, t2}
    MaxFd = 2
    ReplyLen = 2
    TxCap = 1
    Listen = Listen
    None = None
INVARIANTS
    CommandsInOrder
    RepliesInOrder
    DescriptorOwned
PROPERTIES
    
    HangUpReleased
CHECK_DEADLOCK FALSE
