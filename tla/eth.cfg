SPECIFICATION FairSpec
CONSTANTS
    NULL = NULL
    RXQ = RXQ
    TXQ = TXQ
    p1 = p1
    p2 = p2
    p3 = p3
    Pkts = {p1, p2, p3}
    RxNum = 3
    TxNum = 2
    MaxFrames = 3
INVARIANTS TypeOK RingsInStep HeldOnce
PROPERTIES CatchesUp
CHECK_DEADLOCK FALSE
