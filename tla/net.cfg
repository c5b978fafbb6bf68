SPECIFICATION FairSpec
CONSTANTS
    NULL = NULL
    Blank = Blank
    Padding = 2
    p1 = p1
    p2 = p2
    Pkts = {p1, p2}
    a = a
    b = b
    us = us
    macA = macA
    macA2 = macA2
    OurMac = OurMac
    Bcast = Bcast
    OurIps <- MCOurIps
    Reachable = {a}
    Frames <- MCFrames
CHECK_DEADLOCK FALSE
INVARIANTS TypeOK OneHolder SentRight LostWhere
PROPERTIES CacheKeeps QueuesDrain
