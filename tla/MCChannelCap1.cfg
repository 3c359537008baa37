SPECIFICATION FairSpec
CONSTANTS
    g1 = g1
    g2 = g2
    o1 = o1
    p1 = p1
    p2 = p2
    p3 = p3
    Getter <- MCGetter
    Poller <- MCPoller
    Putter <- MCPutter
    Calls <- MCCalls
    Cap = 1
INVARIANTS
    TypeOK
    NoLostWakeup
PROPERTIES
    AllCallsReturn
