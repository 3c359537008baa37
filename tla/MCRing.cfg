SPECIFICATION FairSpec
CONSTANTS
    N = 3
    Thread = {"s", "t"}
    Program <- GroupedInPlace
    Strategy = "ring"
    Hash <- MCHash
    SockCap = 0
INVARIANTS
    BuffersLent
PROPERTIES
    Refines
    AllCallsReturn
