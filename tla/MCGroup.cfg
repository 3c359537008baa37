SPECIFICATION FairSpec
CONSTANTS
    N = 2
    Thread = {"s", "t"}
    Program <- GroupedRounds
    Strategy = "star"
    Hash <- MCHash
    SockCap = 1
INVARIANTS
    BuffersLent
PROPERTIES
    Refines
    AllCallsReturn
