CONSTANTS
    N = 3
    Workers = 3
    PoolSize = 2
    Slots = 2
    Sessions <- BothRuntimes
    Strategy = "star"
SPECIFICATION FairSpec
INVARIANT ResultAfterContributions
PROPERTY AllReducesReturn
