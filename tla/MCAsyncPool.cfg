CONSTANTS
    N = 2
    Workers = 2
    PoolSize = 2
    Slots = 2
    Sessions <- AsyncTwo
    Strategy = "star"
SPECIFICATION FairSpec
PROPERTY AllReducesReturn
CHECK_DEADLOCK FALSE
