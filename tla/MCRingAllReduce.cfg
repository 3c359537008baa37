SPECIFICATION Spec
CONSTANTS
    N = 3
    Thread = {"s"}
    Program <- OneAllReduce
    Strategy = "ring"
    Hash <- MCHash
    SockCap = 0
INVARIANTS
    AllReduceReturnsSum
