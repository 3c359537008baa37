SPECIFICATION FairSpec
CONSTANTS
    N = 3
    Strategies = {"star", "ring"}
    Rounds = 2
INVARIANTS
    TypeOK
    NoHandlerThrows
    NoDialToStopped
PROPERTIES
    EveryoneStops
