SPECIFICATION FairSpec
CONSTANTS
    N = 3
    Thread = {"s"}
    Program <- Repeated
    Strategy = "star"
    Hash <- MCHash
    SockCap = 0
INVARIANTS
    TypeOK
    BuffersLent
    MailboxHasRoom
    NoResidue
PROPERTIES
    Refines
    AllCallsReturn
