SPECIFICATION FairSpec
CONSTANTS
    Base = 2
    Width = 2
    Room = 3
    Sender <- MCSender
    Sends <- MCSends
    Dialler <- MCDialler
INVARIANTS
    FramesIntact
    NothingLost
PROPERTY ConnectionEnds
