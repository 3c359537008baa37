SPECIFICATION FairSpec
CONSTANTS
    Addr = {10, 20, 200}
    AddrBits = 8
    Port = {10000, 10001}
    Localhost = 10
    Launches <- MCLaunches
    Schedule <- MCSchedule
    Proposals <- MCProposals
    MaxStep = 3
    MaxFailures = 1
    PromptExit = TRUE
INVARIANTS
    OneClusterPerVersion
    SameOperation
    NoSendToDeparted
    CrashTakesAll
    SameStep
PROPERTIES
    SurvivorsKeepRank
    TrainingEnds
