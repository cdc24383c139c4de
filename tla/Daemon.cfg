CONSTANTS
    Clients = {c1, c2}
    MaxCommands = 1
    Faults = {}
    None = None
SPECIFICATION FairSpec
INVARIANTS
    TypeOK
    RunLoopRuns
    LockHolderIsServed
    AnswersAreOwn
    SessionHasTarget
    DiscoveryIsLocked
PROPERTIES
    LoginsAreKept
    EveryCommandEnds
CHECK_DEADLOCK TRUE
