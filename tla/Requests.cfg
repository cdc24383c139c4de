CONSTANTS
    MaxSessions = 2
    MaxConnections = 2
    Main = Main
    Discovery = Discovery
    Target = Target
    DiscoveryIQN = DiscoveryIQN
    IQNs = {Target, DiscoveryIQN}
    Portals = {p1, p2}
    MaxCreated = 2
    MaxLost = 1
    None = None
SPECIFICATION Spec
INVARIANTS
    ReportIsOfTarget
    ActiveIsSetUp
    
    SleepSavesTarget
    LockIsReleased
SYMMETRY Symmetry
CHECK_DEADLOCK TRUE
