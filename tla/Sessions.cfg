SPECIFICATION Spec
CONSTANTS
    MaxSessions = 2
    MaxConnections = 2
    NameA = NameA
    DiscoveryIQN = DiscoveryIQN
    IQNs = {NameA, DiscoveryIQN}
    Clients = {Main, Discovery}
    Main = Main
    Discovery = Discovery
    Workloop = Workloop
    CountModulus = 16
    AsyncEvents = {"logout"}
    MaxCreated = 2
    NoSession = NoSession
    None = None
INVARIANTS
    ActiveSessionsAreMounted
    NoUseAfterFree
    NamesStandForSessions
