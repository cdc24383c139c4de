CONSTANTS
    Threads = {main}
    Jobs <- MCJobs
    Preferences <- MCPreferences
    MaxRetryCount = 2
    Modulus = 1000
    InitialStatSNs = {0, 7}
    MaxCmdSN = 2
    None = None
SPECIFICATION FairSpec
INVARIANTS
    TypeOK
    ActiveIsAgreed
    MutualIsKept
    NumbersAgree
    OutcomeIsReported
PROPERTIES
    EveryLoginEnds
CHECK_DEADLOCK TRUE
