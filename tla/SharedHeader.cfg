CONSTANTS
    Threads = {main, discovery}
    Jobs <- MCShort
    Preferences <- MCPreferences
    MaxRetryCount = 2
    Modulus = 1000
    InitialStatSNs = {0, 7}
    MaxCmdSN = 2
    None = None
SPECIFICATION Spec
INVARIANTS
    HeaderIsOwn
CHECK_DEADLOCK TRUE
