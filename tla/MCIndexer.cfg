SPECIFICATION ServicesSpec
CONSTANTS
    MaxLedger = 6
    MaxTxs = 3
    MaxFaults = 2
    Confirmed = 0
    ScanWindow = 2
    PageLimit = 5
    Retention = 9
    WalkBackSpan = 9
    MaxRescan = 2
    SyncLagLimit = 3
    Providers <- MCProviders
    Clients = {c1, c2}
    Buffer = 2
    MaxStored = 3
    MaxBreaks = 2
    Horizon = 60
    THRESHOLD = 10
    EXTEND_TO = 25
    MinTtl = 28
    Interval = 4
    Slack = 1
    MaxFailed = 1
    Owners = {o1, o2}
    Versions = {1, 2, 3}
    Values = {a, b}
    MaxCalls = 3
CHECK_DEADLOCK FALSE
INVARIANTS
    TablesFollow
    ClaimsHold
    WakePending
    RentSafe
    RegistryInv
PROPERTIES
    ServicesProgress
