SPECIFICATION RentSpec
CONSTANTS
    Horizon = 40
    THRESHOLD = 10
    EXTEND_TO = 25
    MinTtl = 7
    Interval = 6
    Slack = 1
    MaxFailed = 0
CHECK_DEADLOCK FALSE
INVARIANT
    NeverArchives
