CONSTANTS
    AckWait = 11
    Interval = 2
    Lag = 1
    TTL = 22
    MaxAge = 20
    Delay = 2
    MaxLost = 1
    Skew = 1
    Epoch = 1
    MaxTime = 26
    None = None
SPECIFICATION Spec
INVARIANTS TypeOK LeaseKept RecordedNotRerun
