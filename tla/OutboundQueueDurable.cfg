\* Is a committed Sent durable when runs overlap?
SPECIFICATION Spec
CONSTANTS
    Row = {r1}
    Worker = {w1, w2}
    NoRow = NoRow
    Backoff <- ShortBackoff
    MaxAge = 1
    StuckAfter = 1
    LockTTL = 1
    BatchSize = 1
    MaxFlight = 1
    MaxRun = 9
    MaxTime = 4
    LastEnqueue = 0
    LastFault = 3
    MaxFaults = 1
PROPERTIES
    SentIsDurable
