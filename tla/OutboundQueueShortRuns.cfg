\* Two schedulers whose runs always end before the lock expires.
SPECIFICATION Spec
CONSTANTS
    Row = {r1, r2}
    Worker = {w1, w2}
    NoRow = NoRow
    Backoff <- ShortBackoff
    MaxAge = 1
    StuckAfter = 1
    LockTTL = 2
    BatchSize = 1
    MaxFlight = 1
    MaxRun = 1
    MaxTime = 4
    LastEnqueue = 1
    LastFault = 1
    MaxFaults = 1
SYMMETRY Symmetry
INVARIANTS
    NoOverlap
    LocalAttemptsExact
PROPERTIES
    BackoffRespected
    SentIsDurable
