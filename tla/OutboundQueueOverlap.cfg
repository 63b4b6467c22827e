\* Two schedulers, one row, runs that outlive the lock: everything the queue
\* promises without relying on the lock, liveness included.
SPECIFICATION FairSpec
CONSTANTS
    Row = {r1}
    Worker = {w1, w2}
    NoRow = NoRow
    Backoff <- ShortBackoff
    MaxAge = 1
    StuckAfter = 1
    LockTTL = 1
    BatchSize = 1
    MaxFlight = 1
    MaxRun = 1
    MaxTime = 4
    LastEnqueue = 0
    LastFault = 2
    MaxFaults = 1
INVARIANTS
    TypeOK
    ClaimExclusive
    DeliveredOnce
    GivenUpAfterLastAttempt
    DeadLetterIsFinal
PROPERTIES
    SettledStays
    EveryRowSettles
    ImplementsAtLeastOnce
