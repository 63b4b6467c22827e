\* Two requests beside the two jobs, one event.  A session that is not, or no
\* longer, on the gateway is left alone by everybody once the event is spent:
\* no deadlock check.
SPECIFICATION PolledSpec
CONSTANTS
    Request = {q1, q2}
    GwStatus <- UpAndDown
    MaxRestarts = 1
    MaxFlying = 1
    MaxEvents = 1
CHECK_DEADLOCK FALSE
INVARIANTS
    TypeOK
PROPERTIES
    FlagKeptWithStatus
    JobsKeepCounts
    Settles
