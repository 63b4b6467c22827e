\* The session stays down; one request beside the two jobs.  A session that is not
\* on the gateway stays that way: no deadlock check.
SPECIFICATION FairSpec
CONSTANTS
    Request = {q1}
    GwStatus <- DownOnly
    MaxRestarts = 1
    MaxFlying = 1
    MaxEvents = 0
PROPERTIES
    DownEscalates
CHECK_DEADLOCK FALSE
