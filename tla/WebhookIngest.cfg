\* Two deliveries of one message, the second without an idempotency key, and two
\* acks of another; one of the four delivered twice, one killed request.  Every
\* attempt comes to an end: no deadlock check.
SPECIFICATION Spec
CONSTANTS
    d1 = d1
    d2 = d2
    a1 = a1
    a2 = a2
    m1 = m1
    o1 = o1
    Inbound = {d1, d2}
    Ack = {a1, a2}
    Message = {m1}
    Sent = {o1}
    About <- AboutAll
    AckStatus <- SentThenRead
    Keyless = {d2}
    MaxSends <- FirstTwice
    MaxFaults = 1
CHECK_DEADLOCK FALSE
INVARIANTS
    TypeOK
    StoredOnce
    StoredIsClaimed
    LossIsExplained
PROPERTY
    OnlyStaleAcksGoBack
