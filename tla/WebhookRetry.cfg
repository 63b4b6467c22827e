\* webhook.py:87-90: the retry of a delivery whose failure was reported is
\* handled.  One delivery, attempted twice, nothing killed.
SPECIFICATION Spec
CONSTANTS
    d1 = d1
    d2 = d2
    a1 = a1
    a2 = a2
    m1 = m1
    o1 = o1
    Inbound = {d1}
    Ack = {}
    Message = {m1}
    Sent = {o1}
    About <- AboutAll
    AckStatus <- SentThenRead
    Keyless = {}
    MaxSends <- FirstTwice
    MaxFaults = 0
CHECK_DEADLOCK FALSE
INVARIANTS
    RetryIsHandled
