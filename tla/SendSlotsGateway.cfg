\* send_rate.py:54-56: one busy session does not exhaust the gateway's window.
\* No caps, no fault: two messages for one session are enough.
SPECIFICATION Spec
CONSTANTS
    s1 = s1
    s2 = s2
    Session = {s1, s2}
    Message = {m1, m2, m3}
    NoSession = NoSession
    Saver = {}
    Saves <- Capped
    SoftCap <- NoCap
    DailyLimit = 0
    RateMax <- OnePerWindow
    GatewayRate = 2
    Window = 1
    MaxTime = 0
    MaxTries = 2
    MaxFaults = 0
    MaxDays = 0
SYMMETRY Symmetry
CHECK_DEADLOCK FALSE
INVARIANTS
    GatewayFullOfSends
