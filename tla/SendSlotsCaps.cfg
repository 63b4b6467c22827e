\* Three messages race for two sessions, one capped, under a gateway-wide limit
\* of two a day; rate windows of one message per session and one time unit,
\* a midnight, a killed process or a second release, and one process that saves
\* the capped session as a document.
SPECIFICATION Spec
CONSTANTS
    s1 = s1
    s2 = s2
    Session = {s1, s2}
    Message = {m1, m2, m3}
    NoSession = NoSession
    Saver = {d1}
    Saves <- Capped
    SoftCap <- CapOnFirst
    DailyLimit = 2
    RateMax <- OnePerWindow
    GatewayRate = 2
    Window = 1
    MaxTime = 1
    MaxTries = 1
    MaxFaults = 1
    MaxDays = 1
SYMMETRY Symmetry
CHECK_DEADLOCK FALSE
INVARIANTS
    TypeOK
    CapRespected
    DailyLimitRespected
    NoSlotLeaks
    RateRespected
