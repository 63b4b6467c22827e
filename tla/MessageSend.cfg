\* Two messages of any kind at the same time, two mishaps.
SPECIFICATION Spec
CONSTANTS
    s1 = s1
    s2 = s2
    Session = {s1, s2}
    Message = {m1, m2}
    World <- SomeWorlds
    Kind <- Ways
    Cap = 1
    MaxTries = 1
    MaxEvents = 2
INVARIANTS
    TypeOK
    SentOnce
    CountsArePaid
    PoolHonoured
PROPERTIES
    MetaIsLastResort
SYMMETRY MessageSymmetry
CHECK_DEADLOCK FALSE
