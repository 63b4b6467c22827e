\* Two messages, queued ones included, and the campaign's choice of numbers.
SPECIFICATION Spec
CONSTANTS
    s1 = s1
    s2 = s2
    Session = {s1, s2}
    Message = {m1, m2}
    World <- SomeWorlds
    Kind <- Ways
    Cap = 1
    MaxTries = 1
    MaxEvents = 2
INVARIANTS
    PoolHonouredInQueue
SYMMETRY MessageSymmetry
CHECK_DEADLOCK FALSE
