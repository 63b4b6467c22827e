\* Two documents whose gateway names agree, one request beside the two jobs, two mishaps.
SPECIFICATION FairSpec
CONSTANTS
    Document = {d1, d2}
    Request = {r1}
    GatewayName <- SameName
    MaxId = 3
    MaxEvents = 2
INVARIANTS
    TypeOK
    OrphansExplained
PROPERTIES
    JobLeavesWord
    NeverStranded
CHECK_DEADLOCK FALSE
