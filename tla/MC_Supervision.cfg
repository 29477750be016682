SPECIFICATION Spec
CONSTANTS
    EngineBurst = 4
    OtherBurst = 3
    HasSqlite3 = FALSE
    MaxFaults = 3
INVARIANTS
    TypeOK
PROPERTIES
    HealthyEngineIsLeftAlone
    EngineServesAgain
CHECK_DEADLOCK FALSE
