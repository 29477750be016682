SPECIFICATION Spec
CONSTANTS
    EngineBurst = 4
    OtherBurst = 3
    HasSqlite3 = TRUE
    MaxFaults = 3
PROPERTIES
    HealthyEngineIsLeftAlone
CHECK_DEADLOCK FALSE
