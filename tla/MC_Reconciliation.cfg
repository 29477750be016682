SPECIFICATION Spec
CONSTANTS
    Markets = {m1, m2}
    Rates = {1, 2}
    Lot = 2
    WarningPct = 5
    CriticalPct = 10
    AutoCorrects = {TRUE, FALSE}
    PauseOnCriticals = {TRUE, FALSE}
    MaxOrders = 2
    MaxUpsets = 1
    MaxResumes = 1
    m1 = m1
    m2 = m2
INVARIANTS
    TypeOK
    ExposureIsWorth
PROPERTIES
    UnknownPositionIsNoticed
