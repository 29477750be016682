SPECIFICATION Spec
CONSTANTS
    Markets = {m1, m2}
    Rates = {1, 2}
    Lot = 2
    WarningPct = 5
    CriticalPct = 10
    AutoCorrects = {FALSE}
    PauseOnCriticals = {TRUE}
    MaxOrders = 2
    MaxUpsets = 0
    MaxResumes = 0
    m1 = m1
    m2 = m2
INVARIANTS
    NoFalseAlarm
