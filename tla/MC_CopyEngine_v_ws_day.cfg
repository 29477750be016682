CONSTANTS
    f1 = f1
    f2 = f2
    f3 = f3
    w1 = w1
    w2 = w2
    m1 = m1
    m2 = m2
    PriceScale = 1000
    SourceEquity = 10
    Fills = {f1, f3}
    FillOf <- BuySell
    Wallets = {w1, w2}
    Markets = {m1}
    UseWebsocket = TRUE
    ExecutionApis = {FALSE}
    AllowLiveSimulation = FALSE
    PauseOnCritical = FALSE
    Corrections <- NoNew
    InitialSettings <- Patient
    NewCaps <- NoNew
    NewModes <- NoNew
    NewProfiles <- NoNew
    NewAutoStops <- NoNew
    NewMultipliers = {}
    NewEquities = {}
    UserFillSizes = {}
    Improvements = {0}
    MaxDedupe = 10
    LookbackLimit = 2
    MaxParses = 0
    MaxExposure = 0
    MaxDay = 1
    MaxCommands = 0
    MaxDbErrors = 0
    MaxRestarts = 0
SPECIFICATION TickingSpec
PROPERTIES DayRollsOver
