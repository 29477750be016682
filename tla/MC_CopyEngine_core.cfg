CONSTANTS
    f1 = f1
    f2 = f2
    f3 = f3
    w1 = w1
    w2 = w2
    m1 = m1
    m2 = m2
    PriceScale = 1000
    SourceEquity = 10
    Fills = {f1, f2, f3}
    FillOf <- Trio
    Wallets = {w1, w2}
    Markets = {m1, m2}
    UseWebsocket = TRUE
    ExecutionApis = {TRUE, FALSE}
    AllowLiveSimulation = FALSE
    PauseOnCritical = FALSE
    Corrections <- NoNew
    InitialSettings <- Defaults
    NewCaps <- TightCaps
    NewModes = {"live"}
    NewProfiles = {"aggressive"}
    NewAutoStops <- AutoStops
    NewMultipliers = {200}
    NewEquities = {5}
    UserFillSizes = {2}
    Improvements = {12}
    MaxDedupe = 10
    LookbackLimit = 2
    MaxParses = 0
    MaxExposure = 4
    MaxDay = 0
    MaxCommands = 1
    MaxDbErrors = 1
    MaxRestarts = 0
SPECIFICATION Spec
INVARIANTS TypeOK SnapshotStaysCurrent InFlightWithinCaps AtMostOneOrderAfterPause
PROPERTIES EveryFillLeavesATrace ImplementsLedger StoppedWalletsTradeNoMore
