SPECIFICATION Spec
CONSTANTS
    Wallets = {w1}
    Keys = {t1, t2}
    TradeOf <- Sides
    Batches <- Messages
    MaxSize = 1
    EventCap = 1
    CommandCap = 5
    MaxFailures = 2
    MaxSends = 2
    MaxRefusals = 1
    MaxBreaks = 1
    MaxCloses = 1
    MaxTracking = 1
    w1 = w1
    stranger = stranger
    t1 = t1
    t2 = t2
INVARIANTS
    TypeOK
    SubscriptionsSurviveReconnect
    RemembersLastMaxSize
PROPERTIES
    NothingReceivedIsLost
    TrackedWalletsGetSubscribed
