CONSTANTS
    c1 = c1
    c2 = c2
    Conns = {c1, c2}
    Fields = {"paused", "perTrade", "daily", "minTrades"}
    Values = {0, 1, 2}
    Positive = {"perTrade", "daily"}
    Commands <- BadCaps
    MaxCommands = 3
    MaxDbErrors = 1
    MaxRestarts = 1
    MaxPauses = 1
SPECIFICATION Spec
INVARIANTS TypeOK OnlyOverlapLosesSettings OnlyPartialsGoUnaudited
PROPERTIES AutoStopSavesCurrent EveryCommandIsAnswered
CHECK_DEADLOCK FALSE
