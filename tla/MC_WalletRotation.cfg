SPECIFICATION Spec
CONSTANTS
    Wallets = {1, 2, 3}
    ScoreTables <- Rankings
    MaxActiveWallets = 1
    ConfidenceFloor = 2
    RankDelta = 1
    Cooldown = 2
    Conns = {c1, c2}
    MaxSuggestions = 2
    MaxCommands = 3
    MaxTime = 2
    MaxDbErrors = 1
    MaxRestarts = 1
INVARIANTS
    TypeOK
    DecidedOnce
    OnlyOverlapSplitsWallets
    OnlyOverlapExceedsLimit
PROPERTIES
    OnePendingAtATime
    SuggestionsAreSpaced
SYMMETRY Symmetry
CHECK_DEADLOCK FALSE
