SPECIFICATION Spec
CONSTANTS
    BatchMax = 2
    MaxUpdates = 3
    MaxFaults = 2
INVARIANTS
    TypeOK
    RepeatsOnlyAfterGivingUp
    SuccessLasts
PROPERTIES
    ImplementsInbox
    EveryUpdateIsConfirmed
