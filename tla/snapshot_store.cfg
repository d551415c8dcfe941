SPECIFICATION Spec
CONSTANTS
    DayTicks = 2
    Retention = 1
    PruneRetention = 1
    MaxTime = 4
    MaxRecords = 3
    Daemon = Daemon
    Prune = Prune
    NoDay = NoDay
INVARIANTS
    TypeOK
    LossIsBounded
    IndexAgreesWithStore
PROPERTIES
    LoadIsComplete
    ImplementsLog
