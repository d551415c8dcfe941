SPECIFICATION FairSpec
CONSTANTS
    DayTicks = 1
    Retention = 1
    MaxTime = 3
    MaxRecords = 3
    RangeBegin = 0
    RangeEnd = 2
    Incoming = Incoming
    Outgoing = Outgoing
    Contents <- MCContents
INVARIANTS
    TypeOK
    HeaderNamesRecord
PROPERTIES
    StepsGoOneWay
    JumpHitsTarget
    TailFollows
CHECK_DEADLOCK FALSE
