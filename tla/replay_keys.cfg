SPECIFICATION Spec
CONSTANTS
    DayTicks = 1
    Retention = 1
    MaxTime = 1
    MaxRecords = 2
    RangeBegin = 0
    RangeEnd = 1
    Incoming = Incoming
    Outgoing = Outgoing
    Contents <- MCContentsOfTwo
INVARIANTS
    FrontPageHasKeys
CHECK_DEADLOCK FALSE
