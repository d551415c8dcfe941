SPECIFICATION FairSpec
CONSTANTS
    Tuples = {t1, t2}
    Toolsets <- BothTools
    MaxIterations = 3
    MaxDuration = 3
    SleepBetween = 1
    PassTime = 1
INVARIANTS
    TypeOK
    NeverUnderstates
    ClaimIsTrue
    SweepIsBounded
PROPERTIES
    SweepEnds
    BlockedSweepConverges
CHECK_DEADLOCK FALSE
