SPECIFICATION Spec
CONSTANTS
    Tuples = {t1, t2}
    Toolsets <- WorkingSs
    MaxIterations = 3
    MaxDuration = 3
    SleepBetween = 1
    PassTime = 1
SYMMETRY Symmetry
INVARIANTS
    ClearedWhenConverged
CHECK_DEADLOCK FALSE
