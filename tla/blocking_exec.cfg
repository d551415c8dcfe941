SPECIFICATION FairSpec
CONSTANTS
    Specs = {s1}
    Workers = {w1, w2}
    UI = UI
    NoSpec = NoSpec
    Backend = "exec"
    Minutes = {0, 1}
    MaxLeftover = 1
    KernelMayFail = TRUE
INVARIANTS
    TypeOK
    EveryBlockHasATimer
    RulesMatchEntries
    QuitLeavesNoRule
    EveryRuleIsListed
PROPERTIES
    RulesEventuallyLifted
CHECK_DEADLOCK FALSE
