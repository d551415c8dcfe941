SPECIFICATION Spec
CONSTANTS
    Specs = {s1, s2}
    Workers = {w1, w2}
    UI = UI
    NoSpec = NoSpec
    Backend = "nft"
    Minutes = {1}
    MaxLeftover = 1
    KernelMayFail = TRUE
SYMMETRY Symmetry
INVARIANTS
    RemovalIsComplete
CHECK_DEADLOCK FALSE
