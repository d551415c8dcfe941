SPECIFICATION Spec
CONSTANTS
    Specs = {s1}
    Workers = {w1, w2}
    UI = UI
    NoSpec = NoSpec
    Backend = "exec"
    Minutes = {1, 2}
    MaxLeftover = 0
    KernelMayFail = FALSE
SYMMETRY Symmetry
INVARIANTS
    UnblockAtExpiry
CHECK_DEADLOCK FALSE
