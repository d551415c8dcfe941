SPECIFICATION Spec
CONSTANTS
    Pids = {p1, p2}
    Cmds = {c1}
    Dirs = {d1}
    PidFiles = {f1}
    NoPid = NoPid
    NoCmd = NoCmd
    NoFile = NoFile
    NoDir = NoDir
SYMMETRY Symmetry
PROPERTIES
    StartNoticesDeadChild
