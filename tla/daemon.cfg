SPECIFICATION Spec
CONSTANTS
    Pids = {p1, p2}
    Cmds = {c1, c2}
    Dirs = {d1, d2}
    PidFiles = {f1, f2}
    NoPid = NoPid
    NoCmd = NoCmd
    NoFile = NoFile
    NoDir = NoDir
SYMMETRY Symmetry
INVARIANTS
    TypeOK
    OneWriterPerDir
    ServingIsFound
PROPERTIES
    StopLeavesNoDaemon
