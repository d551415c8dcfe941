SPECIFICATION FairSpec
CONSTANTS
    Sessions <- MCSessions
    ListenPorts = {10, 11}
    Ports = {0, 10, 20}
    Words = {"w"}
    NoFilter = NoFilter
    GridHeight = 15
    ZoomHeight = 18
    TopConnectionsGroupCap = 2
INVARIANTS
    TypeOK CursorOnDrawnRow ViewsAgree
    PauseIsAccountedFor KeysReachFront
PROPERTIES
    PauseHoldsTheTable RequestedRefreshHappens LoadLevelIsSteady
CHECK_DEADLOCK FALSE
