SPECIFICATION Spec
CONSTANTS
    Worlds <- MCWorlds
    LocalAddrs = {1}
    ListenPorts = {80}
    MaxDelta = 2
    TopLimit = 2
    Bursts = {1, 3}
    MaxCaptures = 3
INVARIANTS
    TypeOK NothingInvented LivingTrafficIsExact OneRowPerConnection RecordAccountsForRows
CHECK_DEADLOCK FALSE
