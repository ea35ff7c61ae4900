SPECIFICATION AgentSpec
CONSTANTS
    MibNodes <- MCMibNodes
    Labels <- MCLabels
    Vars = {"a", "b"}
    MaxCreates = 4
    RSessions <- MCSessions
    Packets <- MCPackets
    Served = {1, 3}
    CacheSize = 2
    CacheTime = 0
    MaxPackets = 4
    MaxDepth = 2
    MaxClock = 2
    rw = rw
    rc = rc
    ro = ro
    Insts = {rw, rc, ro}
    Access <- MCAccess
    None = None
    Empty = 1
    Values = {1, 2}
    MaxVarbinds = 3
    Codes = {"ok", "break", "error"}
    UnsetIn = {}
    Level = "instance"
INVARIANTS ViewExact CachedFresh OwnReply RollbackOrder
PROPERTIES AllOrNothing
CHECK_DEADLOCK FALSE
