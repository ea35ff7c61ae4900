SPECIFICATION Spec
CONSTANTS
    t1 = t1
    t2 = t2
    Tools = {t1, t2}
    Busy = t1
    Calls = 2
    Cmds = 2
    MaxCalls <- MCMaxCalls
    MaxCmds <- MCMaxCmds
    MaxMenus = 1
    MaxDepth = 9
    Kinds <- MCKinds
    Long = {"ask"}
    Objects = {1, 2}
    Parent <- MCParent
    Secs = {1, 2}
    MaxFlashes = 3
INVARIANTS SessionExact 
PROPERTIES CallsReturn DeadToolsGo
CHECK_DEADLOCK FALSE
