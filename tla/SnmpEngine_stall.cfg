SPECIFICATION FairSpec
CONSTANTS
    s1 = s1
    s2 = s2
    r1 = r1
    r2 = r2
    r3 = r3
    Sessions = {s1, s2}
    Requests = {r1, r2}
    Windows = {1}
    Retries = {0}
    Commands = {"get", "destroy"}
    ScriptCommands = {}
    Bindings = {}
    MaxDepth = 1
    NoSession = NoSession
    NoRequest = NoRequest
CHECK_DEADLOCK FALSE
PROPERTY RequestsComplete
