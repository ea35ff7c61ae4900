SPECIFICATION LiveSpec
CONSTANTS
    s1 = s1
    s2 = s2
    r1 = r1
    r2 = r2
    Sessions = {s1, s2}
    Requests = {r1, r2}
    Windows = {0, 1}
    Retries = {1}
    Commands = {"get", "walk", "wait", "configure", "destroy"}
    ScriptCommands = {"get"}
    Bindings = {"send", "recv"}
    MaxDepth = 3
    NoSession = NoSession
    NoRequest = NoRequest
CHECK_DEADLOCK FALSE
INVARIANT NoStall
PROPERTIES RequestsComplete WaitReturns

