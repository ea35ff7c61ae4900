SPECIFICATION CallbacksSpec
CONSTANTS
    s1 = s1
    s2 = s2
    r1 = r1
    r2 = r2
    r3 = r3
    j1 = j1
    j2 = j2
    Sessions = {s1, s2}
    Requests = {r1, r2, r3}
    Jobs = {j1, j2}
    NoSession = NoSession
    NoRequest = NoRequest
    NoJob = NoJob
    Windows = {1, 2}
    Retries = {0, 1}
    Commands = {"get", "destroy", "configure", "wait"}
    ScriptCommands = {"get", "destroy", "update"}
    Bindings = {}
    MaxDepth = 2
    Intervals = {1, 2}
    Iterations = {2}
    ExitJobs = {}
    ErrorJobs = {j1, j2}
    Codes = {"ok", "error"}
    JobCommands = {"create", "destroy", "status", "interval", "iterations"}
    JobScriptCommands = {"create", "destroy", "rename", "schedule", "time", "update"}
    JobMaxDepth = 2
    rw = rw
    rc = rc
    None = None
SYMMETRY Symmetry
CHECK_DEADLOCK FALSE
INVARIANTS QueueDiscipline SessionFifo CompletedOnce NothingFreedUsed TimerCoversJobs JobsConsistent
