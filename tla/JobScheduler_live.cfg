SPECIFICATION JobFairSpec
CONSTANTS
    j1 = j1
    j2 = j2
    Jobs = {j1, j2}
    Intervals = {1, 2}
    Iterations = {0, 1}
    ExitJobs = {j1}
    ErrorJobs = {}
    Codes = {"ok", "error"}
    JobCommands = {"create", "status", "wait", "waitall", "schedule", "rename", "time",
                   "interval", "iterations"}
    JobScriptCommands = {"create", "destroy"}
    JobMaxDepth = 2
    NoJob = NoJob
CHECK_DEADLOCK FALSE
PROPERTIES NotEarly JobsServed JobWaitReturns
