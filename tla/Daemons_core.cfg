SPECIFICATION DaemonsSpec
CONSTANTS
    Jobs = {1, 2, 3}
    DaemonJobs = {1, 2}
    Windows = {0, 1}
    Retries = {0, 1}
    Timeout = 2
    Delay = 0
    OutSize = 1
    InSize = 1
    MaxTargets = 3
    Faults = {"send", "crash"}
    Procs = {1, 2}
    MaxListeners = 1
    MaxConns = 2
    MaxTraps = 2
    Room = 1
    Attempts = 2
INVARIANTS AnswersKept TrapsInOrder
PROPERTIES ProbeDiscipline ProbesServed TrapsReceived
CHECK_DEADLOCK FALSE
