SPECIFICATION FairSpec
CONSTANTS
    j1 = j1
    j2 = j2
    j3 = j3
    Jobs = {j1, j2, j3}
    Windows = {1}
    Retries = {0}
    Timeout = 1
    Delay = 0
    OutSize = 2
    Faults = {"size"}
CHECK_DEADLOCK FALSE
PROPERTY Answered
