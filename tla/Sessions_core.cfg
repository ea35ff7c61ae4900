SPECIFICATION Spec
CONSTANTS
    Types = {"responder", "listener"}
    Configs <- MCConfigs
    Aliased <- MCAliased
    Aliases = {"a"}
    TakenPorts = {2}
    MaxSessions = 2
    Walks <- MCWalks
    Instances = {11, 12, 13, 21, 23, 24, 31}
    Retries = 1
    WarpFactor = 2
    WarpLimit = 3
    MaxRequests = 4
    MaxNet = 2
    Base = 16
    BufferSize = 250
    MaxOid = 14
    MinMaxSize = 48
    UpTime = 300
    Messages <- MCMessages
    MessageCuts <- MCCuts
    Modulus = 8192
    EtherModulus = 4
    RpcNames = {1, 2, 3, 4}
    RpcHosts = {1, 2}
    SunrpcGetHostname <- MCCanonical
    Depth = 2
    MaxEtherOpens = 2
    ObjTexts <- MCObjTexts
    ObjValues <- MCObjValues
    ObjHosts <- MCObjHosts
    ObjAddresses <- MCObjAddresses
    Max32 = 255
    Max64 = 4095
    SmxRunIds = {1, 2}
    SmxReadable = {"file"}
    SmxScripts = {"file", "nofile"}
    SmxProfileNames = {"safe"}
    SmxTexts <- MCTexts
    SmxMaxStarts = 2
    SmxMaxDepth = 2
INVARIANTS SocketsConsistent WalkExact  ReportsExact FacesAgree 
CHECK_DEADLOCK FALSE
