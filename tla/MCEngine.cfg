CONSTANTS
    Ifaces = {"lan", "iot"}
    AddrV4 <- MCAddrV4
    AddrV6 <- MCAddrV6
    NoAddr = NoAddr
    Hostname = "router"
    ServiceConfigs <- MCServices
    TTL_HOST = 2
    TTL_SERVICE = 8
    SECOND = 4
    CACHE_MAX_ENTRIES = 4
    CACHE_MAX_TTL = 0
    NoIface = NoIface
    MIN_MULTICAST_INTERVAL = 4
    PROBE_DEFENSE_INTERVAL = 1
    PeerRecords <- MCPeers
    Queries <- MCQueries
    AnswerFromCache = TRUE
    SharedDelay = {0, 1}
    TruncatedDelay = {1, 2}
    SendResults <- MCSendResults
    Tasks = {h1}
    MaxTime = 40
    MaxServe = 2
    IfaceSeq <- MCIfaceSeq
    ProbeJitter = {0, 1}
    PROBE_INTERVAL = 1
    ANNOUNCE_GAP = 4
SPECIFICATION Spec
INVARIANTS EngineTypeOK GoodbyeIsLastWord UniqueSpacing
 
CHECK_DEADLOCK FALSE
