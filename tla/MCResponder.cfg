CONSTANTS
    Ifaces = {"lan", "iot"}
    AddrV4 <- MCAddrV4
    AddrV6 <- MCAddrV6
    NoAddr = NoAddr
    Hostname = "router"
    ServiceConfigs <- MCServices
    TTL_HOST = 2
    TTL_SERVICE = 8
    SECOND = 2
    CACHE_MAX_ENTRIES = 4
    CACHE_MAX_TTL = 0
    NoIface = NoIface
    MIN_MULTICAST_INTERVAL = 2
    PROBE_DEFENSE_INTERVAL = 1
    PeerRecords <- MCPeers
    Queries <- MCQueries
    AnswerFromCache = TRUE
    SharedDelay = {0, 1}
    TruncatedDelay = {1}
    SendResults <- Reliable
    Tasks = {h1, h2}
    MaxTime = 3
SPECIFICATION RespSpec
INVARIANTS NoDoubleTransmit ResponseSpacing FlushOnlyOurs GoodbyeHonouredAfterDelay StampsWereSent
SYMMETRY TaskSymmetry
