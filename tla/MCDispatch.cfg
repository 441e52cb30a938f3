CONSTANTS
    Width <- MCWidth
    Octet = 2
    LINK_LOCAL <- MCLinkLocal
    DEFAULT_V4_LEN = 2
    DEFAULT_V6_LEN = 2
    Ifaces = {"lan", "iot"}
    AddrV4 <- MCAddrV4
    AddrV6 <- MCAddrV6
    NoAddr = NoAddr
    Hostname = "router"
    ServiceConfigs = {}
    TTL_HOST = 2
    TTL_SERVICE = 8
    SECOND = 2
    CACHE_MAX_ENTRIES = 4
    CACHE_MAX_TTL = 0
    NoIface = NoIface
    MIN_MULTICAST_INTERVAL = 2
    PROBE_DEFENSE_INTERVAL = 1
    PeerRecords <- MCPeers
    Queries = {}
    AnswerFromCache = TRUE
    SharedDelay = {0, 1}
    TruncatedDelay = {1}
    SendResults <- Reliable
    Tasks = {h1, h2}
    MaxTime = 2
    StateIfaces <- MCStateIfaces
    Lists <- MCLists
    Repeat = TRUE
    Datagrams <- MCDatagrams
SPECIFICATION Spec
INVARIANTS DispatchTypeOK PermitHeldBriefly  LearnedWhereHeard RepeatedUnlessRefused
PROPERTIES PermitReturned
