CONSTANTS
    Width <- MCWidth
    Octet = 2
    LINK_LOCAL <- MCLinkLocal
    DEFAULT_V4_LEN = 2
    DEFAULT_V6_LEN = 2
    RawConfigs <- MCRawConfigs
    Unreadable = Unreadable
    OsStates <- MCOsStates
    MAX_CACHE_TTL_SECS = 7
    SECOND = 2
    FirstQueryJitter = {0, 1}
    MAX_DURATION = 15
SPECIFICATION Spec
INVARIANTS BrowserTypeOK FilterExact OnLinkExact  CheckedConfigStarts  CapAsConfigured RoundAsksEverywhere
PROPERTIES BrowseBackoff BrowserReturns KeepsAsking
CHECK_DEADLOCK FALSE
