CONSTANTS
    SECOND = 2
    CACHE_MAX_ENTRIES = 2
    CACHE_MAX_TTL = 0
    NoIface = NoIface
    Keys <- MCKeys
    Questions = {}
    Ttls = {0, 1, 2}
    FlushBits = {TRUE, FALSE}
    Ifaces = {}
    Readers = {}
    MaxStall = 0
    MaxTime = 5
SPECIFICATION Spec
INVARIANTS TypeOK CapacityBound FlushSupersedes
PROPERTIES EvictionOrder ExpiredGo
