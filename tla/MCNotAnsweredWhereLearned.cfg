CONSTANTS
    SECOND = 2
    CACHE_MAX_ENTRIES = 2
    CACHE_MAX_TTL = 2
    NoIface = NoIface
    Keys <- MCRelayKeys
    Questions <- MCQuestions
    Ttls = {0, 1, 3}
    FlushBits = {FALSE}
    Ifaces = {lan, iot}
    Readers = {r1}
    MaxStall = 1
    MaxTime = 4
SPECIFICATION Spec
INVARIANT NotAnsweredWhereLearned
