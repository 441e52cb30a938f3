CONSTANTS
    Slots = {s1}
    Callers = {c1, c2}
    MIN_MULTICAST_INTERVAL = 8
    PROBE_DEFENSE_INTERVAL = 2
    MaxStall = 1
    MaxTime = 12
SPECIFICATION Spec
INVARIANTS TypeOK NoDoubleGrant
PROPERTIES ImplementsRateLimit StaleEntriesGo
