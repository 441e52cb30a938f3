SPECIFICATION Spec
CONSTANTS
    Width <- MCWidth
    Octet = 2
    LINK_LOCAL <- MCLinkLocal
    DEFAULT_V4_LEN = 2
    DEFAULT_V6_LEN = 2
    Links = {"lan", "iot", "lab", "guest"}
    Daemons = {"d1", "d2", "d3"}
    IfacesOf <- MCIfacesOf
    ConfigOf <- MCConfigOf
    HearsOn <- MCHearsOn
    Frames <- MCFrames
    PktInfo <- MCPktInfo
    Lossy = {"lab"}
    MaxFrames = 1
INVARIANTS
    NoReturn
    RefusedStays
PROPERTIES
    Crosses
CHECK_DEADLOCK FALSE
