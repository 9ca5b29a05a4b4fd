SPECIFICATION Spec
CONSTANTS
    W = 4
    MAX_SPLIT_ROUTES = 2
    NoLength = NoLength
    SYNTHETIC_PROBE_SEARCH = 2
    MAX_LIVE_PROBES = 1
    MinClaimPrefixlen = 2
    AllowWideClaims = {}
    LibvirtLinks = {"virbr0"}
    NeverScope = {"lo"}
    NoDevice = NoDevice
    NoAddress = NoAddress
    Docks <- AnyDock
    HostAddrs <- Wired
    Foreign <- Others
    Captures <- Mirrored
    Tunnel = "cscotun0"
    Loopback = "lo"
    Nowhere = Nowhere
    Limit <- FewMoves
VIEW Read
INVARIANTS
    TypeOK
    CaptureIsSeen
    PlannedWins
    OnlyOffered
CHECK_DEADLOCK FALSE
