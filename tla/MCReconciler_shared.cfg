SPECIFICATION FairSpec
CONSTANTS
    NoTunnel = NoTunnel
    NoDevice = NoDevice
    NoNet = NoNet
    NoScope = NoScope
    Main = main
    Rank <- Discovered
    PrefixLen <- Lengths
    Inside <- InsideOf
    Captured <- CapturedBy
    Prefixes = {"corp"}
    Scopes = {"app", "lan"}
    DockerScopes = {"app"}
    EnabledByDefault = {"app"}
    Nets = {"net", "own"}
    Subnets <- Shared
    Addresses = {"a", "b", "c"}
    Devices = {"br0", "br1"}
    Leases <- FreshLeases
    Handlers = {}
    Files <- LanEdits
    Edits <- LanEdits
    Limit <- SharedBounds
PROPERTIES
    ClaimsConverge
    PairsPruned
    KernelSettles
