SPECIFICATION FairSpec
CONSTANTS
    NoTunnel = NoTunnel
    NoDevice = NoDevice
    NoNet = NoNet
    NoScope = NoScope
    Main = main
    Rank <- Discovered
    PrefixLen <- Lengths
    Inside <- InsideOf
    Captured <- CapturedBy
    Prefixes = {"corp"}
    Scopes = {"app"}
    DockerScopes = {"app"}
    EnabledByDefault = {"app"}
    Nets = {"net"}
    Subnets <- OneSubnet
    Addresses = {"a", "b", "c"}
    Devices = {"br0"}
    Leases <- FreshLeases
    Handlers = {}
    Files <- EitherMode
    Edits <- ScopeEdits
    Limit <- AloneBounds
PROPERTIES
    AcceptsPruned
