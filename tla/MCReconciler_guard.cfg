SPECIFICATION Spec
CONSTANTS
    NoTunnel = NoTunnel
    NoDevice = NoDevice
    NoNet = NoNet
    NoScope = NoScope
    Main = main
    Rank <- Discovered
    PrefixLen <- Lengths
    Inside <- InsideOf
    Captured <- CapturedBy
    Prefixes = {"corp"}
    Scopes = {"app"}
    DockerScopes = {"app"}
    EnabledByDefault = {"app"}
    Nets = {"net", "wide"}
    Subnets <- WithWide
    Addresses = {"a", "b", "c"}
    Devices = {"br0"}
    Leases <- FreshLeases
    Handlers = {h}
    Files <- JustConfirm
    Edits <- WideEdits
    Limit <- GuardBounds
INVARIANTS
    TypeOK
    RefusedNeverClaimed
    ConsentBeforeClaim
    GrantsAreThisSessions
