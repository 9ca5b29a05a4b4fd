SPECIFICATION CliSpec
CONSTANTS
    NoTunnel = NoTunnel
    NoDevice = NoDevice
    NoNet = NoNet
    NoScope = NoScope
    Main = main
    Cli = cli
    Commands = 2
    RevertRounds = 8
    Rank <- Discovered
    PrefixLen <- Lengths
    Inside <- InsideOf
    Captured <- CapturedBy
    Prefixes = {"corp"}
    Scopes = {"app"}
    DockerScopes = {"app"}
    EnabledByDefault = {"app"}
    Nets = {"net"}
    Subnets <- OneSubnet
    Addresses = {"a", "b", "c"}
    Devices = {"br0"}
    Leases <- OneLease
    Handlers = {}
    Files <- JustAuto
    Edits <- NoEdits
    Limit <- CliBounds
INVARIANTS
    CopiesBounded
PROPERTIES
    ClaimsConverge
    ClaimsReleased
    RevertClears
