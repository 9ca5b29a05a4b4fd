SPECIFICATION Confirmed
CONSTANTS
    Scopes = {docker, compose}
    Nets = {net1, net2}
    First = net1
    None = None
    NoSnapshot = NoSnapshot
    Upsets = 2
    Clicks = 2
SYMMETRY Symmetry
INVARIANTS
    ClaimedAsConfirmed
