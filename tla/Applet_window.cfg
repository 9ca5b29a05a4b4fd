SPECIFICATION FairSpec
CONSTANTS
    Scopes = {docker, compose}
    Nets = {net1, net2}
    First = net1
    None = None
    NoSnapshot = NoSnapshot
    Upsets = 1
    Clicks = 3
INVARIANT OnePrompt
PROPERTIES
    FailureComesToShow
    GreenInTheEnd
    
    PutOffWhileItRuns
