SPECIFICATION FairSpec
CONSTANTS
    Calls = {c1, c2}
    Slots = 1
    Chunks = 2
    Faults = 2
INVARIANTS
    SlotsBalance
    OkMeansDone
PROPERTIES
    SlotComesBack
    RestartComes
    ComesBack
CHECK_DEADLOCK FALSE
