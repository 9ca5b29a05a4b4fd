SPECIFICATION FairSpec
CONSTANTS
    Never = Never
    Quiet = 2
    Maximum = 4
    Poll = 1
    Resync = 8
    Backoff = 2
    PassTime = 2
    Changes = 5
    Deaths = 1
INVARIANTS
    HeardInTime
    ChangeInTime
PROPERTIES
    Spaced
    Rests
