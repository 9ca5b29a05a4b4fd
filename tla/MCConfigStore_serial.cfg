SPECIFICATION Spec
CONSTANTS
    Handlers = {"control"}
    Clis = {"cli"}
    Readers = {"pass"}
    Processes <- TheProcesses
    Inodes <- TheInodes
    Settings = {"app", "lan"}
    Values = {"yes", "no"}
    Unset = "unset"
    None = None
    Empty = Empty
    Torn = Torn
    Serial = TRUE
    Commands = 2
    Faults = 1
INVARIANTS
    NeverHalfWritten
    ReadersSeeWhole
    AckedKept
PROPERTIES
    Refines
