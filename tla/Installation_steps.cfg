SPECIFICATION Spec
CONSTANTS
    Absent = Absent
    Partial = Partial
    Edits = 1
    Faults = 2
INVARIANTS
    OkMeansInstalled
    FailsOnlyByFault
PROPERTIES
    SwapOnly
