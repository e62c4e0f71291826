CONSTANTS
    Profile    = {a1, a2}
    Addresses  = {a1, a2, a3}
    Sockets    = 2
    None       = None
    Failed     = Failed
    MaxWorkers = 3
SPECIFICATION Spec
INVARIANTS
    TypeOK
    PinOfThisNode
    AskedOnce
    SummaryComplete
    CheckedBeforeAsked
PROPERTIES
    StatusEnds
CHECK_DEADLOCK FALSE
