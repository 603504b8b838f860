SPECIFICATION Spec
CONSTANTS
    Capacity   = 1
    MaxChunks  = 3
    Sizes      = {2, 3}
    MaxId      = 1
    MaxRun     = 1
    MaxSent    = 3
    MaxNet     = 3
    MaxFaults  = 1
    MaxFrames  = 2
CHECK_DEADLOCK FALSE
INVARIANTS
    CopiesFit
    DeliveredIntact
    FramesDelivered
PROPERTIES
    ImplementsChannel
    CatchesUp
