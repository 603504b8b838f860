SPECIFICATION Spec
CONSTANTS
    Capacity   = 1
    MaxChunks  = 3
    Sizes      = {2}
    MaxId      = 1
    MaxRun     = 1
    MaxSent    = 4
    MaxNet     = 4
    MaxFaults  = 0
    MaxFrames  = 0
INVARIANTS
    RecentFramesDelivered
