SPECIFICATION Spec
CONSTANTS
    NumImages   = 2
    Chains      = {"headless", "none", "unlisted", "untextured", "ready"}
    Layers      = 1
    MaxRuns     = 2
    MaxSeq      = 1
    Spots      <- MCSpots
    Covers     <- MCCovers
    MaxFailures = 1
INVARIANTS
    RunningAgrees
    FrameCallsInOrder
    ImageInStep
    LayerIsCurrent
