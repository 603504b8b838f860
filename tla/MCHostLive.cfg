SPECIFICATION FairSpec
CONSTANTS
    NumImages   = 2
    Chains      = {"headless", "ready"}
    Layers      = 1
    MaxRuns     = 1
    MaxSeq      = 1
    Spots      <- MCSpots
    Covers     <- MCCovers
    MaxFailures = 1
PROPERTIES
    ReadyAnswered
    LossNoticed
    PosesGoOn
    FrameShown
