SPECIFICATION FairSpec
CONSTANTS
    NumImages   = 2
    Chains      = {"ready"}
    Layers      = 2
    MaxRuns     = 1
    MaxSeq      = 1
    Spots      <- MCSpots
    Covers     <- MCCovers
    MaxFailures = 0
PROPERTIES
    FrameShown
