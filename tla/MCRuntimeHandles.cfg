SPECIFICATION Spec
CONSTANTS
    Texts        <- AllTexts
    Cut          <- CutTexts
    Left         = "left"
    Right        = "right"
    MaxSpaces    = 2
    MaxPaths     = 3
    MaxActions   = 1
    MaxInstances = 2
INVARIANTS
    TypeOK
    PathsAgree
    SpacesKeepKind
