SPECIFICATION Spec
CONSTANTS
    Senders   = {s1, s2}
    NoSender  = NoSender
    NumFds    = 5
    MaxPlanes = 2
    Backlog   = 1
    MaxFrames = 2
CHECK_DEADLOCK FALSE
INVARIANTS
    TypeOK
    OwnedOnce
    ShownWhole
PROPERTIES
    ImplementsCustody
    GoodFramesShown
