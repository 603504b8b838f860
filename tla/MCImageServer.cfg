SPECIFICATION Spec
CONSTANTS
    Conns       = {c1, c2}
    NoConn      = NoConn
    HeaderParts = 2
    Sizes       = {0, 2}
    Backlog     = 1
    MaxBuffered = 2
    MaxFrames   = 3
    MaxNo       = 2
CHECK_DEADLOCK FALSE
INVARIANTS
    FramesWhole
    OnlyServedIsOpen
PROPERTIES
    ImplementsIntake
    WaitingServed
