SPECIFICATION Spec
CONSTANTS
    Sizes       = {2}
    NoFrame     = NoFrame
    MaxBuffered = 2
    MaxRuns     = 2
    MaxSeq      = 1
    MaxConns    = 2
    MaxFailures = 2
CHECK_DEADLOCK FALSE
INVARIANTS
    ForwardedWhole
    SentInOrder
PROPERTIES
    ImplementsRelay
    SendReturns
    WrittenIsSent
