SPECIFICATION Spec
CONSTANTS
    NumImages   = 3
    NoImage     = NoImage
    MaxPending  = 8
    MaxSequence = 2
INVARIANTS
    EventsLeadToState
    LegalEventStream
    ReadbackNeverAcquired
PROPERTIES
    FramesSentInOrder
    ImplementsContract
    FocusReported
