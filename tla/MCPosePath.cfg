SPECIFICATION Spec
CONSTANTS
    Apps         = {a1, a2}
    WithContext  = {a1, a2}
    Broker       = Broker
    NoClient     = NoClient
    Gone         = Gone
    MaxFrames    = 3
    MaxBuffered  = 2
    Backlog      = 1
    BrokerRetry  = 1
    ConnectRetry = 1
    MaxRuns      = 2
    MaxFailures  = 1
INVARIANTS
    StreamsInOrder
    RowsFollowBroker
PROPERTIES
    ImplementsRelay
    LockReleased
