SPECIFICATION Spec
CONSTANTS
    Apps         = {a1, a2}
    WithContext  = {a1}
    Broker       = Broker
    NoClient     = NoClient
    Gone         = Gone
    MaxFrames    = 4
    MaxBuffered  = 1
    Backlog      = 1
    BrokerRetry  = 1
    ConnectRetry = 1
    MaxRuns      = 2
    MaxFailures  = 0
PROPERTIES
    CallReturns
