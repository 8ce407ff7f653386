SPECIFICATION ProbeSpec
CONSTANTS
    Servers = {1, 2, 3, 4}
    NoServer = 0
    Services = 2
    MaxAttempts = 2
    ProtocollessLimit = 2
    MaxDisturbances = 2
PROPERTY AlwaysRecovers
CHECK_DEADLOCK FALSE
