SPECIFICATION FairSpec
CONSTANTS
    MaxSend <- MCMaxSendOne
    Cap = 1
    MaxFaults = 1
PROPERTIES
    HandshakeResolves
    TeardownCompletes
    EventualDelivery
CHECK_DEADLOCK FALSE
