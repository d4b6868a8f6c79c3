SPECIFICATION FairSpec
CONSTANTS
    MaxSend <- MCMaxSendOne
    Cap = 1
    MaxFaults = 1
PROPERTY RelayTimeoutsRelease
CHECK_DEADLOCK FALSE
