SPECIFICATION Spec
CONSTANTS
    MaxSend <- MCMaxSend
    Cap = 2
    MaxFaults = 2
INVARIANTS
    TypeOK
    PrefixDelivery
    CleanEndIsComplete
    EstablishedMeansConnected
    RelaySeesOnlyData
PROPERTY ServiceSpec
CHECK_DEADLOCK FALSE
