SPECIFICATION FairSpec
CONSTANTS
    Requests <- MCRequests
    Destinations <- MCDestination
    MaxDatagrams = 3
    MaxAnswers = 2
    MaxFaults = 1
INVARIANTS
    TypeOK
    RepliesMatch
PROPERTIES
    ExchangeResolves
    AssociationEnds
CHECK_DEADLOCK FALSE
