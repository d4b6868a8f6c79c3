SPECIFICATION Spec
CONSTANTS
    Requests <- MCRequestsUnknown
    Destinations <- MCDestination
    MaxDatagrams = 1
    MaxAnswers = 1
    MaxFaults = 0
INVARIANT DiscardsOnlyStrangers
CHECK_DEADLOCK FALSE
