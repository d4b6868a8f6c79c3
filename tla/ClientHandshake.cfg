SPECIFICATION FairSpec
CONSTANTS
    Clients <- MCClients
    Data <- MCData
INVARIANTS
    TypeOK
    FailsOnlyForCause
    TunnelCarriesData
    AnswersTheRequest
    UdpPacketRoundTrip
PROPERTY HandshakeDecides
CHECK_DEADLOCK FALSE
