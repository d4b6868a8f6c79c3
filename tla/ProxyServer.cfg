SPECIFICATION FairSpec
CONSTANTS
    t1 = t1
    t2 = t2
    t3 = t3
    Transports = {t1, t2, t3}
    CounterModulus = 4
    MAX_UDP_PACKET_SIZE = 3
    UdpPayloadMax = 2
INVARIANTS
    TypeOK
    CounterAccounting
PROPERTIES
    GaugeSpec
    HandlerReturns
CHECK_DEADLOCK FALSE
