SPECIFICATION Spec
CONSTANTS
    t1 = t1
    t2 = t2
    Transports = {t1, t2}
    CounterModulus = 3
    MAX_UDP_PACKET_SIZE = 3
    UdpPayloadMax = 2
INVARIANT NoneCurrentWhenAllFinished
CHECK_DEADLOCK FALSE
