CONSTANTS
    PING_INTERVAL <- MC_PING_INTERVAL
    READ_TIMEOUT <- MC_TIMEOUT
    WRITE_TIMEOUT <- MC_TIMEOUT
    TLS_TIMEOUT <- MC_TIMEOUT
    LATENCY = 1
    SERVER_STALL = 2
    CLIENT_STALL = 1
    SOCKET = 2
    QUEUE = 1
SPECIFICATION Spec
INVARIANT HandshakeDecides
INVARIANT NoSpuriousTimeout
INVARIANT OnePingUnderWay
PROPERTY CutIsNoticed
PROPERTY SessionIsDecided
