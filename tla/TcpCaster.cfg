SPECIFICATION FairSpec
CONSTANTS
    p1 = p1
    p2 = p2
    Peers = {p1, p2}
    MaxClients = 2
    BufferBytes = 3
    MaxChunks = 3
    MaxSessions = 2
INVARIANTS NoGap OneSession NoLostWakeup
PROPERTIES SilentAfterClose ShutsDown
