\* V2 pad interleaving bare PS/2 packets whose deltas may be 0x80, lossless line.
CONSTANTS
    PktSize = 6
    RingSize = 12
    Interleaved = TRUE
    MaxPackets = 3
    MaxLost = 0
    DeltaClasses = {"data", "sync", "x80"}
SPECIFICATION Spec
INVARIANT NoAlpsPacketLost
CHECK_DEADLOCK FALSE
