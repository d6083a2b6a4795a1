\* V4 pad (8-byte packets, no interleaving) on a line that loses one byte.
CONSTANTS
    PktSize = 8
    RingSize = 16
    Interleaved = FALSE
    MaxPackets = 4
    MaxLost = 1
    DeltaClasses = {"data", "sync"}
SPECIFICATION Spec
INVARIANT FramesDispatchedInOrder
CHECK_DEADLOCK FALSE
