\* V2 pad with interleaved bare PS/2 packets (ALPS_PS2_INTERLEAVED) on a
\* line that may lose one byte.
CONSTANTS
    PktSize = 6
    RingSize = 12
    Interleaved = TRUE
    MaxPackets = 4
    MaxLost = 1
    DeltaClasses = {"data", "sync"}
SPECIFICATION Spec
INVARIANT TypeOK
INVARIANT NoAlpsPacketLost
PROPERTY AllFramesDispatched
PROPERTY PacketsNotStranded
PROPERTY RefinesPacketQueue
\* The device falls silent after MaxPackets packets; the driver then waits.
CHECK_DEADLOCK FALSE
