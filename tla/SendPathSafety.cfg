\* One worker and one broadcast thread beside the I/O thread.
SPECIFICATION Spec
CONSTANTS
    w1 = w1
    b1 = b1
    IO = IO
    Workers = {w1}
    Broadcasters = {b1}
    PacketLens = {1, 2}
    MaxPending = 4
    Budget = 2
    KernelCap = 2
    MaxCalls = 3
    MaxInbound = 1
    MaxReplies = 1
INVARIANTS StreamIntact BacklogCounted BacklogIsArmed
PROPERTIES ImplementsByteStream
CHECK_DEADLOCK FALSE
