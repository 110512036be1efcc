SPECIFICATION Spec
CONSTANTS
    Callers = {c1, c2}
    Packets = {p1, p2, p3}
    MaxQueued = 2
    StagedSize = 2
    OutboundSize = 1
    NonceBits = 2
    Reject = 2
    MaxBatch = 2
    MaxKeys = 2
    MaxStops = 1
SYMMETRY Symmetry
INVARIANTS NonceOnce OneOwner QueuedExact NotStuck
CHECK_DEADLOCK FALSE
