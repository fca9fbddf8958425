SPECIFICATION Spec
\* A call that has ended, or hangs, does nothing more.
CHECK_DEADLOCK FALSE
CONSTANTS
    HeaderSize = 2
    FrameSize = 2
    ChunkSizes <- MCChunkSizes
    Workers = {w1, w2}
    NumFrames = 3
    Bye = Bye
    Hdr = Hdr
    Faults <- AllFaults
INVARIANTS
    RingBounded
    InOrder
    BytesInPlace
    NeverStuck
PROPERTIES
    ImplementsTranscode
    CompletesUnlessStarved
