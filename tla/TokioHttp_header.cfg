SPECIFICATION Spec
CHECK_DEADLOCK FALSE
CONSTANTS
    HeaderSize = 2
    FrameSize = 2
    ChunkSizes <- MCChunkSizes
    Workers = {w1, w2}
    NumFrames = 3
    Bye = Bye
    Hdr = Hdr
    Faults = {}
INVARIANTS
    HeaderFirst
