SPECIFICATION Spec
\* A command that has ended stops.
CHECK_DEADLOCK FALSE
CONSTANTS
    NumCpus = 8
    MaxCpuWorkers = 512
    Word = 65536
    Threads <- TriedThreads
INVARIANTS
    StartsAsAsked
    WorkersInRange
