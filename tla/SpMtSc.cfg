SPECIFICATION Spec
\* A call that has returned does nothing more.
CHECK_DEADLOCK FALSE
CONSTANTS
    Workers = {w1, w2}
    NumFrames = 6
    Faults <- AllFaults
INVARIANTS
    InOrder
    Conserved
    NeverStuck
PROPERTIES
    ImplementsTranscode
    CompletesUnlessFailed
