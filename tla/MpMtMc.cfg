SPECIFICATION Spec
\* A call that has returned does nothing more.
CHECK_DEADLOCK FALSE
CONSTANTS
    Workers = {w1, w2, w3}
    NumFrames = 4
    Wrap = 8
    Faults <- AllFaults
INVARIANTS
    ClaimedOnce
    LossBounded
PROPERTIES
    ImplementsTranscode
    Returns
