SPECIFICATION Spec
\* A call that has ended, or hangs, does nothing more.
CHECK_DEADLOCK FALSE
CONSTANTS
    Workers = {w1, w2, w3}
    Lengths <- MCLengths
    Bye = Bye
    Faults <- AllFaults
INVARIANTS
    InOrder
    Conserved
    RingBounded
    NeverStuck
PROPERTIES
    ImplementsTranscode
    CompletesUnlessStarved
