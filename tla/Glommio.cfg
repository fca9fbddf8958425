SPECIFICATION Spec
CONSTANTS
    MaxFrames = 8
    Faults <- MCFaults
INVARIANTS
    Recycled
    NearlyInOrder
    NeverStuck
PROPERTIES
    Returns
