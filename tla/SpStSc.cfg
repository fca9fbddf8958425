SPECIFICATION Spec
\* A call that has returned does nothing more.
CHECK_DEADLOCK FALSE
CONSTANTS
    Word = 16
    BytesPerPixel = 3
    ResortThreshold = 4
    MinDim = 1
    MaxDim = 2
    NumFrames = 2
    Inputs <- MCInputs
INVARIANTS
    FrameIsComposite
    GoodRulesNeverPanic
PROPERTIES
    ImplementsTranscode
