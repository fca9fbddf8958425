SPECIFICATION Spec
CONSTANTS
    Jobs = {j1, j2, j3}
    NoJob = NoJob
    Stranger = Stranger
    MaxQueued = 1
    JobChanCap = 1
    DoneChanCap = 1
    Outcomes <- AllOutcomes
    CancelIds = {j1, Stranger}
INVARIANTS
    SingleFlight
    WorkConserving
    StrandedOnlyByCancel
PROPERTIES
    PolledForward
    ImplementsQueue
    AcceptedServed
