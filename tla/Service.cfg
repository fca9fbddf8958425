SPECIFICATION ServiceSpec
\* The service may be idle for ever, and a call may hang.
CHECK_DEADLOCK FALSE
CONSTANTS
    Jobs = {j1, j2}
    NoJob = NoJob
    Stranger = Stranger
    MaxQueued = 1
    JobChanCap = 1
    DoneChanCap = 1
    Outcomes <- MCOutcomes
    CancelIds = {j1}
    Workers = {w1, w2}
    Bye = Bye
    Faults <- MCFaults
    Size <- MCSize
INVARIANTS
    RingAtRest
    LeftBehind
    ReportedWritten
PROPERTIES
    JobsServed
