SPECIFICATION Spec
CONSTANTS
    Jobs = {j1, j2}
    NoJob = NoJob
    Stranger = Stranger
    MaxQueued = 1
    JobChanCap = 1
    DoneChanCap = 1
    Outcomes <- Returning
    CancelIds <- AllIds
PROPERTIES
    DeletedNotStarted
