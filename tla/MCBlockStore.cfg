SPECIFICATION Spec
CONSTANTS
    Block = {b1, b2, b3}
    Scrap = scrap
    FileNumber <- MCFileNumber
    MaxFileSize = 2
    FlushInterval = 2
    PowerLoss = TRUE
    MaxCrashes = 2
    MaxFaults = 1
INVARIANTS
    TypeOK
    IndexReadsBack
    StoredIsTracked
PROPERTIES
    IndexKept
    EventuallyIndexed
