SPECIFICATION FairSpec
CONSTANTS
    Last = 4
    Sticky = {1}
    PageLimit = 1
    PageCap = 3
    BatchSize = 2
    Limit = 6
    Retries = 1
    MaxFaults = 1
INVARIANTS
    TypeOK
    DeletionIsNeverInferred
    SuccessReadsTheWindow
    SuccessPurgesDeletions
PROPERTIES
    DeletionIsPurged
