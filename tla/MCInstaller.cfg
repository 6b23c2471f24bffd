SPECIFICATION FairSpec
CONSTANTS
    None = None
    a = a
    b = b
    Releases = {a, b}
    Schema <- MCSchema
    LastSchema = 3
    MaxFaults = 3
CHECK_DEADLOCK FALSE
INVARIANTS
    TypeOK
    ActiveIsPublished
    SchemaIsNeverBehind
    CommittedIsRunnable
PROPERTIES
    NothingMovesUnderARun
    PublishedIsImmutable
    ServiceReturns
