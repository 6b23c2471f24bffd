SPECIFICATION Spec
CONSTANTS
    None = None
    NumSources = 2
    Dates = {d1}
    Enabled <- AllOrNone
    Kinds = {"daily", "value", "diagnostic", "export"}
    MaxRuns = 2
    MaxExports = 1
CHECK_DEADLOCK FALSE
INVARIANTS
    RankedRunsAreWhole
    SuccessIsPublished
    ReportComesLast
PROPERTIES
    KeepsContract
