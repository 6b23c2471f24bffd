SPECIFICATION Spec
CONSTANTS
    l1 = l1
    l2 = l2
    a1 = a1
    None = None
    Source = "reddit"
    Ads = {a1}
    Listings = {l1, l2}
    AdOf <- OnePost
    Said = {"Pending", "Removed", "Sold"}
    Amounts = {}
    Currencies = {"USD"}
    MaxRuns = 2
    MaxReads = 2
CHECK_DEADLOCK FALSE
INVARIANTS
    HistoryIsChain
    SuccessReflectsSource
PROPERTIES
    TombstoneIsFinal
