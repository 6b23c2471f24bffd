SPECIFICATION Spec
CONSTANTS
    l1 = l1
    l2 = l2
    a1 = a1
    None = None
    Source = "chrono24"
    Ads = {a1}
    Listings = {l1}
    AdOf <- OneOffer
    Said = {"Active", "Sold", "Unknown"}
    Amounts = {1}
    Currencies = {"USD"}
    MaxRuns = 2
    MaxReads = 2
CHECK_DEADLOCK FALSE
INVARIANTS
    IInv
    RepeatIsQuiet
    SoldIsEvidenced
    SuccessReflectsSource
