SPECIFICATION Spec
CONSTANTS
    a1 = a1
    l1 = l1
    l2 = l2
    p1 = p1
    p2 = p2
    None = None
    Ads = {a1}
    Listings = {l1}
    AdOf <- OneOffer
    Proc = {p1, p2}
    Commands = {"run", "backup", "export", "migrate", "restore"}
    LastFile = 2
    Dated = {2}
    MaxFaults = 1
INVARIANTS
    ErasedStaysErased
    ErasureAccounted
PROPERTIES
    ReopenedOnlyForNewData
