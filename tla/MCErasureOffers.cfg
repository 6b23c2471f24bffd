SPECIFICATION FairSpec
CONSTANTS
    a1 = a1
    l1 = l1
    l2 = l2
    p1 = p1
    p2 = p2
    None = None
    Ads = {a1}
    Listings = {l1, l2}
    AdOf <- TwoOffers
    Proc = {p1}
    Commands = {"run", "backup"}
    LastFile = 2
    Dated = {2}
    MaxFaults = 1
INVARIANTS
    TypeOK
PROPERTIES
    CompletionHasReplacements
    ImplementsContract
    PendingIsCompleted
