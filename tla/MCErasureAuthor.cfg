SPECIFICATION Spec
CONSTANTS
    a1 = a1
    l1 = l1
    l2 = l2
    p1 = p1
    p2 = p2
    None = None
    Ads = {a1}
    Listings = {l1, l2}
    AdOf <- TwoOffers
    Proc = {p1}
    Commands = {"run"}
    LastFile = 1
    Dated = {}
    MaxFaults = 0
INVARIANTS
    AuthorEventErasesWholePost
