SPECIFICATION Spec
CONSTANTS
    None = None
    Undisclosed = Undisclosed
    Listings = {1, 2}
    Model = Model
    Reference = Reference
    Watches = {Model, Reference}
    Fits <- BothFitTheModel
    Asks = {1, 2}
    Rates = {1, 2}
    SalePrices = {1}
    v1 = v1
    v2 = v2
    Methods = {v1, v2}
    Refresh = 2
    Records <- Offers
    MaxTime = 3
    MaxRuns = 3
    MaxReads <- TwoThenOne
    AsOf <- BackAndForth
SYMMETRY Versions
CHECK_DEADLOCK FALSE
INVARIANTS
    IInv
    ScoreHasItsValuation
    ErasedEvidenceIsGone
    ScoresAreCurrent
