SPECIFICATION FairSpec
CONSTANTS
    Ids = {r1, r2, r3}
    EmptyId = EmptyId
    Callers = {c1, c2}
    MaxPrefix = 2
    NoPrefix = NoPrefix
    NoCaller = NoCaller
    NoView = NoView
INVARIANTS TypeOK Sequential HandedIsDurable ExhaustedMeansFull ListingIsComplete HandedOneToOne
PROPERTIES AssignmentIsStable KeepsPromise CallReturns
