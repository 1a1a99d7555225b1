SPECIFICATION Spec
CONSTANTS
    Keys = {k1, k2}
    Callers = {c1, c2}
    Flights = {k1, k2}
    Sprint <- MCSprint
    Errors = {notFound, timeout}
    CacheableErrors = {notFound}
    TTL = 0
    NegativeTTL = 1
    SetTTLs = {}
    Nils = {FALSE}
    MaxTime = 2
    Zero = Zero
    NoItem = NoItem
    NoCaller = NoCaller
    NoErr = NoErr
SYMMETRY MCSymmetry
INVARIANTS TypeOK FlightLedByOne NoStrandedWaiter NoRedundantLoad ReturnsOwnResult
PROPERTIES SweeperTakesExpired
