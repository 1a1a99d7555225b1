SPECIFICATION Spec
CONSTANTS
    Keys = {k1, k2}
    Callers = {c1, c2}
    Flights = {text}
    Sprint <- MCSprintCollides
    Errors = {timeout}
    CacheableErrors = {}
    TTL = 1
    NegativeTTL = 1
    SetTTLs = {}
    Nils = {FALSE}
    MaxTime = 2
    Zero = Zero
    NoItem = NoItem
    NoCaller = NoCaller
    NoErr = NoErr
INVARIANTS ReturnsOwnResult
