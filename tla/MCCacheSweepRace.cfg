SPECIFICATION Spec
CONSTANTS
    Keys = {k1}
    Callers = {c1, c2}
    Flights = {k1}
    Sprint <- MCSprint
    Errors = {timeout}
    CacheableErrors = {}
    TTL = 1
    NegativeTTL = 1
    SetTTLs = {0}
    Nils = {FALSE}
    MaxTime = 2
    Zero = Zero
    NoItem = NoItem
    NoCaller = NoCaller
    NoErr = NoErr
PROPERTIES StoredForever
