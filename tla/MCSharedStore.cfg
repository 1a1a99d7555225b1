SPECIFICATION Spec
CONSTANTS
    Replicas <- MCReplicas
    MaxPrefix = 65535
    Layout <- MCLayout
    Keys <- MCKeys
    Values <- MCValues
    MaxLimit = 2
    Marshal <- MCMarshal
    NoToken = NoToken
    NotFound = NotFound
INVARIANTS ListIsExact RangeIsExact PagesFollowListing NotEmptyIsExact
PROPERTIES KeepsTablesApart
