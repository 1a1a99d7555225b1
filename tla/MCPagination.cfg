SPECIFICATION Spec
CONSTANTS
    TableId <- MCTableId
    Neighbours <- MCNeighbours
    Keys <- MCFixedKeys
    ListPrefix <- MCPrefix
    Limit = 2
    TurnsBack = TRUE
    NoToken = NoToken
    NotFound = NotFound
INVARIANTS PageIsExact ForthIsComplete BackIsComplete
