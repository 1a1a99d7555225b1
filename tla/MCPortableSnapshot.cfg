SPECIFICATION Spec
CONSTANTS
    c1 = c1
    c2 = c2
    Cores = {c1, c2}
    Sections <- MCSections
    SectionLists <- MCSectionLists
    Keys = {1, 2}
    Values = {v}
    ShardKey <- MCShardKey
    Home <- MCHome
    Lower = 2
    Upper = 4
    restoreTxnChunk = 2
    Absent = Absent
    NoTable = NoTable
INVARIANTS RestoredExactly NothingForeign TransactionsAreBounded UnknownTablesRefused
