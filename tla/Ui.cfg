SPECIFICATION FairSpec
CONSTANTS
    Score <- Scores
    AlertMin = 40
    PersistMin = 20
    MaxPanel = 1
    HistoryMin = 10
    MaxHistory = 1
    RefreshTx = 2
    Hour = 0
    Day = 1
    Earlier <- EarlierRows
    MaxTxs = 2
    MaxQueued = 2
    MaxRows = 2
    MaxFailures = 1
    MaxTime = 1
INVARIANTS TypeOK NewestKept SummaryAgrees HistoryCurrent
PROPERTIES EventuallyShown
CHECK_DEADLOCK FALSE
