SPECIFICATION Spec
CONSTANTS
    t1 = t1
    t2 = t2
    Txid <- TwoTxids
    NoTxid = NoTxid
    NoEntry = NoEntry
    FeeRate <- EdgeRates
    RateCeiling = 1000
    MaxAge = 0
    MaxTime = 2
    MaxRemovals = 2
    MaxUncounted = 1
INVARIANTS TypeOK ReplacementLinks NonPendingCounted
PROPERTIES PruneTakesOldWithLinks LifecycleSpec
