SPECIFICATION Spec
CONSTANTS
    b1 = b1
    Hash <- MirrorHashes
    Txid <- MirrorHashes
    NoTxid = NoTxid
    NoEntry = NoEntry
    Garbage = Garbage
    None = None
    Block <- OneBlock
    Score <- LoudAndQuiet
    FeeRate <- OneRate
    RateCeiling = 1000
    MinPersist = 10
    NotifyEnabled = TRUE
    NotifyMin = 60
    Cooldown = 2
    StatsTx = 2
    StatsTime = 2
    PruneInterval = 2
    MaxAge = 0
    MaxEvents = 4
    MaxTime = 4
INVARIANTS TypeOK PendingMirrorsEvents RemovalsAddUp SignalsComplete NotifierQuota
PROPERTIES PrunedInTime StatsFreshAfterTx
CHECK_DEADLOCK FALSE
