SPECIFICATION RadarFairSpec
CONSTANTS
    b1 = b1
    Hash <- OneHash
    Txid <- MirrorHashes
    NoTxid = NoTxid
    NoEntry = NoEntry
    Garbage = Garbage
    None = None
    Block <- OneBlock
    CounterMod = 3
    MaxNodeEvents = 3
    MaxLost = 1
    MaxMalformed = 0
    Score <- OneScore
    FeeRate <- OneRate
    RateCeiling = 1000
    MinPersist = 10
    NotifyEnabled = FALSE
    NotifyMin = 60
    Cooldown = 1
    StatsTx = 1
    StatsTime = 1
    PruneInterval = 1
    MaxAge = 0
    MaxEvents = 0
    MaxTime = 0
INVARIANTS MirrorsNode
PROPERTIES EventuallyHandled WindsDown
CHECK_DEADLOCK FALSE
