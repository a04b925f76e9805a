SPECIFICATION RadarSpec
CONSTANTS
    b1 = b1
    Hash <- OneHash
    Txid <- OneTxid
    NoTxid = NoTxid
    NoEntry = NoEntry
    Garbage = Garbage
    None = None
    Block <- OneBlock
    CounterMod = 100
    MaxNodeEvents = 3
    MaxLost = 0
    MaxMalformed = 0
    Score <- OneScore
    FeeRate <- OneRate
    RateCeiling = 1000
    MinPersist = 10
    NotifyEnabled = FALSE
    NotifyMin = 60
    Cooldown = 1
    StatsTx = 1
    StatsTime = 1
    PruneInterval = 1
    MaxAge = 0
    MaxEvents = 0
    MaxTime = 0
INVARIANTS MinedConfirmed
CHECK_DEADLOCK FALSE
