SPECIFICATION Spec
CONSTANTS
    a1 = a1
    a2 = a2
    a3 = a3
    f1 = f1
    f2 = f2
    binance = binance
    kraken = kraken
    Funding <- TwoFundings
    Outpoint <- Outpoints
    NullOutpoint = NullOutpoint
    Value <- Values
    Address <- Addresses
    NoAddress = NoAddress
    AddressOf <- AddressesOfAll
    NoRow = NoRow
    Spends <- InputLists
    MaxTxs = 2
    MaxBlocks = 0
    MaxMishaps = 0
    Entity <- Entities
    Unit = 1000
    NoTag = NoTag
    CsvFiles <- OneEdition
    MaxFailures = 0
    MaxExits = 0
INVARIANTS FromExchangeSeen
CHECK_DEADLOCK FALSE
