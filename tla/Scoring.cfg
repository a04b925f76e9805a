SPECIFICATION Spec
CONSTANTS
    MilliCoin = 2
    Hundredth = 1
    FeeHalf = 1
    Amount <- Amounts
    InputKind <- InputKinds
    NoTag = NoTag
    Override <- Configs
    Batches <- OneOrForty
    InputCounts = {1, 2, 3, 4, 5, 40}
    MaxPlain = 5
    MaxOutputs = 10
    MaxFew = 2
INVARIANTS TypeOK VerdictIsUnique CriticalIsDeposit
PROPERTIES JoiningKeepsVerdict KnowingMoreRaises
CHECK_DEADLOCK FALSE
