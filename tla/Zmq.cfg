SPECIFICATION Spec
CONSTANTS
    t1 = t1
    b1 = b1
    Tx <- OneTx
    Block <- OneBlock
    Garbage = Garbage
    None = None
    CounterMod = 3
    MaxNodeEvents = 4
    MaxLost = 1
    MaxMalformed = 1
INVARIANTS TypeOK GapWarningsExact NothingTwice CompleteWhenDrained
CHECK_DEADLOCK FALSE
