SPECIFICATION FairSpec
CONSTANTS
    MaxSignals = 4
    MaxFailures = 2
    MaxExits = 2
INVARIANTS TypeOK NoSilentLoss StoredInOrder
PROPERTIES LogSpec EventuallyStored
CHECK_DEADLOCK FALSE
