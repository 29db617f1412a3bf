SPECIFICATION FairSpec
CONSTANTS
    MaxItems = 9
INVARIANTS
    TypeOK
    NothingMissing
    ListComplete
    Addresses
PROPERTIES
    Starts
CHECK_DEADLOCK FALSE
