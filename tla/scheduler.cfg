SPECIFICATION FairSpec
CONSTANTS
    Machines = {m1, m2}
    Delays = {0, 2}
    Modulus = 16
    MaxTime = 3
    MaxItems = 2
    NoItem = NoItem
INVARIANTS
    TypeOK
    NeverEarly
    ItemsWakeOnce
PROPERTIES
    PassCollectsDue
    EveryItemFires
