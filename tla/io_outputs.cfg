SPECIFICATION FairSpec
CONSTANTS
    in = in
    ain = ain
    out = out
    aout = aout
    NoItem = NoItem
    Items = {out, aout}
    IoType <- ItemType
    Order <- OutputOrder
    Values <- ItemValues
    InitialWords = {0}
    ReadsBack = FALSE
    MaxChanges <- OutputChanges
INVARIANTS
    TypeOK
    WrittenUnlessOverlapped
PROPERTIES
    StateConverges
