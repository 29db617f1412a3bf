SPECIFICATION FairSpec
CONSTANTS
    in = in
    ain = ain
    out = out
    aout = aout
    NoItem = NoItem
    Items = {in, ain}
    IoType <- ItemType
    Order <- InputOrder
    Values <- ItemValues
    InitialWords = {0}
    ReadsBack = FALSE
    MaxChanges <- Twice
PROPERTIES
    InputsConverge
    ProgramConverges
