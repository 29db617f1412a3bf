SPECIFICATION FairSpec
CONSTANTS
    in = in
    ain = ain
    out = out
    aout = aout
    NoItem = NoItem
    Items = {aout}
    IoType <- ItemType
    Order <- AnalogOutput
    Values <- ItemValues
    InitialWords = {0}
    ReadsBack = FALSE
    MaxChanges <- Twice
PROPERTIES
    OutputsConverge
