SPECIFICATION FairSpec
CONSTANTS
    in = in
    ain = ain
    out = out
    aout = aout
    NoItem = NoItem
    Items = {ain}
    IoType <- ItemType
    Order <- AnalogInput
    Values <- WideValues
    InitialWords = {0}
    ReadsBack = FALSE
    MaxChanges <- Twice
PROPERTIES
    InputsConverge
