SPECIFICATION FairSpec
CONSTANTS
    s1 = s1
    s2 = s2
    a = a
    b = b
    NoLed = NoLed
    Strips = {s1, s2}
    NumPixels = 1
    BytesPerPixel = 3
    BytesPerHalf = 1
    Leds = {}
    Used = {}
    Strip <- FirstStrip
    Position <- Positions
    Setup <- TwoStrips
    Colours = {"white"}
    MaxValues = {}
    InitialMax = 32
    MaxCommands = 0
PROPERTIES
    UpdatesReturn
CHECK_DEADLOCK FALSE
