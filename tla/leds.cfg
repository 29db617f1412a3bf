SPECIFICATION FairSpec
CONSTANTS
    s1 = s1
    s2 = s2
    a = a
    b = b
    NoLed = NoLed
    Strips = {s1}
    NumPixels = 2
    BytesPerPixel = 3
    BytesPerHalf = 2
    Leds = {a, b}
    Used = {a}
    Strip <- FirstStrip
    Position <- Positions
    Setup <- OneStrip
    Colours = {"red", "blue"}
    MaxValues = {257}
    InitialMax = 32
    MaxCommands = 2
INVARIANTS
    TypeOK
    LineCarriesFrame
    WholeColours
    AtRestIsFresh
PROPERTIES
    UsesDriver
    StripConverges
