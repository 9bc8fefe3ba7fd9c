SPECIFICATION VideoFairSpec
CONSTANTS
    Journeys <- MCJourneys
    Speeds <- MCSpeeds
    FrameRates <- MCFrameRates
    Rectangles <- MCRectangles
    Grids <- MCGrids
    Modes <- MCModes
    Xres = 32
    Yres = 24
    img_width = 3
    img_height = 2
    MaxTicks = 8
INVARIANTS
    StaysOnTheWay
    OneImage
    NoSpill
    PatternInPlace
    CleanReturn
PROPERTY
    Arrives
