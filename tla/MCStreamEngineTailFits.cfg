CONSTANTS
    NumSpeakers = 2
    SilFramesPerSpk = 0
    PosEmbMaxLen = 10
    Geometries <- SmallGeometries
    FeedSizes = {0, 300, 3001}
    MaxSamples = 6600
    RouteFaults = FALSE
SPECIFICATION Spec
INVARIANT ConstructedWindowsFit
