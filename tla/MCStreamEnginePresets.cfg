CONSTANTS
    NumSpeakers = 4
    SilFramesPerSpk = 3
    PosEmbMaxLen = 512
    Geometries <- Presets
    FeedSizes = {40321, 99999, 160000}
    MaxSamples = 900000
    RouteFaults = FALSE
SPECIFICATION Spec
INVARIANTS
    ConstructedWindowsFit
