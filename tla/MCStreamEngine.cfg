CONSTANTS
    NumSpeakers = 2
    SilFramesPerSpk = 0
    PosEmbMaxLen = 10
    Geometries <- SmallGeometries
    FeedSizes = {0, 300, 3001}
    MaxSamples = 9400
    RouteFaults = TRUE
SPECIFICATION Spec
INVARIANTS
    TypeOK
    LabelledOnce
    MelOnGrid
    TrimKeepsContext
    BoundedBuffers
    WithinBudget
    ShardingInvariance
PROPERTIES
    CallsEnd
    ImplementsLabelling
