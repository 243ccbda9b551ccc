CONSTANTS
    NumSpeakers = 2
    SilFramesPerSpk = 1
    PosEmbMaxLen = 100
    Geometries <- SmallGeometries
    Chunks <- Utterances
    Ln <- LnTable
    MaxFrames = 12
SPECIFICATION Spec
INVARIANTS
    TypeOK
    RowsAligned
    FifoIsRecent
    EmittedOnce
    SilenceCountedOnce
    SilenceReserved
    OnlySpeechKept
PROPERTIES
    SpeakersKept
    ImplementsBudget
