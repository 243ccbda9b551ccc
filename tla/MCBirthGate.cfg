CONSTANTS
    NumSpeakers = 3
    Frames <- SmallFrames
    CleanFrames = 2
    FadingFrames = 3
    GapFrames = 1
    RevisionFrames = 3
    MaxBatch = 2
    MaxFrames = 6
SPECIFICATION Spec
INVARIANTS
    TypeOK
    WindowUpToDate
    StrongestVoiceKept
    TransientsSilent
PROPERTIES
    OldFramesFrozen
    BirthsEarned
