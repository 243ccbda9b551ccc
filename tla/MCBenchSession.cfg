CONSTANTS
    Upstreams <- Sources
    Leftovers <- OldTrees
    Trials <- SameLabel
    warmup = 1
    iterations = 2
    Bodies <- TwoBodies
    MaxAsked = 1
    Mounts <- SomeMounts
    Synth <- OneTone
    Measured <- Outcomes
    N_DET_REPEAT = 2
    KnobSets <- TwoKnobs
    Outputs <- ChunkFiles
SPECIFICATION Spec
INVARIANTS
    BuiltIsReported
    MeasuredIsItsOwn
    ClaimsAreBacked
PROPERTIES
    SessionsEnd
CHECK_DEADLOCK FALSE
