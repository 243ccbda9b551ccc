CONSTANTS
    Grid = 4
    Sets <- TwoSets
    StableCases <- Stable
    Switches = {TRUE, FALSE}
    Children <- SmallChildren
    Edits <- EditedPayloads
    Options <- CommandLines
    Outputs <- EngineOutputs
SPECIFICATION PipelineSpec
INVARIANTS
    VerdictIsEarned
    FixtureIsTruth
    GatesAgree
CHECK_DEADLOCK FALSE
