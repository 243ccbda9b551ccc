CONSTANTS
    Grid = 4
    Sets <- OneSet
    StableCases <- Stable
    Switches = {TRUE}
    Children <- SmallChildren
    Edits <- EditedPayloads
    Options <- CommandLines
    Outputs <- NaNOutputs
SPECIFICATION PipelineSpec
INVARIANT PassIsWithinTheBand
CHECK_DEADLOCK FALSE
