CONSTANTS
    Events = 2
    OutputFiles <- ThreeFiles
    Wanted <- WantedTwo
    Folder <- TwoFiles
    MaxReconnects = 1
    MaxVersions = 2
    MaxCommands = 3
    Datasets <- Fixtures3
    Plans <- OneOrFive
    MaxFaults = 1
    Steps <- AllSteps
    Blobs <- TwoBlobs
    Texts <- OneScript
    Reps = 2
    MaxEdits = 2
    Payloads <- AllGates
    Archives <- SomeArchives
    MaxRuns = 2
    CASES <- TwoCases
    DETERMINISM_CASE = "short"
    ADVISORY_CASES <- Advisory
    JobsArg = 2
    Npz <- SomeDumps
    Absent <- SomeAbsent
    AudioMounts <- SomeAudios
    Geometries <- ThreeGeometries
    Lengths <- SomeLengths
    RecordingMounts <- SomeRecordings
    RUNS_PER_FIXTURE = 2
    Setups <- SomeSetups
    Windows <- SomeWindows
    MaxChunks = 3
    Recordings <- Benched
    MaxOdd = 2
    Configurations <- WeightInputs
    Models <- ConfigInputs
    RowCounts <- RowInputs
    Arenas <- ArenaInputs
    Speech <- SpeechInputs
    Patches <- PatchInputs
    CrossInputs <- CardInputs
SPECIFICATION Spec
INVARIANT RealPrefixIsCompared
CHECK_DEADLOCK FALSE
