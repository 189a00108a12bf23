SPECIFICATION ThreadSpec
CONSTANTS
    None = None
    Chunk = {c1}
    Evaluation = {}
    Worker = {w1, w2}
    LeaderKinds = {}
    MaxInflight = 1
    HardLag = 0
    Warmup = 0
    UpdatesPerTransition = 1
    MaxCredit = 2
    TotalTransitions = 1
    OfflineUpdates = 0
    CheckpointInterval = 1
    KeepLast = 1
    SaveFinal = TRUE
    Interruptible = TRUE
    ResumeNewest = FALSE
    MaxStarts = 2
PROPERTIES
    StoppingLearnerExits
    RolloutsGetThrough
CHECK_DEADLOCK FALSE
