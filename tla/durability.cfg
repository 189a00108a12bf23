SPECIFICATION Spec
CONSTANTS
    None = None
    Chunk = {c1, c2}
    Evaluation = {}
    Worker = {w1, w2}
    LeaderKinds = {}
    MaxInflight = 2
    HardLag = 0
    Warmup = 0
    UpdatesPerTransition = 1
    MaxCredit = 2
    TotalTransitions = 2
    OfflineUpdates = 0
    CheckpointInterval = 1
    KeepLast = 0
    SaveFinal = TRUE
    Interruptible = FALSE
    ResumeNewest = FALSE
    MaxStarts = 2
SYMMETRY Symmetry
INVARIANTS
    TypeOK
PROPERTIES
    DiscardsAreSettled
    ImplementsLog
CHECK_DEADLOCK FALSE
