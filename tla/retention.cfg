SPECIFICATION Spec
CONSTANTS
    None = None
    Chunk = {c1, e1}
    Evaluation = {e1}
    Worker = {w1}
    LeaderKinds = {"best-eval"}
    MaxInflight = 2
    HardLag = 0
    Warmup = 0
    UpdatesPerTransition = 1
    MaxCredit = 2
    TotalTransitions = 2
    OfflineUpdates = 1
    CheckpointInterval = 1
    KeepLast = 1
    SaveFinal = TRUE
    Interruptible = TRUE
    ResumeNewest = TRUE
    MaxStarts = 2
SYMMETRY Symmetry
INVARIANTS
    PrunedRowsStayRecoverable
PROPERTIES
    RetentionKeepsTheSavedFile
CHECK_DEADLOCK FALSE
