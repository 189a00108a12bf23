SPECIFICATION Spec
CONSTANTS
    None = None
    Chunk = {c1, e1, e2}
    Evaluation = {e1, e2}
    Worker = {w1}
    LeaderKinds = {"best-eval"}
    MaxInflight = 3
    HardLag = 0
    Warmup = 0
    UpdatesPerTransition = 1
    MaxCredit = 2
    TotalTransitions = 1
    OfflineUpdates = 1
    CheckpointInterval = 0
    KeepLast = 1
    SaveFinal = FALSE
    Interruptible = FALSE
    ResumeNewest = TRUE
    MaxStarts = 1
SYMMETRY Symmetry
INVARIANTS
    PrunedRowsStayRecoverable
CHECK_DEADLOCK FALSE
