SPECIFICATION Spec
CONSTANTS
    None = None
    Chunk = {c1, c2, e1}
    Evaluation = {e1}
    Worker = {w1}
    LeaderKinds = {"best-eval", "fastest-eval"}
    MaxInflight = 1
    HardLag = 1
    Warmup = 1
    UpdatesPerTransition = 1
    MaxCredit = 2
    TotalTransitions = 2
    OfflineUpdates = 0
    CheckpointInterval = 2
    KeepLast = 0
    SaveFinal = TRUE
    Interruptible = FALSE
    ResumeNewest = FALSE
    MaxStarts = 2
SYMMETRY Symmetry
INVARIANTS
    ReplayIsAppliedPrefix
    CheckpointsCaptureTheirFrontier
CHECK_DEADLOCK FALSE
