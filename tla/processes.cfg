SPECIFICATION MCFairSpec
CONSTANTS
    None = None
    Unset = Unset
    Small = {s1}
    Large = {l1}
    Chunk <- MCChunk
    SizeOf <- MCSizeOf
    Sender = {t1}
    SpoolMaxBytes = 2
    DiskTimeouts = TRUE
    MaxStarts = 2
    Actor = {a1}
    Timeout = 2
    StallLimit = 2
    Grace = 2
    TotalTransitions = 4
    MaxEpisodeSteps = 2
    RolloutLength = 2
    Ready = 1
    CreditPerTransition = 3
    UpdateCost = 2
    CheckpointEvery = 1
    EvaluateEvery = 1
    MaxRuns = 3
    Target = 2
    SavesFinal = TRUE
    Never = Never
    Logger = {g1, g2}
    QueueSize = 1
    MaxLogged = 3
INVARIANTS
    PartsTypeOK
    RunsAddUp
    VerdictsAreTrue
PROPERTIES
    SpoolKeepsMoving
    BlockedActorsEnd
    TableFollowsTheActors
    RunsAndLaunchesEnd
CHECK_DEADLOCK FALSE
