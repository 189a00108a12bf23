SPECIFICATION TrainerSpec
CONSTANTS
    TotalTransitions = 4
    MaxEpisodeSteps = 2
    RolloutLength = 2
    Ready = 2
    CreditPerTransition = 1
    UpdateCost = 2
    CheckpointEvery = 1
    EvaluateEvery = 1
    MaxRuns = 2
INVARIANT ResumedRunsCollect
CHECK_DEADLOCK FALSE
