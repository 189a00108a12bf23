SPECIFICATION MCFairSpec
CONSTANTS
    None = None
    NoTimer = NoTimer
    NoControl = NoControl
    Sender = {t1}
    SoftLag = 0
    HardLag = 0
    EvaluateEvery = 1
    MaxUpdates = 1
    MaxRollouts = 3
    MaxSpooled = 1
    MaxLost = 1
    PacketSize = 2
    MaxFrames = 4
    MaxConnections = 2
    Targets <- MCTargets
    MaxTaps = 3
    MaxFailures = 1
    Countdown = 2
    MaxGap = 1
    Interval = 2
    Repeat = 1
    Count = 2
    MaxClock = 5
    MaxRaces = 4
    InputLag = 1
    Jumps = {1, 2}
    Duration = 2
    Context = 1
    Laps = 1
    MaxAttempts = 2
    MaxTime = 6
INVARIANTS
    ActorTypeOK
    AcceptedTransitionsAreRecent
    EvaluationsWithinSchedules
    KeysFollowActions
    RecordingsAreWhole
PROPERTIES
    RequestedEvaluationsRun
    PublishedPoliciesReachTheActor
    ReadsAreAnswered
CHECK_DEADLOCK FALSE
