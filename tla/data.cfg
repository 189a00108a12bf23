SPECIFICATION MCSpec
CONSTANTS
    None = None
    Small = {s1, s2}
    Large = {l1}
    Huge = {h1}
    Chunk <- MCChunk
    SizeOf <- MCSizeOf
    Sender = {t1, t2}
    SpoolMaxBytes = 3
    DiskTimeouts = FALSE
    MaxStarts = 2
    Episode = {"demo", "lap", "lap2"}
    LastStep <- MCLastStep
    Demo <- MCDemo
    Cut <- MCCut
    Capacity = 5
    ChangesKept = 5
    NStep = 2
    SequenceLength = 3
    Reward <- MCReward
    Terminating = {"lap"}
    Gamma = 2
    AllowPadding = TRUE
    MaxIds = 9
    MaxEvents = 1
    Leaves = 5
    Bits = 3
    MaxWeight = 2
    Maps = 2
    Trials = 2
    MaxSteps = 2
    MaxVersions = 1
    MaxPauses = 1
    MaxEpisodeSteps = 2
    EvaluationTrials = 2
    ChunkTransitions = 2
    RequiredFinishes = 1
    StepLimit = 1
    Reasons = {"finished", "off_track"}
    Took = {0, 1, 2}
    SkippedFrames = {2}
    MaxEpisodes = 1
    MaxEvaluations = 1
    MaxPolicies = 1
    Boundaries <- MCBoundaries
    SlowSegments = {2, 4}
    Shortenings <- MCShortenings
    MinimumWindow = 2
    BaselineTrials = 2
    ConfirmationTrials = 2
    MaxTrials = 6
    MinimumImprovement = 1
    TargetTime = 1
    LapTimes = {2, 4, 7, 9}
    MaxRuns = 2
    Never = Never
    Countdown = 3
    MaxSkip = 1
    Intervals = {0, 2}
    MaxReads = 2
    StartTime = 1
    StartTimeout = 5
    MaxClock = 4
    MaxRaces = 3
    MaxFaults = 1
    Last = 4
    Place <- MCPlace
    Travelled <- MCTravelled
    ReferenceTime <- MCReferenceTime
    Position <- MCPosition
    CrashDistance = 1
    Forward = 2
    Backward = 1
    FinishPercent = 75
    MinimumFinishSteps = 2
    NoProgressSteps = 2
    SlowWindow = 3
    SlowMinimum = 2
    MaxSpeed = 2
    MaxTimeDelta = 2
    MaximumRaceTime = 4
    Cooldown = 2
    DebtClip = 2
    GammaNum = 1
    GammaDen = 2
    MaxTime = 4
SYMMETRY Symmetry
INVARIANTS
    DataTypeOK
    KeysIdentifyPayloads
    PersistedRolloutsSurvive
    BytesAreAccounted
    EpisodesAreKept
    DrawsFollowTheStore
    DrawsFollowTheWeights
    ReportsAreTrue
    SearchIsSafe
    EpisodesAreSound
    RewardsAddUp
CHECK_DEADLOCK FALSE
